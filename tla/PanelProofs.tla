------------------------------ MODULE PanelProofs ------------------------------
(***************************************************************************)
(* What holds of Panel for any panel, canvas and load.                     *)
(***************************************************************************)
EXTENDS Panel, TLAPS, WellFoundedInduction

------------------------------------------------------------------------------
(* Numbers have a least one; so a set with 0 in it, and with every number  *)
(* the next, has them all.                                                 *)
LEMMA LeastNatural ==
    ASSUME NEW T, T \subseteq Nat, T # {}
    PROVE  \E x \in T : \A y \in T : x <= y
  <1> DEFINE R == OpToRel(<, Nat)
  <1>1. IsWellFoundedOn(R, Nat) /\ \A a, b \in Nat : a < b => <<a, b>> \in R
    BY NatLessThanWellFounded DEF OpToRel
  <1> HIDE DEF R
  <1>2. \E x \in T : \A y \in T : ~ (<<y, x>> \in R)
    <2>1. IsWellFoundedOn(R, Nat)
      BY <1>1
    <2> QED
      BY <2>1, WFMin, Zenon
  <1>3. PICK x \in T : \A y \in T : ~ (<<y, x>> \in R)
    BY <1>2
  <1>4. ASSUME NEW y \in T PROVE x <= y
    <2>1. x \in Nat /\ y \in Nat
      OBVIOUS
    <2>2. ~(y < x)
      BY <1>1, <1>3, <2>1
    <2> QED
      BY <2>1, <2>2
  <1> QED
    BY <1>4

LEMMA SetInduction ==
    ASSUME NEW S, 0 \in S, \A n \in Nat : n \in S => n + 1 \in S
    PROVE  Nat \subseteq S
  <1> SUFFICES ASSUME Nat \ S # {} PROVE FALSE
    OBVIOUS
  <1>1. PICK x \in Nat \ S : \A y \in Nat \ S : x <= y
    BY LeastNatural
  <1>2. x - 1 \in Nat /\ ~(x <= x - 1) /\ (x - 1) + 1 = x
    BY <1>1
  <1>3. x - 1 \in S
    BY <1>1, <1>2
  <1> QED
    BY <1>1, <1>2, <1>3

------------------------------------------------------------------------------
USE ConstantsAssumption DEF ConstantsAssumption
USE DEF isr, shape, buffers, pins, render, seen

------------------------------------------------------------------------------
(* The numbers of a panel.                                                 *)
LEMMA WorthIs == \A i \in 0..6 : Worth(i) \in Nat \ {0}
  <1> SUFFICES ASSUME NEW i \in 0..6 PROVE Worth(i) \in Nat \ {0}
    OBVIOUS
  <1>1. i \in {0, 1, 2, 3, 4, 5, 6}
    OBVIOUS
  <1> QED
    BY <1>1 DEF Worth

LEMMA RowPairsIs == RowPairs \in {2, 4, 8, 16, 32}
  <1>1. AddressLines \in {1, 2, 3, 4, 5}
    OBVIOUS
  <1> QED
    BY <1>1 DEF RowPairs, Worth

LEMMA MinPeriodIs == \A n \in Depths : MinPeriod(n) \in Nat \ {0}
  <1> SUFFICES ASSUME NEW n \in Depths PROVE MinPeriod(n) \in Nat \ {0}
    OBVIOUS
  <1>1. n \in {1, 2, 3, 4, 5, 6}
    OBVIOUS
  <1>2. Worth(n) - 1 \in {1, 3, 7, 15, 31, 63}
    BY <1>1 DEF Worth
  <1>3. (TimerFreq \div 250) \div RowPairs \in Nat
    BY RowPairsIs
  <1>4. ((TimerFreq \div 250) \div RowPairs) \div (Worth(n) - 1) \in Nat
    BY <1>2, <1>3
  <1> QED
    BY <1>4 DEF MinPeriod, Larger

------------------------------------------------------------------------------
(* Whatever the layout, a canvas becomes a buffer of the right shape.      *)
LEMMA FrameType ==
    ASSUME numPlanes \in Depths, bytesPerElement \in Layouts,
           NEW c \in Canvases \union {Nothing}
    PROVE  Frame(c) \in [Scanlines(numPlanes) -> [Columns -> SUBSET Wires]]
  <1>1. BlankFrame(numPlanes) \in [Scanlines(numPlanes) -> [Columns -> SUBSET Wires]]
    BY DEF BlankFrame, Wires
  <1>2. ASSUME NEW k, NEW x
        PROVE  /\ ByteElement(numPlanes, c, k, x) \in SUBSET Wires
               /\ WideElement(numPlanes, c, k, x) \in SUBSET Wires
    <2>1. \A y : Element(numPlanes, c, k, y) \subseteq Wires
      BY DEF Element, Wires
    <2>2. \A A, B : Xor(Wires, A, B) \subseteq Wires
      BY DEF Xor
    <2> QED
      BY <2>1, <2>2 DEF ByteElement, WideElement, Wires
  <1>3. CASE c # Nothing
    BY <1>2, <1>3 DEF Frame, Buffers
  <1> QED
    BY <1>1, <1>3 DEF Frame

(* Where show() is: what it has filled, and what it waits for.             *)
Filling ==
    /\ swapBuffers => rPc = "wait"
    /\ rPc = "convert" => at < RowPairs * numPlanes
    /\ rPc = "convert" => \A k \in 0..(at - 1) : screenData[dest][k] = Frame(canvas)[k]
    /\ rPc = "swap" \/ swapBuffers => screenData[dest] = Frame(canvas)
    /\ rPc \in {"convert", "swap"} \/ swapBuffers => dest = 1 - activeBuffer
    /\ rPc = "wait" /\ ~swapBuffers => showing = canvas

DisplayInv == TypeOK /\ WholeFrame /\ Filling

LEMMA Size == numPlanes \in Depths => RowPairs * numPlanes \in Nat \ {0}
  <1> SUFFICES ASSUME numPlanes \in Depths PROVE RowPairs * numPlanes \in Nat \ {0}
    OBVIOUS
  <1>1. RowPairs \in Nat /\ RowPairs > 0 /\ numPlanes \in Nat /\ numPlanes > 0
    BY RowPairsIs
  <1> QED
    BY <1>1

LEMMA InitDisplay == Init => DisplayInv
  <1> SUFFICES ASSUME Init PROVE DisplayInv
    OBVIOUS
  <1>1. numPlanes \in Depths /\ bytesPerElement \in Layouts /\ numPlanes \in 1..6
    BY DEF Init
  <1>2. BlankFrame(numPlanes) \in [Scanlines(numPlanes) -> [Columns -> SUBSET Wires]]
    BY <1>1, FrameType DEF Frame
  <1>3. RowPairs * numPlanes \in Nat
    BY <1>1, Size
  <1>4. MinPeriod(numPlanes) \in Nat
    BY <1>1, MinPeriodIs
  <1>5. TypeOK
    <2>1. screenData \in [{0, 1} -> [Scanlines(numPlanes) -> [Columns -> SUBSET Wires]]]
      BY <1>2 DEF Init
    <2>2. plane \in 0..(numPlanes - 1) /\ row \in 0..(RowPairs - 1)
          /\ prevRow \in 0..(RowPairs - 1)
      BY <1>1, RowPairsIs DEF Init
    <2>3. bitZeroPeriod \in Nat
      BY <1>4 DEF Init
    <2>4. at \in 0..(RowPairs * numPlanes)
      BY <1>3 DEF Init
    <2> QED
      BY <1>1, <2>1, <2>2, <2>3, <2>4 DEF Init, TypeOK
  <1>6. WholeFrame /\ Filling
    BY <1>1 DEF Init, WholeFrame, Filling, Frame
  <1> QED
    BY <1>5, <1>6 DEF DisplayInv

------------------------------------------------------------------------------
LEMMA ModIsLess ==
    ASSUME NEW a \in Nat, NEW m \in Nat \ {0}
    PROVE  a % m \in Nat /\ a % m <= a
  OBVIOUS

LEMMA OneMore == \A t \in Nat : t + 1 \in Nat \ {0}
  OBVIOUS

LEMMA Eighth ==
    ASSUME NEW b \in Nat, NEW e \in Nat
    PROVE  (b * 7 + e + 4) \div 8 \in Nat
  OBVIOUS

LEMMA PeriodTicks ==
    ASSUME NEW b \in Nat, NEW p \in Nat
    PROVE  b * p \in Nat /\ (b * p) % TimerWord \in Nat
  OBVIOUS

(* A step of the interrupt: it swaps only while show() waits, and then to  *)
(* the buffer that is full.                                                *)
LEMMA RowHandlerKeepsDisplay == DisplayInv /\ _PM_row_handler => DisplayInv'
  <1> SUFFICES ASSUME DisplayInv, _PM_row_handler PROVE DisplayInv'
    OBVIOUS
  <1>1. TypeOK /\ WholeFrame /\ Filling
    BY DEF DisplayInv
  <1>2. UNCHANGED <<screenData, numPlanes, bytesPerElement, rPc, canvas, dest, at>>
    BY DEF _PM_row_handler
  <1>3. numPlanes \in 1..6 /\ plane \in 0..(numPlanes - 1) /\ row \in 0..(RowPairs - 1)
        /\ prevRow \in 0..(RowPairs - 1) /\ RowPairs \in Nat /\ RowPairs > 1
    BY <1>1, RowPairsIs DEF TypeOK
  <1>4. plane' \in 0..(numPlanes - 1) /\ row' \in 0..(RowPairs - 1)
    <2>1. Advance
      BY DEF _PM_row_handler
    <2> QED
      BY <1>3, <2>1 DEF Advance, LastPlane, FrameEnds
  <1>5. prevRow' \in 0..(RowPairs - 1)
    BY <1>3 DEF _PM_row_handler, SetAddress
  <1>6. bitZeroPeriod' \in Nat
    <2>1. CASE UNCHANGED bitZeroPeriod
      BY <1>1, <2>1 DEF TypeOK
    <2>2. CASE \E load \in Loads : bitZeroPeriod' = Filtered(load % (ticks' + 1))
      <3>1. PICK load \in Loads : bitZeroPeriod' = Filtered(load % (ticks' + 1))
        BY <2>2
      <3>2. bitZeroPeriod \in Nat /\ numPlanes \in Depths
        BY <1>1 DEF TypeOK
      <3>3. PICK e \in Nat : bitZeroPeriod' = Filtered(e)
        <4>1. ticks' \in Nat
          <5>1. Worth(plane) \in Nat
            BY <1>3, WorthIs
          <5> QED
            BY <3>2, <5>1, PeriodTicks DEF _PM_row_handler, TimerStart
        <4>2. load \in Nat /\ ticks' + 1 \in Nat \ {0}
          BY <3>1, <4>1, OneMore
        <4>3. load % (ticks' + 1) \in Nat
          BY <4>2, ModIsLess
        <4> QED
          BY <3>1, <4>3
      <3>4. (bitZeroPeriod * 7 + e + 4) \div 8 \in Nat
        BY <3>2, Eighth
      <3>5. MinPeriod(numPlanes) \in Nat
        BY <3>2, MinPeriodIs
      <3> QED
        BY <3>3, <3>4, <3>5 DEF Filtered, Larger
    <2>3. PICK load \in Loads : Nudge(load)
      BY DEF _PM_row_handler, Takes
    <2> QED
      BY <2>1, <2>2, <2>3 DEF Nudge
  <1>6a. inTime' \in BOOLEAN
    <2>1. PICK load \in Loads : inTime' = ((FrameBegins \/ inTime) /\ load <= ticks')
      BY DEF _PM_row_handler, Takes
    <2>2. ((FrameBegins \/ inTime) /\ load <= ticks') \in BOOLEAN
      BY Zenon
    <2> QED
      BY <2>1, <2>2
  <1>7. \/ UNCHANGED <<activeBuffer, swapBuffers, showing>>
        \/ /\ swapBuffers /\ swapBuffers' = FALSE
           /\ activeBuffer' = 1 - activeBuffer /\ showing' = canvas
    BY DEF _PM_row_handler, SwapIfDue
  <1>8. CASE UNCHANGED <<activeBuffer, swapBuffers, showing>>
    <2>1. TypeOK'
      BY <1>1, <1>2, <1>4, <1>5, <1>6, <1>8, <1>6a DEF TypeOK
    <2>2. Frame(showing)' = Frame(showing) /\ Frame(canvas)' = Frame(canvas)
      BY <1>2, <1>8 DEF Frame
    <2>3. WholeFrame'
      BY <1>1, <1>2, <1>8, <2>2 DEF WholeFrame
    <2>4. Filling'
      BY <1>1, <1>2, <1>8, <2>2 DEF Filling
    <2> QED
      BY <2>1, <2>3, <2>4 DEF DisplayInv
  <1>9. CASE /\ swapBuffers /\ swapBuffers' = FALSE
             /\ activeBuffer' = 1 - activeBuffer /\ showing' = canvas
    <2>1. rPc = "wait" /\ dest = 1 - activeBuffer /\ screenData[dest] = Frame(canvas)
      BY <1>1, <1>9 DEF Filling
    <2>2. TypeOK'
      <3>1. activeBuffer' \in {0, 1}
        BY <1>1, <1>9 DEF TypeOK
      <3>3. swapBuffers' \in BOOLEAN
        BY <1>9, Zenon
      <3>2. showing' \in Canvases \union {Nothing}
        BY <1>1, <1>9 DEF TypeOK
      <3> QED
        BY <1>1, <1>2, <1>4, <1>5, <1>6, <1>6a, <3>1, <3>2, <3>3 DEF TypeOK
    <2>3. Frame(showing)' = Frame(canvas)
      BY <1>2, <1>9 DEF Frame
    <2>4. WholeFrame'
      BY <1>2, <1>9, <2>1, <2>3 DEF WholeFrame
    <2>5. Filling'
      BY <1>2, <1>9, <2>1 DEF Filling
    <2> QED
      BY <2>2, <2>4, <2>5 DEF DisplayInv
  <1> QED
    BY <1>7, <1>8, <1>9

(* The steps of show(): it writes to the buffer that is off the panel.     *)
LEMMA RenderKeepsDisplay == DisplayInv /\ Render => DisplayInv'
  <1> SUFFICES ASSUME DisplayInv, Render PROVE DisplayInv'
    OBVIOUS
  <1>1. TypeOK /\ WholeFrame /\ Filling
    BY DEF DisplayInv
  <1>2. UNCHANGED <<isr, shape, activeBuffer, pins, seen>>
    BY DEF Render, Show, ConvertScanline, _PM_swapbuffer_maybe, SwapDone
  <1>3. numPlanes \in Depths /\ activeBuffer \in {0, 1} /\ at \in 0..(RowPairs * numPlanes)
        /\ dest \in {0, 1} /\ RowPairs * numPlanes \in Nat \ {0}
    BY <1>1, Size DEF TypeOK
  <1>4. Frame(showing)' = Frame(showing)
    BY <1>2 DEF Frame
  <1>5. ASSUME NEW c \in Canvases, Show(c)
        PROVE  DisplayInv'
    <2>1. screenData' = screenData /\ swapBuffers' = swapBuffers
      BY <1>5 DEF Show
    <2>2. TypeOK'
      BY <1>1, <1>2, <1>3, <1>5, <2>1 DEF Show, TypeOK
    <2>3. WholeFrame'
      BY <1>1, <1>2, <1>4, <1>5, <2>1 DEF Show, WholeFrame
    <2>4. Filling'
      BY <1>1, <1>2, <1>3, <1>5, <2>1 DEF Show, Filling
    <2> QED
      BY <2>2, <2>3, <2>4 DEF DisplayInv
  <1>6. CASE ConvertScanline
    <2>1. /\ rPc = "convert" /\ at < RowPairs * numPlanes /\ dest = 1 - activeBuffer
          /\ ~swapBuffers /\ at \in Scanlines(numPlanes)
          /\ at' = at + 1 /\ UNCHANGED <<canvas, dest, swapBuffers>>
      BY <1>1, <1>3, <1>6 DEF Filling, ConvertScanline, Scanlines
    <2>2. Frame(canvas)' = Frame(canvas)
      BY <1>2, <2>1 DEF Frame
    <2>3. Frame(canvas) \in [Scanlines(numPlanes) -> [Columns -> SUBSET Wires]]
      BY <1>1, FrameType DEF TypeOK
    <2>4. screenData' = [screenData EXCEPT ![dest][at] = Frame(canvas)[at]]
      BY <1>6 DEF ConvertScanline
    <2>5. screenData' \in [{0, 1} -> [Scanlines(numPlanes) -> [Columns -> SUBSET Wires]]]
      BY <1>1, <1>3, <2>1, <2>3, <2>4 DEF TypeOK
    <2>6. screenData'[dest] = [screenData[dest] EXCEPT ![at] = Frame(canvas)[at]]
          /\ screenData'[activeBuffer] = screenData[activeBuffer]
      BY <1>1, <1>3, <2>1, <2>4 DEF TypeOK
    <2>7. \A k \in 0..at : screenData'[dest][k] = Frame(canvas)[k]
      <3>1. \A k \in 0..(at - 1) : screenData[dest][k] = Frame(canvas)[k]
        BY <1>1, <2>1 DEF Filling
      <3>2. screenData[dest] \in [Scanlines(numPlanes) -> [Columns -> SUBSET Wires]]
        BY <1>1, <1>3 DEF TypeOK
      <3>3. \A k \in 0..at : k \in Scanlines(numPlanes) /\ (k = at \/ k \in 0..(at - 1))
        BY <1>3, <2>1 DEF Scanlines
      <3> QED
        BY ONLY <2>6, <3>1, <3>2, <3>3
    <2>8. at + 1 = RowPairs * numPlanes => screenData'[dest] = Frame(canvas)
      <3>1. screenData'[dest] \in [Scanlines(numPlanes) -> [Columns -> SUBSET Wires]]
        BY <1>3, <2>5
      <3>2. at + 1 = RowPairs * numPlanes => Scanlines(numPlanes) = 0..at
        BY <1>3 DEF Scanlines
      <3>3. ASSUME at + 1 = RowPairs * numPlanes
            PROVE  screenData'[dest] = Frame(canvas)
        <4>1. \A k \in Scanlines(numPlanes) : screenData'[dest][k] = Frame(canvas)[k]
          BY <2>7, <3>2, <3>3
        <4> QED
          BY <2>3, <3>1, <4>1
      <3> QED
        BY <3>3
    <2>9. rPc' = IF at + 1 = RowPairs * numPlanes THEN "swap" ELSE "convert"
      BY <1>6 DEF ConvertScanline
    <2>10. TypeOK'
      BY <1>1, <1>2, <1>3, <2>1, <2>5, <2>9 DEF TypeOK
    <2>11. WholeFrame'
      BY <1>1, <1>2, <1>4, <2>6, <2>9 DEF WholeFrame
    <2>12. Filling'
      BY <1>2, <1>3, <2>1, <2>2, <2>7, <2>8, <2>9 DEF Filling
    <2> QED
      BY <2>10, <2>11, <2>12 DEF DisplayInv
  <1>7. CASE _PM_swapbuffer_maybe
    <2>1. screenData' = screenData /\ canvas' = canvas /\ dest' = dest /\ at' = at
      BY <1>7 DEF _PM_swapbuffer_maybe
    <2>2. Frame(canvas)' = Frame(canvas)
      BY <1>2, <2>1 DEF Frame
    <2>3. TypeOK'
      BY <1>1, <1>2, <1>7, <2>1 DEF _PM_swapbuffer_maybe, TypeOK
    <2>4. WholeFrame'
      BY <1>1, <1>2, <1>4, <1>7, <2>1 DEF _PM_swapbuffer_maybe, WholeFrame
    <2>5. Filling'
      BY <1>1, <1>2, <1>7, <2>1, <2>2 DEF _PM_swapbuffer_maybe, Filling
    <2> QED
      BY <2>3, <2>4, <2>5 DEF DisplayInv
  <1>8. CASE SwapDone
    <2>1. screenData' = screenData /\ canvas' = canvas /\ dest' = dest /\ at' = at
          /\ swapBuffers' = swapBuffers
      BY <1>8 DEF SwapDone
    <2>2. TypeOK'
      BY <1>1, <1>2, <1>8, <2>1 DEF SwapDone, TypeOK
    <2>3. WholeFrame'
      BY <1>1, <1>2, <1>4, <1>8, <2>1 DEF SwapDone, WholeFrame, Filling
    <2>4. Filling'
      BY <1>1, <1>2, <1>8, <2>1 DEF SwapDone, Filling
    <2> QED
      BY <2>2, <2>3, <2>4 DEF DisplayInv
  <1> QED
    BY <1>5, <1>6, <1>7, <1>8 DEF Render

LEMMA NextKeepsDisplay == DisplayInv /\ [Next]_vars => DisplayInv'
  <1> SUFFICES ASSUME DisplayInv, [Next]_vars PROVE DisplayInv'
    OBVIOUS
  <1>1. CASE UNCHANGED vars
    <2>1. TypeOK /\ WholeFrame /\ Filling
      BY DEF DisplayInv
    <2>2. TypeOK'
      BY <1>1, <2>1 DEF vars, TypeOK
    <2>3. Frame(showing)' = Frame(showing) /\ Frame(canvas)' = Frame(canvas)
      BY <1>1 DEF vars, Frame
    <2>4. WholeFrame'
      BY <1>1, <2>1, <2>3 DEF vars, WholeFrame
    <2>5. Filling'
      BY <1>1, <2>1, <2>3 DEF vars, Filling
    <2> QED
      BY <2>2, <2>4, <2>5 DEF DisplayInv
  <1> QED
    BY <1>1, RowHandlerKeepsDisplay, RenderKeepsDisplay DEF Next

LEMMA DisplayAlways == Spec => []DisplayInv
  BY InitDisplay, NextKeepsDisplay, PTL DEF Spec

(* Every reachable state has its declared types: the interrupt and the     *)
(* converter index the buffers within their bounds, for any panel.         *)
THEOREM TypeCorrect == Spec => []TypeOK
  <1>1. DisplayInv => TypeOK
    BY DEF DisplayInv
  <1> QED
    BY <1>1, DisplayAlways, PTL

(* The interrupt never reads the buffer that show() is filling, for any    *)
(* number of rows, columns, planes and canvases, however the two interleave. *)
THEOREM NeverDrawnOnCorrect == Spec => []NeverDrawnOn
  <1>1. DisplayInv => NeverDrawnOn
    <2> SUFFICES ASSUME DisplayInv, rPc \in {"convert", "swap"}
                 PROVE  dest # activeBuffer /\ ~swapBuffers
      BY DEF NeverDrawnOn
    <2>1. TypeOK /\ Filling
      BY DEF DisplayInv
    <2>2. activeBuffer \in {0, 1} /\ dest = 1 - activeBuffer
      BY <2>1 DEF TypeOK, Filling
    <2>3. dest # activeBuffer
      BY <2>2
    <2>4. ~swapBuffers
      BY <2>1 DEF Filling
    <2> QED
      BY <2>3, <2>4
  <1> QED
    BY <1>1, DisplayAlways, PTL

(* What is on the panel is one canvas, whole, and after show() the one     *)
(* that was shown.                                                         *)
THEOREM WholeFrameCorrect == Spec => []WholeFrame
  <1>1. DisplayInv => WholeFrame
    BY DEF DisplayInv
  <1> QED
    BY <1>1, DisplayAlways, PTL

------------------------------------------------------------------------------
(* The period of plane 0: the longest load there can be bounds it.         *)
Periods == Loads \union {MinPeriod(numPlanes)}

PeriodInv ==
    /\ bitZeroPeriod >= MinPeriod(numPlanes)
    /\ \E e \in Periods : bitZeroPeriod <= e

LEMMA EighthIsBelow ==
    ASSUME NEW b \in Nat, NEW x \in Nat, NEW top \in Nat, b <= top, x <= top
    PROVE  (b * 7 + x + 4) \div 8 \in Nat /\ (b * 7 + x + 4) \div 8 <= top
  OBVIOUS

LEMMA TimesIsMonotonic ==
    ASSUME NEW a \in Nat, NEW b \in Nat, NEW k \in Nat, a <= b
    PROVE  a * k <= b * k /\ a * k \in Nat /\ b * k \in Nat
  OBVIOUS

LEMMA NudgeKeepsPeriod ==
    ASSUME TypeOK, PeriodInv, NEW load \in Loads, NEW x \in Nat, x <= load,
           bitZeroPeriod' = Filtered(x), numPlanes' = numPlanes
    PROVE  PeriodInv'
  <1>1. bitZeroPeriod \in Nat /\ numPlanes \in Depths /\ MinPeriod(numPlanes) \in Nat
    BY MinPeriodIs DEF TypeOK
  <1>2. Periods \subseteq Nat /\ Periods' = Periods /\ MinPeriod(numPlanes) \in Periods
        /\ load \in Periods
    BY <1>1 DEF Periods
  <1>3. PICK e \in Periods : bitZeroPeriod <= e
    BY DEF PeriodInv
  <1>4. PICK top \in Periods : top \in Nat /\ bitZeroPeriod <= top /\ x <= top
    <2>1. e \in Nat /\ load \in Nat
      BY <1>2
    <2>2. CASE e <= load
      BY <1>1, <1>2, <1>3, <2>1, <2>2
    <2>3. CASE load <= e
      BY <1>1, <1>2, <1>3, <2>1, <2>3
    <2> QED
      BY <2>1, <2>2, <2>3
  <1>5. (bitZeroPeriod * 7 + x + 4) \div 8 \in Nat /\ (bitZeroPeriod * 7 + x + 4) \div 8 <= top
    BY <1>1, <1>4, EighthIsBelow
  <1>6. bitZeroPeriod' >= MinPeriod(numPlanes)
        /\ (bitZeroPeriod' <= top \/ bitZeroPeriod' = MinPeriod(numPlanes))
    BY <1>1, <1>5 DEF Filtered, Larger
  <1>7. \E p \in Periods : bitZeroPeriod' <= p
    BY <1>1, <1>2, <1>4, <1>6
  <1> QED
    BY <1>2, <1>6, <1>7 DEF PeriodInv

LEMMA RowHandlerKeepsPeriod ==
    DisplayInv /\ PeriodInv /\ _PM_row_handler => PeriodInv'
  <1> SUFFICES ASSUME DisplayInv, PeriodInv, _PM_row_handler PROVE PeriodInv'
    OBVIOUS
  <1>1. TypeOK /\ numPlanes' = numPlanes
    BY DEF DisplayInv, _PM_row_handler
  <1>2. CASE UNCHANGED bitZeroPeriod
    BY <1>1, <1>2 DEF PeriodInv, Periods
  <1>3. CASE \E load \in Loads : bitZeroPeriod' = Filtered(load % (ticks' + 1))
    <2>1. PICK load \in Loads : bitZeroPeriod' = Filtered(load % (ticks' + 1))
      BY <1>3
    <2>2. bitZeroPeriod \in Nat /\ Worth(plane) \in Nat
      <3>1. numPlanes \in Depths /\ plane \in 0..(numPlanes - 1)
        BY <1>1 DEF TypeOK
      <3> QED
        BY <1>1, <3>1, WorthIs DEF TypeOK
    <2>3. ticks' \in Nat
      BY <2>2, PeriodTicks DEF _PM_row_handler, TimerStart
    <2>4. load \in Nat /\ ticks' + 1 \in Nat \ {0}
      BY <2>1, <2>3, OneMore
    <2>5. load % (ticks' + 1) \in Nat /\ load % (ticks' + 1) <= load
      BY <2>4, ModIsLess
    <2> QED
      BY <1>1, <2>1, <2>5, NudgeKeepsPeriod
  <1>4. PICK load \in Loads : Nudge(load)
    BY DEF _PM_row_handler, Takes
  <1> QED
    BY <1>2, <1>3, <1>4 DEF Nudge

LEMMA PeriodAlways == Spec => []PeriodInv
  <1>1. Init => PeriodInv
    <2> SUFFICES ASSUME Init PROVE PeriodInv
      OBVIOUS
    <2>1. bitZeroPeriod = MinPeriod(numPlanes) /\ MinPeriod(numPlanes) \in Nat
      BY MinPeriodIs DEF Init
    <2> QED
      BY <2>1 DEF PeriodInv, Periods
  <1>2. DisplayInv /\ PeriodInv /\ [Next]_vars => PeriodInv'
    <2> SUFFICES ASSUME DisplayInv, PeriodInv, [Next]_vars PROVE PeriodInv'
      OBVIOUS
    <2>1. CASE _PM_row_handler
      BY <2>1, RowHandlerKeepsPeriod
    <2>2. CASE Render \/ UNCHANGED vars
      <3>1. UNCHANGED <<isr, shape>>
        BY <2>2 DEF Render, Show, ConvertScanline, _PM_swapbuffer_maybe, SwapDone, vars
      <3> QED
        BY <3>1 DEF PeriodInv, Periods
    <2> QED
      BY <2>1, <2>2 DEF Next
  <1> QED
    BY <1>1, <1>2, DisplayAlways, PTL DEF Spec

(* The filter keeps the period between its floor and the longest load,     *)
(* and the period of the last plane fits the timer's compare register, for *)
(* every panel for which those two do.                                     *)
THEOREM PeriodFitsCorrect == Spec => []PeriodFits
  <1>1. DisplayInv /\ PeriodInv => PeriodFits
    <2> SUFFICES ASSUME DisplayInv, PeriodInv PROVE PeriodFits
      OBVIOUS
    <2>1. bitZeroPeriod \in Nat /\ numPlanes \in Depths
      BY DEF DisplayInv, TypeOK
    <2>2. numPlanes - 1 \in 0..(numPlanes - 1)
      BY <2>1
    <2>3. PICK e \in Periods : bitZeroPeriod <= e
      BY DEF PeriodInv
    <2>4. e \in Nat /\ Worth(numPlanes - 1) \in Nat /\ e * Worth(numPlanes - 1) < TimerWord
      BY <2>1, <2>2, <2>3, WorthIs, MinPeriodIs DEF Periods
    <2>5. /\ bitZeroPeriod * Worth(numPlanes - 1) <= e * Worth(numPlanes - 1)
          /\ bitZeroPeriod * Worth(numPlanes - 1) \in Nat /\ e * Worth(numPlanes - 1) \in Nat
      BY <2>1, <2>3, <2>4, TimesIsMonotonic
    <2>6. bitZeroPeriod * Worth(numPlanes - 1) < TimerWord
      BY <2>4, <2>5
    <2> QED
      BY <2>6 DEF PeriodInv, Periods, PeriodFits
  <1> QED
    BY <1>1, DisplayAlways, PeriodAlways, PTL

--------------------------------------------------------------------------------
(* What is scanned is one canvas from end to end, and not one that is      *)
(* being drawn.                                                            *)
THEOREM NeverTornCorrect == Spec => []NeverTorn
  <1>1. NeverDrawnOn /\ WholeFrame => NeverTorn
    BY DEF NeverTorn
  <1> QED
    BY <1>1, NeverDrawnOnCorrect, WholeFrameCorrect, PTL

--------------------------------------------------------------------------------
(* The refinement: what the display shows and what is being drawn.         *)
Drawn == IF rPc = "idle" \/ (rPc = "wait" /\ ~swapBuffers) THEN Nothing ELSE canvas

Drawing == rPc # "idle" => canvas \in Canvases

LEMMA DrawingStep == Drawing /\ [Next]_vars => Drawing'
  <1> SUFFICES ASSUME Drawing, [Next]_vars PROVE Drawing'
    OBVIOUS
  <1>1. ASSUME NEW c \in Canvases, Show(c) PROVE Drawing'
    BY <1>1 DEF Show, Drawing
  <1>2. CASE _PM_row_handler \/ UNCHANGED vars
    BY <1>2 DEF _PM_row_handler, vars, render, Drawing
  <1>3. CASE ConvertScanline \/ _PM_swapbuffer_maybe \/ SwapDone
    BY <1>3 DEF ConvertScanline, _PM_swapbuffer_maybe, SwapDone, Drawing
  <1> QED
    BY <1>1, <1>2, <1>3 DEF Next, Render

LEMMA DisplayStep ==
    ASSUME DisplayInv, DisplayInv', Drawing, [Next]_vars
    PROVE  [Display!Next]_<<Shown, Drawn>>
  <1>1. Shown = showing /\ Shown' = showing'
    BY DEF DisplayInv, WholeFrame, Shown
  <1>2. /\ swapBuffers => rPc = "wait"
        /\ swapBuffers \in BOOLEAN /\ Nothing \notin Canvases
    BY ConstantsAssumption DEF DisplayInv, Filling, TypeOK, ConstantsAssumption
  <1>3. CASE _PM_row_handler
    <2>1. UNCHANGED <<rPc, canvas>>
      BY <1>3 DEF _PM_row_handler, render
    <2>2. CASE FrameEnds /\ swapBuffers
      <3>1. showing' = canvas /\ ~swapBuffers' /\ rPc = "wait"
        BY <1>2, <1>3, <2>2 DEF _PM_row_handler, SwapIfDue
      <3>2. Drawn = canvas /\ Drawn' = Nothing /\ canvas \in Canvases
        BY <2>1, <2>2, <3>1 DEF Drawn, Drawing
      <3> QED
        BY <1>1, <1>2, <3>1, <3>2 DEF Display!Next, Display!Flip, Drawn
    <2>3. CASE ~(FrameEnds /\ swapBuffers)
      <3>1. showing' = showing /\ swapBuffers' = swapBuffers
        BY <1>3, <2>3 DEF _PM_row_handler, SwapIfDue
      <3> QED
        BY <1>1, <2>1, <3>1 DEF Drawn
    <2> QED
      BY <2>2, <2>3
  <1>4. ASSUME NEW c \in Canvases, Show(c) PROVE Display!Draw
    <2>1. /\ rPc = "idle" /\ rPc' = "convert" /\ canvas' = c
          /\ showing' = showing
      BY <1>4 DEF Show, seen
    <2>2. Drawn = Nothing /\ Drawn' = c
      BY <2>1 DEF Drawn
    <2> QED
      BY <1>1, <2>1, <2>2 DEF Display!Draw, Drawn
  <1>5. CASE ConvertScanline \/ _PM_swapbuffer_maybe
    <2>1. /\ rPc \in {"convert", "swap"} /\ canvas' = canvas /\ showing' = showing
          /\ rPc' \in {"convert", "swap"} \/ (rPc' = "wait" /\ swapBuffers' = TRUE)
      BY <1>5 DEF ConvertScanline, _PM_swapbuffer_maybe, seen
    <2> QED
      BY <1>1, <2>1 DEF Drawn
  <1>6. CASE SwapDone
    BY <1>1, <1>6 DEF SwapDone, seen, buffers, Drawn
  <1>7. CASE UNCHANGED vars
    BY <1>1, <1>7 DEF vars, buffers, render, seen, Drawn
  <1>8. (\E c \in Canvases : Show(c)) => Display!Next
    BY <1>4 DEF Display!Next
  <1> QED
    BY <1>3, <1>5, <1>6, <1>7, <1>8 DEF Next, Render

(* The driver shows whole frames and draws the next one out of sight, for  *)
(* any panel: every step is a step of DoubleBuffer or leaves the display   *)
(* as it is.  (That a frame drawn is shown in the end is not part of it.)  *)
THEOREM DoubleBufferCorrect == Spec => Display!Init /\ [][Display!Next]_<<Shown, Drawn>>
  <1>1. Init => Display!Init
    <2> SUFFICES ASSUME Init PROVE Display!Init
      OBVIOUS
    <2>1. Shown = showing
      BY InitDisplay DEF DisplayInv, WholeFrame, Shown
    <2> QED
      BY <2>1 DEF Init, Display!Init
  <1>2. Init => Drawing
    BY DEF Init, Drawing
  <1>3. DisplayInv /\ DisplayInv' /\ Drawing /\ [Next]_vars
          => [Display!Next]_<<Shown, Drawn>>
    BY DisplayStep
  <1> QED
    BY <1>1, <1>2, <1>3, DrawingStep, DisplayAlways, PTL DEF Spec

------------------------------------------------------------------------------
(* What the eye sees: from here on the assumptions and the groups of       *)
(* variables are named where they are needed.                              *)
HIDE ConstantsAssumption DEF ConstantsAssumption
HIDE DEF isr, shape, buffers, pins, render, seen

(* A row has an address of its own, and a value its planes.                *)
Digits(w, b0, b1, b2, b3, b4, b5) ==
    w = b0 + 2 * b1 + 4 * b2 + 8 * b3 + 16 * b4 + 32 * b5

(* A number below 64 is made of six bits.                                  *)
LEMMA SixBits ==
    ASSUME NEW w \in 0..63
    PROVE  /\ Digits(w, w % 2, (w \div 2) % 2, (w \div 4) % 2, (w \div 8) % 2,
                     (w \div 16) % 2, (w \div 32) % 2)
           /\ \A n \in {1, 2, 4, 8, 16, 32} : (w \div n) % 2 \in {0, 1}
           /\ w \div 1 = w
  <1>1. Digits(w, w % 2, (w \div 2) % 2, (w \div 4) % 2, (w \div 8) % 2,
               (w \div 16) % 2, (w \div 32) % 2)
    BY DEF Digits
  <1>2. \A n \in {1, 2, 4, 8, 16, 32} : (w \div n) % 2 \in {0, 1}
    OBVIOUS
  <1>3. w \div 1 = w
    OBVIOUS
  <1> QED
    BY <1>1, <1>2, <1>3

(* So the bits that BitAt tells are the digits of the number.              *)
LEMMA BitsOf ==
    ASSUME NEW w \in 0..63
    PROVE  /\ Digits(w, BitAt(w, 0), BitAt(w, 1), BitAt(w, 2), BitAt(w, 3), BitAt(w, 4),
                     BitAt(w, 5))
           /\ \A i \in 0..5 : BitAt(w, i) \in {0, 1}
  <1>1. /\ BitAt(w, 0) = (w \div 1) % 2 /\ BitAt(w, 1) = (w \div 2) % 2
        /\ BitAt(w, 2) = (w \div 4) % 2 /\ BitAt(w, 3) = (w \div 8) % 2
        /\ BitAt(w, 4) = (w \div 16) % 2 /\ BitAt(w, 5) = (w \div 32) % 2
    BY DEF BitAt, Worth
  <1>2. \A i \in 0..5 : i \in {0, 1, 2, 3, 4, 5}
    OBVIOUS
  <1>3. Digits(w, (w \div 1) % 2, (w \div 2) % 2, (w \div 4) % 2, (w \div 8) % 2,
               (w \div 16) % 2, (w \div 32) % 2)
    BY SixBits
  <1>4. \A n \in {1, 2, 4, 8, 16, 32} : (w \div n) % 2 \in {0, 1}
    BY SixBits
  <1> QED
    BY <1>1, <1>2, <1>3, <1>4

LEMMA HighBits ==
    ASSUME NEW w \in 0..63
    PROVE  /\ w < 32 => BitAt(w, 5) = 0
           /\ w < 16 => BitAt(w, 4) = 0
           /\ w < 8 => BitAt(w, 3) = 0
           /\ w < 4 => BitAt(w, 2) = 0
           /\ w < 2 => BitAt(w, 1) = 0
  BY DEF BitAt, Worth

(* Two rows of the panel never share an address.                           *)
LEMMA AddressTells ==
    ASSUME NEW r \in 0..(RowPairs - 1), NEW s \in 0..(RowPairs - 1), Address(r) = Address(s)
    PROVE  r = s
  <1>1. RowPairs \in {2, 4, 8, 16, 32} /\ AddressLines \in 1..5
    BY RowPairsIs, ConstantsAssumption DEF ConstantsAssumption
  <1>2. r \in 0..63 /\ s \in 0..63
    BY <1>1
  <1>3. \A i \in Bits : BitAt(r, i) = BitAt(s, i)
    <2> SUFFICES ASSUME NEW i \in Bits PROVE BitAt(r, i) = BitAt(s, i)
      OBVIOUS
    <2>1. i \in 0..5
      BY <1>1 DEF Bits
    <2>2. BitAt(r, i) \in {0, 1} /\ BitAt(s, i) \in {0, 1}
      BY <1>2, <2>1, BitsOf
    <2>3. BitAt(r, i) = 1 <=> BitAt(s, i) = 1
      BY DEF Address
    <2> QED
      BY <2>2, <2>3
  <1>4. \A i \in 0..5 : BitAt(r, i) = BitAt(s, i)
    <2>1. /\ AddressLines = 1 => RowPairs = 2 /\ Bits = 0..0
          /\ AddressLines = 2 => RowPairs = 4 /\ Bits = 0..1
          /\ AddressLines = 3 => RowPairs = 8 /\ Bits = 0..2
          /\ AddressLines = 4 => RowPairs = 16 /\ Bits = 0..3
          /\ AddressLines = 5 => RowPairs = 32 /\ Bits = 0..4
      BY DEF RowPairs, Worth, Bits
    <2>2. AddressLines \in {1, 2, 3, 4, 5}
      BY <1>1
    <2>3. /\ RowPairs = 2 => r < 2 /\ s < 2
          /\ RowPairs = 4 => r < 4 /\ s < 4
          /\ RowPairs = 8 => r < 8 /\ s < 8
          /\ RowPairs = 16 => r < 16 /\ s < 16
          /\ RowPairs = 32 => r < 32 /\ s < 32
      BY <1>1
    <2>4. \A i \in 0..5 : i \in {0, 1, 2, 3, 4, 5}
      OBVIOUS
    <2>5. /\ 0 \in Bits
          /\ AddressLines >= 2 => 1 \in Bits
          /\ AddressLines >= 3 => 2 \in Bits
          /\ AddressLines >= 4 => 3 \in Bits
          /\ AddressLines >= 5 => 4 \in Bits
      BY <1>1 DEF Bits
    <2>6. /\ BitAt(r, 5) = 0 /\ BitAt(s, 5) = 0
          /\ AddressLines <= 4 => BitAt(r, 4) = 0 /\ BitAt(s, 4) = 0
          /\ AddressLines <= 3 => BitAt(r, 3) = 0 /\ BitAt(s, 3) = 0
          /\ AddressLines <= 2 => BitAt(r, 2) = 0 /\ BitAt(s, 2) = 0
          /\ AddressLines <= 1 => BitAt(r, 1) = 0 /\ BitAt(s, 1) = 0
      <3>1. /\ r < 32 => BitAt(r, 5) = 0
            /\ r < 16 => BitAt(r, 4) = 0
            /\ r < 8 => BitAt(r, 3) = 0
            /\ r < 4 => BitAt(r, 2) = 0
            /\ r < 2 => BitAt(r, 1) = 0
        BY <1>2, HighBits
      <3>2. /\ s < 32 => BitAt(s, 5) = 0
            /\ s < 16 => BitAt(s, 4) = 0
            /\ s < 8 => BitAt(s, 3) = 0
            /\ s < 4 => BitAt(s, 2) = 0
            /\ s < 2 => BitAt(s, 1) = 0
        BY <1>2, HighBits
      <3> QED
        BY <1>2, <2>1, <2>2, <2>3, <3>1, <3>2
    <2>7. BitAt(r, 0) = BitAt(s, 0) /\ BitAt(r, 1) = BitAt(s, 1) /\ BitAt(r, 2) = BitAt(s, 2)
          /\ BitAt(r, 3) = BitAt(s, 3) /\ BitAt(r, 4) = BitAt(s, 4) /\ BitAt(r, 5) = BitAt(s, 5)
      BY <1>3, <2>2, <2>5, <2>6
    <2> QED
      BY <2>4, <2>7
  <1>5. /\ Digits(r, BitAt(r, 0), BitAt(r, 1), BitAt(r, 2), BitAt(r, 3), BitAt(r, 4), BitAt(r, 5))
        /\ Digits(s, BitAt(s, 0), BitAt(s, 1), BitAt(s, 2), BitAt(s, 3), BitAt(s, 4), BitAt(s, 5))
    BY <1>2, BitsOf
  <1> QED
    BY <1>4, <1>5 DEF Digits

------------------------------------------------------------------------------
(* The light of an LED while planes below p of n have been shown.          *)
Share(n, ch, v, p, q) == IF q < p THEN Worth(q) * BitAt(v, SourceBit(n, ch, q)) ELSE 0

Partial(n, ch, v, p) ==
    Share(n, ch, v, p, 0) + Share(n, ch, v, p, 1) + Share(n, ch, v, p, 2)
        + Share(n, ch, v, p, 3) + Share(n, ch, v, p, 4) + Share(n, ch, v, p, 5)

Values(ch) == IF ch = "g" THEN 0..63 ELSE 0..31

(* A plane always shows a bit that the value has.                          *)
LEMMA SourceBits ==
    ASSUME NEW n \in 1..6, NEW ch \in Channels, NEW q \in 0..5, q < n
    PROVE  SourceBit(n, ch, q) \in 0..5
  BY DEF SourceBit

LEMMA ShareIs ==
    ASSUME NEW n \in 1..6, NEW ch \in Channels, NEW v \in Values(ch), NEW p \in 0..n, NEW q \in 0..5
    PROVE  Share(n, ch, v, p, q) \in Nat
  <1>1. CASE q < p
    <2>1. v \in 0..63 /\ q < n
      BY <1>1 DEF Values
    <2>2. BitAt(v, SourceBit(n, ch, q)) \in {0, 1}
      BY <2>1, SourceBits, BitsOf
    <2>3. Worth(q) \in Nat
      BY WorthIs
    <2> QED
      BY <1>1, <2>2, <2>3 DEF Share
  <1> QED
    BY <1>1 DEF Share

LEMMA PartialNone ==
    ASSUME NEW n, NEW ch, NEW v
    PROVE  Partial(n, ch, v, 0) = 0
  BY DEF Partial, Share

(* Each plane adds its worth, if its bit of the value is set.              *)
LEMMA PartialNext ==
    ASSUME NEW n \in 1..6, NEW ch \in Channels, NEW v \in Values(ch), NEW p \in 0..(n - 1)
    PROVE  /\ Partial(n, ch, v, p) \in Nat
           /\ Partial(n, ch, v, p + 1) =
                Partial(n, ch, v, p) + Worth(p) * BitAt(v, SourceBit(n, ch, p))
  <1>1. /\ p \in 0..n /\ p + 1 \in 0..n /\ p \in 0..5 /\ p < n
        /\ p \in {0, 1, 2, 3, 4, 5}
    OBVIOUS
  <1>2. \A q \in 0..5 : Share(n, ch, v, p, q) \in Nat /\ Share(n, ch, v, p + 1, q) \in Nat
    BY <1>1, ShareIs
  <1>3. Share(n, ch, v, p, p) = 0
        /\ Share(n, ch, v, p + 1, p) = Worth(p) * BitAt(v, SourceBit(n, ch, p))
    BY <1>1 DEF Share
  <1>4. \A q \in {0, 1, 2, 3, 4, 5} : q # p => Share(n, ch, v, p + 1, q) = Share(n, ch, v, p, q)
    BY <1>1 DEF Share
  <1>5. PICK s0 \in Nat, s1 \in Nat, s2 \in Nat, s3 \in Nat, s4 \in Nat, s5 \in Nat :
          /\ s0 = Share(n, ch, v, p, 0) /\ s1 = Share(n, ch, v, p, 1)
          /\ s2 = Share(n, ch, v, p, 2) /\ s3 = Share(n, ch, v, p, 3)
          /\ s4 = Share(n, ch, v, p, 4) /\ s5 = Share(n, ch, v, p, 5)
    <2>1. /\ Share(n, ch, v, p, 0) \in Nat /\ Share(n, ch, v, p, 1) \in Nat
          /\ Share(n, ch, v, p, 2) \in Nat /\ Share(n, ch, v, p, 3) \in Nat
          /\ Share(n, ch, v, p, 4) \in Nat /\ Share(n, ch, v, p, 5) \in Nat
      BY <1>2
    <2> QED
      BY <2>1
  <1>6. Partial(n, ch, v, p) = s0 + s1 + s2 + s3 + s4 + s5
    BY <1>5 DEF Partial
  <1>7. PICK t0 \in Nat, t1 \in Nat, t2 \in Nat, t3 \in Nat, t4 \in Nat, t5 \in Nat :
          /\ t0 = Share(n, ch, v, p + 1, 0) /\ t1 = Share(n, ch, v, p + 1, 1)
          /\ t2 = Share(n, ch, v, p + 1, 2) /\ t3 = Share(n, ch, v, p + 1, 3)
          /\ t4 = Share(n, ch, v, p + 1, 4) /\ t5 = Share(n, ch, v, p + 1, 5)
    <2>1. /\ Share(n, ch, v, p + 1, 0) \in Nat /\ Share(n, ch, v, p + 1, 1) \in Nat
          /\ Share(n, ch, v, p + 1, 2) \in Nat /\ Share(n, ch, v, p + 1, 3) \in Nat
          /\ Share(n, ch, v, p + 1, 4) \in Nat /\ Share(n, ch, v, p + 1, 5) \in Nat
      BY <1>2
    <2> QED
      BY <2>1
  <1>8. Partial(n, ch, v, p + 1) = t0 + t1 + t2 + t3 + t4 + t5
    BY <1>7 DEF Partial
  <1>9. /\ p = 0 => s0 = 0 /\ t0 = Worth(p) * BitAt(v, SourceBit(n, ch, p))
                    /\ t1 = s1 /\ t2 = s2 /\ t3 = s3 /\ t4 = s4 /\ t5 = s5
        /\ p = 1 => s1 = 0 /\ t1 = Worth(p) * BitAt(v, SourceBit(n, ch, p))
                    /\ t0 = s0 /\ t2 = s2 /\ t3 = s3 /\ t4 = s4 /\ t5 = s5
        /\ p = 2 => s2 = 0 /\ t2 = Worth(p) * BitAt(v, SourceBit(n, ch, p))
                    /\ t0 = s0 /\ t1 = s1 /\ t3 = s3 /\ t4 = s4 /\ t5 = s5
        /\ p = 3 => s3 = 0 /\ t3 = Worth(p) * BitAt(v, SourceBit(n, ch, p))
                    /\ t0 = s0 /\ t1 = s1 /\ t2 = s2 /\ t4 = s4 /\ t5 = s5
        /\ p = 4 => s4 = 0 /\ t4 = Worth(p) * BitAt(v, SourceBit(n, ch, p))
                    /\ t0 = s0 /\ t1 = s1 /\ t2 = s2 /\ t3 = s3 /\ t5 = s5
        /\ p = 5 => s5 = 0 /\ t5 = Worth(p) * BitAt(v, SourceBit(n, ch, p))
                    /\ t0 = s0 /\ t1 = s1 /\ t2 = s2 /\ t3 = s3 /\ t4 = s4
    BY <1>1, <1>3, <1>4, <1>5, <1>7
  <1>10. PICK w : w = Worth(p) * BitAt(v, SourceBit(n, ch, p))
    OBVIOUS
  <1>11. t0 + t1 + t2 + t3 + t4 + t5 = (s0 + s1 + s2 + s3 + s4 + s5) + w
    BY <1>1, <1>9, <1>10
  <1> QED
    BY <1>6, <1>8, <1>10, <1>11

(* Once all planes have been shown, it is what the value asks for.         *)
LEMMA PartialAll ==
    ASSUME NEW n \in 1..6, NEW ch \in Channels, NEW v \in Values(ch)
    PROVE  Partial(n, ch, v, n) = Level(n, ch, v)
  <1>1. n \in {1, 2, 3, 4, 5, 6}
    OBVIOUS
  <1>2. v \in 0..63 /\ (ch # "g" => v \in 0..31)
    BY DEF Values
  <1>3. PICK b0 \in {0, 1}, b1 \in {0, 1}, b2 \in {0, 1}, b3 \in {0, 1}, b4 \in {0, 1},
             b5 \in {0, 1} :
          /\ b0 = BitAt(v, 0) /\ b1 = BitAt(v, 1) /\ b2 = BitAt(v, 2) /\ b3 = BitAt(v, 3)
          /\ b4 = BitAt(v, 4) /\ b5 = BitAt(v, 5)
    BY <1>2, BitsOf
  <1>4. v = b0 + 2 * b1 + 4 * b2 + 8 * b3 + 16 * b4 + 32 * b5
    BY <1>2, <1>3, BitsOf DEF Digits
  <1>5. /\ v \div 1 = v
        /\ v \div 2 = b1 + 2 * b2 + 4 * b3 + 8 * b4 + 16 * b5
        /\ v \div 4 = b2 + 2 * b3 + 4 * b4 + 8 * b5
        /\ v \div 8 = b3 + 2 * b4 + 4 * b5
        /\ v \div 16 = b4 + 2 * b5
        /\ v \div 32 = b5
    BY <1>4
  <1>6. ch # "g" => b5 = 0
    BY <1>2, <1>4
  <1>7. CASE ch = "g"
    <2>1. \A q \in {0, 1, 2, 3, 4, 5} :
            Share(n, ch, v, n, q) = IF q < n THEN Worth(q) * BitAt(v, q + 6 - n) ELSE 0
      BY <1>1, <1>7 DEF Share, SourceBit
    <2>2. CASE n = 6
      BY <1>3, <1>4, <1>5, <1>7, <2>1, <2>2 DEF Partial, Level, Worth
    <2>3. CASE n = 5
      BY <1>3, <1>4, <1>5, <1>7, <2>1, <2>3 DEF Partial, Level, Worth
    <2>4. CASE n = 4
      BY <1>3, <1>4, <1>5, <1>7, <2>1, <2>4 DEF Partial, Level, Worth
    <2>5. CASE n = 3
      BY <1>3, <1>4, <1>5, <1>7, <2>1, <2>5 DEF Partial, Level, Worth
    <2>6. CASE n = 2
      BY <1>3, <1>4, <1>5, <1>7, <2>1, <2>6 DEF Partial, Level, Worth
    <2>7. CASE n = 1
      BY <1>3, <1>4, <1>5, <1>7, <2>1, <2>7 DEF Partial, Level, Worth
    <2> QED
      BY <1>1, <2>2, <2>3, <2>4, <2>5, <2>6, <2>7
  <1>8. CASE ch # "g"
    <2>1. \A q \in {0, 1, 2, 3, 4, 5} :
            n < 6 => Share(n, ch, v, n, q) = IF q < n THEN Worth(q) * BitAt(v, q + 5 - n) ELSE 0
      BY <1>1, <1>8 DEF Share, SourceBit
    <2>2. CASE n = 6
      <3>1. /\ Share(n, ch, v, n, 0) = 1 * b4 /\ Share(n, ch, v, n, 1) = 2 * b0
            /\ Share(n, ch, v, n, 2) = 4 * b1 /\ Share(n, ch, v, n, 3) = 8 * b2
            /\ Share(n, ch, v, n, 4) = 16 * b3 /\ Share(n, ch, v, n, 5) = 32 * b4
        BY <1>3, <1>8, <2>2 DEF Share, SourceBit, Worth
      <3>2. Level(n, ch, v) = 2 * v + v \div 16
        BY <1>8, <2>2 DEF Level
      <3> QED
        BY <1>4, <1>5, <1>6, <1>8, <3>1, <3>2 DEF Partial
    <2>3. CASE n = 5
      BY <1>3, <1>4, <1>5, <1>6, <1>8, <2>1, <2>3 DEF Partial, Level, Worth
    <2>4. CASE n = 4
      BY <1>3, <1>4, <1>5, <1>6, <1>8, <2>1, <2>4 DEF Partial, Level, Worth
    <2>5. CASE n = 3
      BY <1>3, <1>4, <1>5, <1>6, <1>8, <2>1, <2>5 DEF Partial, Level, Worth
    <2>6. CASE n = 2
      BY <1>3, <1>4, <1>5, <1>6, <1>8, <2>1, <2>6 DEF Partial, Level, Worth
    <2>7. CASE n = 1
      BY <1>3, <1>4, <1>5, <1>6, <1>8, <2>1, <2>7 DEF Partial, Level, Worth
    <2> QED
      BY <1>1, <2>2, <2>3, <2>4, <2>5, <2>6, <2>7
  <1> QED
    BY <1>7, <1>8

------------------------------------------------------------------------------
(* A scanline is shifted in: what the registers hold afterwards.           *)
LEMMA WiresAre == Clock \notin Pins /\ Wires = Pins \union {Clock}
  BY DEF Clock, Pins, Channels, Wires

(* One element: its pins come out, and the clock stays high.               *)
LEMMA PewIs ==
    ASSUME NEW p, NEW out, NEW bits, NEW B, B \subseteq Pins, Xor(Wires, p, bits) = B
    PROVE  PEW([port |-> p, out |-> out], bits)
             = [port |-> B \union {Clock}, out |-> Append(Tail(out), B)]
  <1>1. Clock \notin B /\ Clock \in Wires /\ B \subseteq Wires
    BY WiresAre
  <1>2. Toggle([port |-> p, out |-> out], bits) = [port |-> B, out |-> out]
    BY <1>1 DEF Toggle
  <1>3. Xor(Wires, B, {Clock}) = B \union {Clock}
    BY <1>1 DEF Xor
  <1>4. (B \union {Clock}) \ {Clock} = B
    BY <1>1
  <1>5. Toggle([port |-> B, out |-> out], {Clock})
          = [port |-> B \union {Clock}, out |-> Append(Tail(out), B)]
    BY <1>1, <1>3, <1>4 DEF Toggle
  <1> QED
    BY <1>2, <1>5 DEF PEW

(* An element with nothing but the clock leaves all pins low.              *)
LEMMA PewBlank ==
    ASSUME NEW out
    PROVE  PEW([port |-> {}, out |-> out], {Clock}) = [port |-> {}, out |-> Append(Tail(out), {})]
  <1>1. Clock \in Wires
    BY WiresAre
  <1>2. Xor(Wires, {}, {Clock}) = {Clock} /\ Xor(Wires, {Clock}, {Clock}) = {}
    BY <1>1 DEF Xor
  <1>3. {Clock} \ {Clock} = {}
    OBVIOUS
  <1>4. Toggle([port |-> {}, out |-> out], {Clock})
          = [port |-> {Clock}, out |-> Append(Tail(out), {})]
    BY <1>2, <1>3 DEF Toggle
  <1>5. Toggle([port |-> {Clock}, out |-> Append(Tail(out), {})], {Clock})
          = [port |-> {}, out |-> Append(Tail(out), {})]
    BY <1>2 DEF Toggle
  <1> QED
    BY <1>4, <1>5 DEF PEW

(* The port and the registers when the first x of the columns D are in.    *)
Held(D, blank, x) == IF x = 0 \/ blank THEN {} ELSE D[x] \union {Clock}

Moved(D, s, x) == [i \in 1..Width |-> IF i + x <= Width THEN s[i + x] ELSE D[i + x - Width]]

(* One clock more shifts one column more in.                               *)
LEMMA ShiftIn ==
    ASSUME NEW D \in [Columns -> SUBSET Pins], NEW s \in [Columns -> SUBSET Pins],
           NEW x \in 0..(Width - 1)
    PROVE  Append(Tail(Moved(D, s, x)), D[x + 1]) = Moved(D, s, x + 1)
  <1> DEFINE m == Moved(D, s, x)  t == Tail(m)  a == Append(t, D[x + 1])
  <1>1. Width \in Nat \ {0} /\ Columns = 1..Width
    BY ConstantsAssumption DEF ConstantsAssumption, Columns
  <1>2. m \in Seq(SUBSET Pins) /\ Len(m) = Width
    <2>1. ASSUME NEW i \in 1..Width
          PROVE  (IF i + x <= Width THEN s[i + x] ELSE D[i + x - Width]) \in SUBSET Pins
      <3>1. i + x <= Width => i + x \in Columns
        BY <1>1
      <3>2. ~(i + x <= Width) => i + x - Width \in Columns
        BY <1>1
      <3> QED
        BY <3>1, <3>2
    <2>2. m \in [1..Width -> SUBSET Pins]
      BY <2>1 DEF Moved
    <2> QED
      BY <1>1, <2>2
  <1>3. \A i \in 1..Width : m[i] = IF i + x <= Width THEN s[i + x] ELSE D[i + x - Width]
    BY DEF Moved
  <1> HIDE DEF m
  <1>4. /\ t \in Seq(SUBSET Pins) /\ Len(t) = Width - 1
        /\ \A i \in 1..(Width - 1) : t[i] = m[i + 1]
    BY <1>1, <1>2
  <1> HIDE DEF t
  <1>5. /\ a = [i \in 1..Width |-> IF i = Width THEN D[x + 1] ELSE t[i]]
    BY <1>1, <1>4
  <1>6. ASSUME NEW i \in 1..Width
        PROVE  (IF i = Width THEN D[x + 1] ELSE t[i])
                 = IF i + (x + 1) <= Width THEN s[i + (x + 1)] ELSE D[i + (x + 1) - Width]
    <2>1. CASE i = Width
      <3>1. ~(i + (x + 1) <= Width) /\ i + (x + 1) - Width = x + 1
        BY <1>1, <2>1
      <3> QED
        BY <2>1, <3>1
    <2>2. CASE i # Width
      <3>1. i \in 1..(Width - 1) /\ i + 1 \in 1..Width
        BY <1>1, <2>2
      <3>2. PICK j \in 1..Width : j = i + 1
        BY <3>1
      <3>3. t[i] = m[j]
        BY <1>4, <3>1, <3>2
      <3>4. m[j] = IF j + x <= Width THEN s[j + x] ELSE D[j + x - Width]
        BY <1>3
      <3>5. PICK k \in Int : k = j + x
        BY <1>1
      <3>6. i + (x + 1) = k
        BY <1>1, <3>2, <3>5
      <3>7. m[j] = IF k <= Width THEN s[k] ELSE D[k - Width]
        BY <1>1, <3>4, <3>5
      <3> QED
        BY <1>1, <2>2, <3>3, <3>5, <3>6, <3>7
    <2> QED
      BY <2>1, <2>2
  <1>7. a = Moved(D, s, x + 1)
    <2>1. Moved(D, s, x + 1) = [i \in 1..Width |-> IF i + (x + 1) <= Width THEN s[i + (x + 1)]
                                                 ELSE D[i + (x + 1) - Width]]
      BY DEF Moved
    <2> HIDE DEF a
    <2> QED
      BY <1>5, <1>6, <2>1
  <1> QED
    BY <1>7 DEF t, m

(* data is what turns one column into the next, or nothing but the clock.  *)
Leads(data, D, blank) ==
    \A x \in Columns :
        IF blank THEN data[x] = {Clock} /\ D[x] = {}
        ELSE Xor(Wires, Held(D, blank, x - 1), data[x]) = D[x]

Pewed(g, data, s) ==
    g = [x \in 0..Width |->
           IF x = 0 THEN [port |-> {}, out |-> s] ELSE PEW(g[x - 1], data[x])]

After(D, s, blank, x) == [port |-> Held(D, blank, x), out |-> Moved(D, s, x)]

(* So one element after the other turns up as it should...                 *)
LEMMA AfterNext ==
    ASSUME NEW D \in [Columns -> SUBSET Pins], NEW s \in [Columns -> SUBSET Pins],
           NEW blank \in BOOLEAN, NEW data, Leads(data, D, blank), NEW x \in 0..(Width - 1)
    PROVE  PEW(After(D, s, blank, x), data[x + 1]) = After(D, s, blank, x + 1)
  <1>1. x + 1 \in Columns /\ (x + 1) - 1 = x /\ x + 1 # 0
    BY ConstantsAssumption DEF ConstantsAssumption, Columns
  <1>2. Append(Tail(Moved(D, s, x)), D[x + 1]) = Moved(D, s, x + 1)
    BY ShiftIn
  <1>3. CASE blank
    <2>1. data[x + 1] = {Clock} /\ D[x + 1] = {}
      BY <1>1, <1>3 DEF Leads
    <2>2. Held(D, blank, x) = {} /\ Held(D, blank, x + 1) = {}
      BY <1>3 DEF Held
    <2> QED
      BY <1>2, <2>1, <2>2, PewBlank DEF After
  <1>4. CASE ~blank
    <2>1. Xor(Wires, Held(D, blank, x), data[x + 1]) = D[x + 1]
      BY <1>1, <1>4 DEF Leads
    <2>2. D[x + 1] \subseteq Pins
      BY <1>1
    <2>3. Held(D, blank, x + 1) = D[x + 1] \union {Clock}
      BY <1>1, <1>4 DEF Held
    <2>4. PEW([port |-> Held(D, blank, x), out |-> Moved(D, s, x)], data[x + 1])
            = [port |-> D[x + 1] \union {Clock}, out |-> Append(Tail(Moved(D, s, x)), D[x + 1])]
      BY <2>1, <2>2, PewIs
    <2> QED
      BY <1>2, <2>3, <2>4 DEF After
  <1> QED
    BY <1>3, <1>4

LEMMA AfterNone ==
    ASSUME NEW D \in [Columns -> SUBSET Pins], NEW s \in [Columns -> SUBSET Pins],
           NEW blank \in BOOLEAN
    PROVE  /\ After(D, s, blank, 0) = [port |-> {}, out |-> s]
           /\ After(D, s, blank, Width).out = D
  <1>1. Width \in Nat \ {0} /\ Columns = 1..Width
    BY ConstantsAssumption DEF ConstantsAssumption, Columns
  <1>2. Moved(D, s, 0) = s
    <2>1. ASSUME NEW i \in 1..Width
          PROVE  (IF i + 0 <= Width THEN s[i + 0] ELSE D[i + 0 - Width]) = s[i]
      BY <1>1
    <2>2. Moved(D, s, 0) = [i \in 1..Width |-> s[i]]
      BY <2>1 DEF Moved
    <2> QED
      BY <1>1, <2>2
  <1>3. Moved(D, s, Width) = D
    <2>1. ASSUME NEW i \in 1..Width
          PROVE  (IF i + Width <= Width THEN s[i + Width] ELSE D[i + Width - Width]) = D[i]
      BY <1>1
    <2>2. Moved(D, s, Width) = [i \in 1..Width |-> D[i]]
      BY <2>1 DEF Moved
    <2> QED
      BY <1>1, <2>2
  <1> QED
    BY <1>2, <1>3 DEF After, Held

(* ... the states after each are what the recursion of BlastPlane defines, *)
(* and nothing else is.                                                    *)
LEMMA PewedIs ==
    ASSUME NEW D \in [Columns -> SUBSET Pins], NEW s \in [Columns -> SUBSET Pins],
           NEW blank \in BOOLEAN, NEW data, Leads(data, D, blank)
    PROVE  Pewed([x \in 0..Width |-> After(D, s, blank, x)], data, s)
  <1>0. Width \in Nat
    BY ConstantsAssumption DEF ConstantsAssumption
  <1>1. After(D, s, blank, 0) = [port |-> {}, out |-> s]
    BY AfterNone
  <1>2. \A x \in 0..(Width - 1) :
          PEW(After(D, s, blank, x), data[x + 1]) = After(D, s, blank, x + 1)
    BY AfterNext
  <1>3. Pewed([x \in 0..Width |-> After(D, s, blank, x)], data, s)
    <2> DEFINE h == [x \in 0..Width |-> After(D, s, blank, x)]
               k == [x \in 0..Width |->
                       IF x = 0 THEN [port |-> {}, out |-> s] ELSE PEW(h[x - 1], data[x])]
    <2>1. ASSUME NEW x \in 0..Width PROVE h[x] = k[x]
      <3>1. CASE x = 0
        BY <1>1, <3>1
      <3>2. CASE x # 0
        <4>1. PICK y \in 0..(Width - 1) : x = y + 1 /\ x - 1 = y /\ y \in 0..Width
          <5>1. x - 1 \in 0..(Width - 1) /\ x = (x - 1) + 1 /\ x - 1 \in 0..Width
            BY <1>0, <3>2
          <5> QED
            BY <5>1
        <4>2. h[y] = After(D, s, blank, y) /\ h[x] = After(D, s, blank, y + 1)
          BY <4>1
        <4>3. k[x] = PEW(h[y], data[y + 1])
          BY <3>2, <4>1
        <4> QED
          BY <1>2, <4>1, <4>2, <4>3
      <3> QED
        BY <3>1, <3>2
    <2>2. h = k
      BY <2>1
    <2> QED
      BY <2>2 DEF Pewed
  <1> QED
    BY <1>3

LEMMA PewedOnly ==
    ASSUME NEW D \in [Columns -> SUBSET Pins], NEW s \in [Columns -> SUBSET Pins],
           NEW blank \in BOOLEAN, NEW data, Leads(data, D, blank), NEW g, Pewed(g, data, s)
    PROVE  g[Width] = After(D, s, blank, Width)
  <1>0. Width \in Nat
    BY ConstantsAssumption DEF ConstantsAssumption
  <1>1. After(D, s, blank, 0) = [port |-> {}, out |-> s]
    BY AfterNone
  <1>2. \A x \in 0..(Width - 1) :
          PEW(After(D, s, blank, x), data[x + 1]) = After(D, s, blank, x + 1)
    BY AfterNext
  <1> DEFINE S == {x \in Nat : x <= Width => g[x] = After(D, s, blank, x)}
  <1>3. 0 \in S
    <2>1. g[0] = [port |-> {}, out |-> s]
      <3>1. 0 \in 0..Width
        BY <1>0
      <3> QED
        BY <3>1 DEF Pewed
    <2> QED
      BY <1>1, <2>1
  <1>4. ASSUME NEW x \in Nat, x \in S PROVE x + 1 \in S
    <2> SUFFICES ASSUME x + 1 <= Width PROVE g[x + 1] = After(D, s, blank, x + 1)
      OBVIOUS
    <2>1. x \in 0..(Width - 1) /\ x + 1 \in 0..Width /\ x + 1 # 0 /\ (x + 1) - 1 = x /\ x <= Width
      BY <1>0
    <2>2. g[x + 1] = PEW(g[x], data[x + 1])
      BY <2>1 DEF Pewed
    <2>3. g[x] = After(D, s, blank, x)
      BY <1>4, <2>1
    <2> QED
      BY <1>2, <2>1, <2>2, <2>3
  <1> HIDE DEF S
  <1>5. Width \in S
    BY <1>0, <1>3, <1>4, SetInduction
  <1> QED
    BY <1>0, <1>5 DEF S

(* BlastPlane leaves the columns D in the registers, and all pins low.     *)
LEMMA BlastIs ==
    ASSUME NEW D \in [Columns -> SUBSET Pins], shifted \in [Columns -> SUBSET Pins], port = {},
           NEW blank \in BOOLEAN, NEW data, Leads(data, D, blank), BlastPlane(data)
    PROVE  shifted' = D /\ port' = {}
  <1> DEFINE g == CHOOSE f : Pewed(f, data, shifted)
  <1>1. Pewed([x \in 0..Width |-> After(D, shifted, blank, x)], data, shifted)
    BY PewedIs
  <1>2. Pewed(g, data, shifted)
    BY <1>1
  <1>3. shifted' = g[Width].out /\ port' = g[Width].port \ Wires
    BY DEF BlastPlane, Pewed
  <1> HIDE DEF g
  <1>4. g[Width] = After(D, shifted, blank, Width)
    BY <1>2, PewedOnly
  <1>5. shifted' = D
    BY <1>3, <1>4, AfterNone
  <1>6. port' = {}
    <2>1. port' = Held(D, blank, Width) \ Wires
      BY <1>3, <1>4 DEF After
    <2>2. Width \in Columns
      BY ConstantsAssumption DEF ConstantsAssumption, Columns
    <2>3. Held(D, blank, Width) \subseteq Wires
      BY <2>2, WiresAre DEF Held
    <2> QED
      BY <2>1, <2>3
  <1> QED
    BY <1>5, <1>6

------------------------------------------------------------------------------
(* What the registers hold once scanline k of a canvas is in.              *)
Latched(c, k) == [x \in Columns |-> IF c = Nothing THEN {} ELSE Element(numPlanes, c, k, x)]

LEMMA LatchedType ==
    ASSUME NEW c, NEW k
    PROVE  Latched(c, k) \in [Columns -> SUBSET Pins]
  BY DEF Latched, Element

LEMMA XorTwice ==
    ASSUME NEW A, A \subseteq Pins, NEW B, B \subseteq Pins
    PROVE  /\ Xor(Wires, {}, B) = B
           /\ Xor(Wires, {}, Xor(Wires, B, {Clock}) \ {Clock}) = B
           /\ Xor(Wires, A \union {Clock}, Xor(Wires, B, A \union {Clock})) = B
           /\ Xor(Wires, A \union {Clock}, {Clock} \union Xor(Wires, B, A)) = B
  <1>1. Clock \notin Pins /\ Wires = Pins \union {Clock}
    BY WiresAre
  <1>2. Xor(Wires, {}, B) = B
    BY <1>1 DEF Xor
  <1>3. Xor(Wires, {}, Xor(Wires, B, {Clock}) \ {Clock}) = B
    BY <1>1 DEF Xor
  <1>4. Xor(Wires, A \union {Clock}, Xor(Wires, B, A \union {Clock})) = B
    BY <1>1 DEF Xor
  <1>5. Xor(Wires, A \union {Clock}, {Clock} \union Xor(Wires, B, A)) = B
    BY <1>1 DEF Xor
  <1> QED
    BY <1>2, <1>3, <1>4, <1>5

(* Toggled as converted, the pins of a scanline come out one after the     *)
(* other, in either layout.                                                *)
LEMMA FrameLeads ==
    ASSUME numPlanes \in Depths, bytesPerElement \in Layouts,
           NEW c \in Canvases \union {Nothing}, NEW k \in Scanlines(numPlanes)
    PROVE  Leads(Frame(c)[k], Latched(c, k), c = Nothing)
  <1>1. CASE c = Nothing
    <2>1. Frame(c)[k] = [x \in Columns |-> {Clock}]
      BY <1>1 DEF Frame, BlankFrame
    <2> QED
      BY <1>1, <2>1 DEF Leads, Latched
  <1>2. CASE c # Nothing
    <2>1. \A x : Element(numPlanes, c, k, x) \subseteq Pins
      BY DEF Element
    <2>2. Frame(c)[k] = [x \in Columns |-> IF bytesPerElement = 1
                                           THEN ByteElement(numPlanes, c, k, x)
                                           ELSE WideElement(numPlanes, c, k, x)]
      BY <1>2 DEF Frame, Buffers
    <2> SUFFICES ASSUME NEW x \in Columns
                 PROVE  Xor(Wires, Held(Latched(c, k), c = Nothing, x - 1), Frame(c)[k][x])
                          = Latched(c, k)[x]
      BY <1>2 DEF Leads
    <2>3. Latched(c, k)[x] = Element(numPlanes, c, k, x)
      BY <1>2 DEF Latched
    <2>4. CASE x = 1
      <3>1. x - 1 = 0
        BY <2>4
      <3>2. Held(Latched(c, k), c = Nothing, x - 1) = {}
        BY <3>1 DEF Held
      <3>3. Frame(c)[k][x] = IF bytesPerElement = 1
                             THEN Xor(Wires, Element(numPlanes, c, k, x), {Clock}) \ {Clock}
                             ELSE Element(numPlanes, c, k, x)
        BY <2>2, <2>4 DEF ByteElement, WideElement
      <3>4. PICK B : B = Element(numPlanes, c, k, x) /\ B \subseteq Pins
        BY <2>1
      <3>5. /\ Xor(Wires, {}, B) = B
            /\ Xor(Wires, {}, Xor(Wires, B, {Clock}) \ {Clock}) = B
        BY <3>4, XorTwice
      <3> QED
        BY <2>3, <3>2, <3>3, <3>4, <3>5
    <2>5. CASE x # 1
      <3>1. x - 1 \in Columns /\ x - 1 # 0
        BY <2>5, ConstantsAssumption DEF ConstantsAssumption, Columns
      <3>2. PICK y \in Columns : y = x - 1 /\ y # 0
        BY <3>1
      <3>3. Held(Latched(c, k), c = Nothing, y) = Element(numPlanes, c, k, y) \union {Clock}
        BY <1>2, <3>2 DEF Held, Latched
      <3>4. Frame(c)[k][x] =
              IF bytesPerElement = 1
              THEN Xor(Wires, Element(numPlanes, c, k, x), Element(numPlanes, c, k, y) \union {Clock})
              ELSE {Clock} \union Xor(Wires, Element(numPlanes, c, k, x), Element(numPlanes, c, k, y))
        BY <2>2, <2>5, <3>2 DEF ByteElement, WideElement
      <3>5. PICK A, B : /\ A = Element(numPlanes, c, k, y) /\ A \subseteq Pins
                        /\ B = Element(numPlanes, c, k, x) /\ B \subseteq Pins
        BY <2>1
      <3>6. /\ Xor(Wires, A \union {Clock}, Xor(Wires, B, A \union {Clock})) = B
            /\ Xor(Wires, A \union {Clock}, {Clock} \union Xor(Wires, B, A)) = B
        BY <3>5, XorTwice
      <3> QED
        BY <2>3, <3>2, <3>3, <3>4, <3>5, <3>6
    <2> QED
      BY <2>4, <2>5
  <1> QED
    BY <1>1, <1>2

------------------------------------------------------------------------------
(* The timer counts the period of plane 0 as often as the plane is worth.  *)
LEMMA WorthGrows == \A i, j \in 0..5 : i <= j => Worth(i) <= Worth(j)
  <1> SUFFICES ASSUME NEW i \in 0..5, NEW j \in 0..5, i <= j PROVE Worth(i) <= Worth(j)
    OBVIOUS
  <1>1. i \in {0, 1, 2, 3, 4, 5} /\ j \in {0, 1, 2, 3, 4, 5}
    OBVIOUS
  <1> QED
    BY <1>1 DEF Worth

LEMMA BegunPeriod ==
    ASSUME NEW b \in Nat \ {0}, NEW w \in Nat
    PROVE  (b * w + b - 1) \div b = w
  OBVIOUS

LEMMA AtLeast ==
    ASSUME NEW b \in Nat \ {0}, NEW w \in Nat, NEW m \in Nat, b * w <= m
    PROVE  m \div b \in Nat /\ m \div b >= w
  OBVIOUS

LEMMA SmallRemainder ==
    ASSUME NEW t \in Nat, NEW m \in Nat, t < m
    PROVE  t % m = t
  OBVIOUS

(* The panel is lit as often as the plane is worth, or, when the load of   *)
(* the next scanline holds the next interrupt up, for longer.              *)
LEMMA LitForIs ==
    ASSUME TypeOK, PeriodFits, TimerStart(bitZeroPeriod * Worth(plane)), NEW load \in Loads
    PROVE  LitFor(load) \in Shines(Worth(plane), load <= ticks')
  <1>1. numPlanes \in Depths /\ bitZeroPeriod \in Nat /\ plane \in 0..(numPlanes - 1)
    BY DEF TypeOK
  <1>2. numPlanes \in 1..6 /\ TimerWord \in Nat
    BY <1>1, ConstantsAssumption DEF ConstantsAssumption
  <1>3. plane \in 0..5 /\ numPlanes - 1 \in 0..5 /\ plane <= numPlanes - 1
    BY <1>1, <1>2
  <1>4. Worth(plane) \in Nat /\ Worth(numPlanes - 1) \in Nat
    BY <1>3, WorthIs
  <1>5. Worth(plane) <= Worth(numPlanes - 1)
    BY <1>3, WorthGrows
  <1>6. bitZeroPeriod # 0
    BY <1>1, MinPeriodIs DEF PeriodFits
  <1>7. PICK w \in Nat, v \in Nat : w = Worth(plane) /\ v = Worth(numPlanes - 1) /\ w <= v
    BY <1>4, <1>5
  <1>8. bitZeroPeriod * v < TimerWord
    BY <1>7 DEF PeriodFits
  <1>9. bitZeroPeriod * w \in Nat /\ bitZeroPeriod * w < TimerWord
    <2>1. w * bitZeroPeriod <= v * bitZeroPeriod /\ w * bitZeroPeriod \in Nat
          /\ v * bitZeroPeriod \in Nat
      BY <1>1, <1>7, TimesIsMonotonic
    <2>2. w * bitZeroPeriod = bitZeroPeriod * w /\ v * bitZeroPeriod = bitZeroPeriod * v
      BY <1>1, <1>7
    <2> QED
      BY <1>2, <1>8, <2>1, <2>2
  <1>10. ticks' = bitZeroPeriod * w
    <2>1. ticks' = (bitZeroPeriod * w) % TimerWord
      BY <1>7 DEF TimerStart
    <2> QED
      BY <1>2, <1>9, <2>1, SmallRemainder
  <1>11. PICK b \in Nat \ {0}, t \in Nat, m \in Nat :
           b = bitZeroPeriod /\ t = b * w /\ t = ticks' /\ m = load
    BY <1>1, <1>6, <1>9, <1>10, ConstantsAssumption DEF ConstantsAssumption
  <1>12. CASE m <= t
    <2>1. LitFor(load) = (b * w + b - 1) \div b
      BY <1>11, <1>12 DEF LitFor, Larger
    <2>2. LitFor(load) = w
      BY ONLY <1>11, <2>1, BegunPeriod
    <2> QED
      BY <1>7, <1>11, <1>12, <2>2 DEF Shines
  <1>13. CASE ~(m <= t)
    <2>1. LitFor(load) = (m + b - 1) \div b
      BY <1>11, <1>13 DEF LitFor, Larger
    <2>2. b * w <= m + b - 1 /\ m + b - 1 \in Nat
      BY <1>11, <1>13
    <2>3. LitFor(load) \in Nat /\ LitFor(load) >= w
      BY <1>7, <1>11, <2>1, <2>2, AtLeast
    <2>4. w # 0
      BY <1>3, <1>7, WorthIs
    <2> QED
      BY <1>7, <1>11, <1>13, <2>3, <2>4 DEF Shines
  <1> QED
    BY <1>12, <1>13

------------------------------------------------------------------------------
(* Where a pin's bit comes from.                                           *)
LEMMA ScanlineIs ==
    ASSUME NEW n \in 1..6, NEW r \in Nat, NEW p \in 0..(n - 1)
    PROVE  (n * r + p) \div n = r /\ (n * r + p) % n = p
  <1>1. n \in {1, 2, 3, 4, 5, 6}
    OBVIOUS
  <1>2. CASE n = 1
    BY <1>2
  <1>3. CASE n = 2
    BY <1>3
  <1>4. CASE n = 3
    BY <1>4
  <1>5. CASE n = 4
    BY <1>5
  <1>6. CASE n = 5
    BY <1>6
  <1>7. CASE n = 6
    BY <1>7
  <1> QED
    BY <1>1, <1>2, <1>3, <1>4, <1>5, <1>6, <1>7

(* A line is that of its row in its half of the panel.                     *)
LEMMA LineIs ==
    ASSUME NEW l \in Lines
    PROVE  /\ l % RowPairs \in 0..(RowPairs - 1)
           /\ l = (l % RowPairs) + (IF Half(l) = "lower" THEN RowPairs ELSE 0)
           /\ Half(l) \in {"upper", "lower"}
  <1>1. RowPairs \in {2, 4, 8, 16, 32} /\ l \in 0..(2 * RowPairs - 1)
    BY RowPairsIs DEF Lines
  <1>2. Half(l) = "lower" <=> ~(l < RowPairs)
    BY DEF Half
  <1>3. l < RowPairs => l % RowPairs = l
    BY <1>1
  <1>4. ~(l < RowPairs) => l % RowPairs = l - RowPairs
    BY <1>1
  <1> QED
    BY <1>1, <1>2, <1>3, <1>4 DEF Half

(* So a pin is high when the plane's bit of that line's colour is set.     *)
LEMMA ElementTells ==
    ASSUME NEW n \in 1..6, NEW c, NEW x, NEW r, NEW p \in 0..(n - 1), NEW l \in Lines,
           NEW ch \in Channels, l % RowPairs = r
    PROVE  <<ch, Half(l)>> \in Element(n, c, n * r + p, x)
             <=> BitAt(Pixel(c, l, x)[ch], SourceBit(n, ch, p)) = 1
  <1>1. r \in 0..(RowPairs - 1) /\ Half(l) \in {"upper", "lower"}
        /\ l = r + (IF Half(l) = "lower" THEN RowPairs ELSE 0)
    BY LineIs
  <1>2. r \in Nat
    BY <1>1, RowPairsIs
  <1>3. (n * r + p) \div n = r /\ (n * r + p) % n = p
    BY <1>2, ScanlineIs
  <1>4. <<ch, Half(l)>> \in Pins
    BY <1>1 DEF Pins
  <1> QED
    BY <1>1, <1>3, <1>4 DEF Element

LEMMA PixelIs ==
    ASSUME NEW c \in Canvases, NEW l \in Lines, NEW x \in Columns, NEW ch \in Channels
    PROVE  Pixel(c, l, x)[ch] \in Values(ch)
  <1>1. Pixel(c, l, x) \in [r : 0..31, g : 0..63, b : 0..31]
    BY ConstantsAssumption DEF ConstantsAssumption
  <1> QED
    BY <1>1 DEF Values, Channels

------------------------------------------------------------------------------
(* The light so far, when planes below p of row r have been shown: all of  *)
(* the rows before it, none of those after it.                             *)
Planes(n, l, r, p) ==
    IF l % RowPairs < r THEN n ELSE IF l % RowPairs = r THEN p ELSE 0

Given(n, c, l, x, ch, q) == IF c = Nothing THEN 0 ELSE Partial(n, ch, Pixel(c, l, x)[ch], q)

Lighted(n, c, r, p) ==
    [l \in Lines |-> [x \in Columns |-> [ch \in Channels |->
        Given(n, c, l, x, ch, Planes(n, l, r, p))]]]

(* One plane more adds what the latched pin lets through.                  *)
LEMMA GivenNext ==
    ASSUME NEW n \in 1..6, NEW c \in Canvases \union {Nothing}, NEW l \in Lines,
           NEW x \in Columns, NEW ch \in Channels, NEW p \in 0..(n - 1)
    PROVE  Given(n, c, l, x, ch, p + 1) = Given(n, c, l, x, ch, p) +
             (IF c # Nothing /\ BitAt(Pixel(c, l, x)[ch], SourceBit(n, ch, p)) = 1
              THEN Worth(p) ELSE 0)
  <1>1. CASE c = Nothing
    BY <1>1 DEF Given
  <1>2. CASE c # Nothing
    <2> DEFINE v == Pixel(c, l, x)[ch]
    <2>1. v \in Values(ch)
      BY <1>2, PixelIs
    <2> HIDE DEF v
    <2>2. /\ Partial(n, ch, v, p) \in Nat
          /\ Partial(n, ch, v, p + 1) =
               Partial(n, ch, v, p) + Worth(p) * BitAt(v, SourceBit(n, ch, p))
      BY <2>1, PartialNext
    <2>3. BitAt(v, SourceBit(n, ch, p)) \in {0, 1}
      <3>1. v \in 0..63
        BY <2>1 DEF Values
      <3>2. SourceBit(n, ch, p) \in 0..5
        <4>1. p \in 0..5 /\ p < n
          OBVIOUS
        <4> QED
          BY <4>1, SourceBits
      <3> QED
        BY <3>1, <3>2, BitsOf
    <2>4. Worth(p) \in Nat
      BY WorthIs
    <2>5. PICK w \in Nat : w = Worth(p)
      BY <2>4
    <2>6. w * 1 = w /\ w * 0 = 0
      OBVIOUS
    <2>7. Worth(p) * BitAt(v, SourceBit(n, ch, p))
            = IF BitAt(v, SourceBit(n, ch, p)) = 1 THEN Worth(p) ELSE 0
      BY <2>3, <2>5, <2>6
    <2>8. Given(n, c, l, x, ch, p + 1) = Partial(n, ch, v, p + 1)
          /\ Given(n, c, l, x, ch, p) = Partial(n, ch, v, p)
      BY <1>2 DEF Given, v
    <2> QED
      BY <1>2, <2>2, <2>7, <2>8 DEF v
  <1> QED
    BY <1>1, <1>2

LEMMA GivenType ==
    ASSUME NEW n \in 1..6, NEW c \in Canvases \union {Nothing}, NEW l \in Lines,
           NEW x \in Columns, NEW ch \in Channels, NEW q \in 0..n
    PROVE  Given(n, c, l, x, ch, q) \in Nat
  <1>1. CASE c = Nothing
    BY <1>1 DEF Given
  <1>2. CASE c # Nothing
    <2>1. ASSUME NEW p \in 0..(n - 1) PROVE Given(n, c, l, x, ch, p) \in Nat
      BY <1>2, PixelIs, PartialNext DEF Given
    <2>2. CASE q = n
      <3>1. n - 1 \in 0..(n - 1) /\ (n - 1) + 1 = n /\ n - 1 \in 0..6
        OBVIOUS
      <3>2. PICK g \in Nat : g = Given(n, c, l, x, ch, n - 1)
        BY <2>1, <3>1
      <3>3. PICK w \in Nat : w = Worth(n - 1)
        BY <3>1, WorthIs
      <3>4. Given(n, c, l, x, ch, n) = g \/ Given(n, c, l, x, ch, n) = g + w
        <4>1. Given(n, c, l, x, ch, (n - 1) + 1) = g +
                (IF c # Nothing /\ BitAt(Pixel(c, l, x)[ch], SourceBit(n, ch, n - 1)) = 1
                 THEN Worth(n - 1) ELSE 0)
          BY <3>1, <3>2, GivenNext
        <4> QED
          BY <3>1, <3>2, <3>3, <4>1
      <3> QED
        BY <2>2, <3>2, <3>3, <3>4
    <2> QED
      BY <2>1, <2>2
  <1> QED
    BY <1>1, <1>2

LEMMA ShinesAdds ==
    ASSUME NEW v \in Nat, NEW t \in BOOLEAN, NEW a \in Nat, NEW u \in BOOLEAN,
           NEW w \in Shines(v, t), NEW d \in Shines(a, u)
    PROVE  w + d \in Shines(v + a, t /\ u)
  BY DEF Shines

(* What an interrupt adds to the light is the plane that it shows.         *)
LEMMA LitIs ==
    ASSUME numPlanes \in Depths, NEW c \in Canvases \union {Nothing},
           NEW r \in 0..(RowPairs - 1), NEW p \in 0..(numPlanes - 1),
           NEW t \in BOOLEAN, NEW u \in BOOLEAN, NEW load,
           Shows(SoFar, Lighted(numPlanes, c, r, p), t),
           shifted = Latched(c, numPlanes * r + p),
           addr' = Address(r), LitFor(load) \in Shines(Worth(p), u)
    PROVE  Shows(Lit(load), Lighted(numPlanes, c, r, p + 1), t /\ u)
  <1>1. numPlanes \in 1..6 /\ p \in 0..5
    BY ConstantsAssumption DEF ConstantsAssumption
  <1>2. ASSUME NEW l \in Lines, NEW x \in Columns, NEW ch \in Channels
        PROVE  Lit(load)[l][x][ch] \in Shines(Lighted(numPlanes, c, r, p + 1)[l][x][ch], t /\ u)
    <2> DEFINE on == Address(l % RowPairs) = addr' /\ <<ch, Half(l)>> \in shifted[x]
               before == Given(numPlanes, c, l, x, ch, Planes(numPlanes, l, r, p))
               after == Given(numPlanes, c, l, x, ch, Planes(numPlanes, l, r, p + 1))
    <2>1. l % RowPairs \in 0..(RowPairs - 1)
      BY LineIs
    <2>2. Lighted(numPlanes, c, r, p)[l][x][ch] = before
          /\ Lighted(numPlanes, c, r, p + 1)[l][x][ch] = after
      BY DEF Lighted
    <2>3. SoFar[l][x][ch] \in Shines(before, t)
      BY <2>2 DEF Shows
    <2>4. Lit(load)[l][x][ch] = SoFar[l][x][ch] + (IF on THEN LitFor(load) ELSE 0)
      BY DEF Lit
    <2>5. before \in Nat
      <3>1. Planes(numPlanes, l, r, p) \in 0..numPlanes
        BY <1>1 DEF Planes
      <3> QED
        BY <1>1, <3>1, GivenType
    <2>6. after = before + (IF on THEN Worth(p) ELSE 0)
      <3>1. CASE l % RowPairs # r
        <4>1. Address(l % RowPairs) # addr'
          BY <2>1, <3>1, AddressTells
        <4>2. Planes(numPlanes, l, r, p + 1) = Planes(numPlanes, l, r, p)
          BY <3>1 DEF Planes
        <4> QED
          BY <2>5, <4>1, <4>2
      <3>2. CASE l % RowPairs = r
        <4>1. Planes(numPlanes, l, r, p + 1) = p + 1 /\ Planes(numPlanes, l, r, p) = p
          BY <3>2, RowPairsIs DEF Planes
        <4>2. <<ch, Half(l)>> \in shifted[x]
                <=> c # Nothing /\ BitAt(Pixel(c, l, x)[ch], SourceBit(numPlanes, ch, p)) = 1
          <5>1. CASE c = Nothing
            BY <5>1 DEF Latched
          <5>2. CASE c # Nothing
            <6>1. shifted[x] = Element(numPlanes, c, numPlanes * r + p, x)
              BY <5>2 DEF Latched
            <6>2. <<ch, Half(l)>> \in Element(numPlanes, c, numPlanes * r + p, x)
                    <=> BitAt(Pixel(c, l, x)[ch], SourceBit(numPlanes, ch, p)) = 1
              BY <1>1, <3>2, ElementTells
            <6> QED
              BY <5>2, <6>1, <6>2
          <5> QED
            BY <5>1, <5>2
        <4>3. Given(numPlanes, c, l, x, ch, p + 1) = Given(numPlanes, c, l, x, ch, p) +
                (IF c # Nothing /\ BitAt(Pixel(c, l, x)[ch], SourceBit(numPlanes, ch, p)) = 1
                 THEN Worth(p) ELSE 0)
          BY <1>1, GivenNext
        <4>4. Address(l % RowPairs) = addr'
          BY <3>2
        <4> QED
          BY <4>1, <4>2, <4>3, <4>4
      <3> QED
        BY <3>1, <3>2
    <2> HIDE DEF on, before, after
    <2>7. PICK w \in Nat : w = Worth(p)
      BY <1>1, WorthIs
    <2>8. CASE on
      <3>1. SoFar[l][x][ch] + LitFor(load) \in Shines(before + w, t /\ u)
        BY <2>3, <2>5, <2>7, ShinesAdds
      <3> QED
        BY <2>2, <2>4, <2>6, <2>7, <2>8, <3>1
    <2>9. CASE ~on
      <3>1. 0 \in Shines(0, u)
        BY DEF Shines
      <3>2. SoFar[l][x][ch] + 0 \in Shines(before + 0, t /\ u)
        BY <2>3, <2>5, <3>1, ShinesAdds
      <3> QED
        BY <2>2, <2>4, <2>6, <2>9, <3>2
    <2> QED
      BY <2>8, <2>9
  <1> QED
    BY <1>2 DEF Shows

(* All planes of a row are none of the next, and all planes of the last    *)
(* one are the picture.                                                    *)
LEMMA LightedIs ==
    ASSUME numPlanes \in Depths, NEW c \in Canvases \union {Nothing}
    PROVE  /\ Lighted(numPlanes, c, 0, 0) = Dark
           /\ \A r \in 0..(RowPairs - 2) :
                Lighted(numPlanes, c, r, numPlanes) = Lighted(numPlanes, c, r + 1, 0)
           /\ c = Nothing => Lighted(numPlanes, c, RowPairs - 1, numPlanes) = Dark
           /\ c # Nothing => Lighted(numPlanes, c, RowPairs - 1, numPlanes) = Picture[numPlanes][c]
  <1>1. numPlanes \in 1..6
    BY ConstantsAssumption DEF ConstantsAssumption
  <1>2. \A l \in Lines : l % RowPairs \in 0..(RowPairs - 1)
    BY LineIs
  <1>3. Lighted(numPlanes, c, 0, 0) = Dark
    <2>1. ASSUME NEW l \in Lines, NEW x \in Columns, NEW ch \in Channels
          PROVE  Given(numPlanes, c, l, x, ch, Planes(numPlanes, l, 0, 0)) = 0
      <3>1. Planes(numPlanes, l, 0, 0) = 0
        BY <1>2, RowPairsIs DEF Planes
      <3> QED
        BY <3>1, PartialNone DEF Given
    <2> QED
      BY <2>1 DEF Lighted, Dark
  <1>4. ASSUME NEW r \in 0..(RowPairs - 2)
        PROVE  Lighted(numPlanes, c, r, numPlanes) = Lighted(numPlanes, c, r + 1, 0)
    <2>1. ASSUME NEW l \in Lines
          PROVE  Planes(numPlanes, l, r, numPlanes) = Planes(numPlanes, l, r + 1, 0)
      <3>1. PICK q \in Nat : q = l % RowPairs
        BY <1>2, RowPairsIs
      <3>2. q < r + 1 <=> q < r \/ q = r
        BY <3>1, RowPairsIs
      <3> QED
        BY <3>1, <3>2 DEF Planes
    <2> QED
      BY <2>1 DEF Lighted
  <1>5. \A l \in Lines : Planes(numPlanes, l, RowPairs - 1, numPlanes) = numPlanes
    BY <1>2, RowPairsIs DEF Planes
  <1>6. c = Nothing => Lighted(numPlanes, c, RowPairs - 1, numPlanes) = Dark
    BY DEF Lighted, Given, Dark
  <1>7. ASSUME c # Nothing
        PROVE  Lighted(numPlanes, c, RowPairs - 1, numPlanes) = Picture[numPlanes][c]
    <2>1. ASSUME NEW l \in Lines, NEW x \in Columns, NEW ch \in Channels
          PROVE  Given(numPlanes, c, l, x, ch, Planes(numPlanes, l, RowPairs - 1, numPlanes))
                   = Level(numPlanes, ch, Pixel(c, l, x)[ch])
      <3>1. Pixel(c, l, x)[ch] \in Values(ch)
        BY <1>7, PixelIs
      <3>2. Partial(numPlanes, ch, Pixel(c, l, x)[ch], numPlanes)
              = Level(numPlanes, ch, Pixel(c, l, x)[ch])
        BY <1>1, <3>1, PartialAll
      <3> QED
        BY <1>5, <1>7, <3>2 DEF Given
    <2>2. c \in Canvases
      BY <1>7
    <2> QED
      BY <2>1, <2>2 DEF Lighted, Picture
  <1> QED
    BY <1>3, <1>4, <1>6, <1>7

------------------------------------------------------------------------------
(* The state between two interrupts: the registers hold the scanline that  *)
(* plane and row name, and the LEDs have given the light of those before.  *)
Starting ==
    /\ plane = numPlanes - 1 /\ row = RowPairs - 1 /\ prevRow = RowPairs - 2
    /\ showing = Nothing /\ shifted = Residue /\ light = Dark /\ inTime = TRUE

Scanning ==
    /\ plane # 0 => prevRow = row
    /\ shifted = Latched(showing, numPlanes * row + plane)
    /\ Shows(SoFar, Lighted(numPlanes, showing, row, plane), FrameBegins \/ inTime)

ScanInv ==
    /\ port = {} /\ shifted \in [Columns -> SUBSET Pins]
    /\ addr = Address(prevRow)
    /\ FrameShowsCanvas
    /\ Starting \/ Scanning

(* Toggling the address pins that differ leaves the address of the row.    *)
LEMMA AddressMoves ==
    ASSUME addr = Address(prevRow), SetAddress
    PROVE  addr' = Address(prevRow') /\ (plane = 0 => addr' = Address(row))
  <1>1. Address(prevRow) \subseteq Bits /\ Address(row) \subseteq Bits
    BY DEF Address
  <1>2. Xor(Bits, Address(prevRow), Xor(Bits, Address(row), Address(prevRow))) = Address(row)
    BY <1>1 DEF Xor
  <1> QED
    BY <1>2 DEF SetAddress

(* The scanline that plane and row name is one of the buffer's.            *)
LEMMA ScanlineInside ==
    ASSUME numPlanes \in Depths, NEW r \in 0..(RowPairs - 1), NEW p \in 0..(numPlanes - 1)
    PROVE  numPlanes * r + p \in Scanlines(numPlanes)
  <1>1. numPlanes \in {1, 2, 3, 4, 5, 6} /\ RowPairs \in {2, 4, 8, 16, 32}
    BY RowPairsIs, ConstantsAssumption DEF ConstantsAssumption
  <1>2. numPlanes * r + p \in Nat
    BY <1>1
  <1>3. numPlanes * r + p < RowPairs * numPlanes
    BY <1>1
  <1> QED
    BY <1>1, <1>2, <1>3 DEF Scanlines

(* The first interrupt, and the flash it leaves.                           *)
LEMMA FlashIs ==
    ASSUME TypeOK, PeriodFits, Starting, addr = Address(prevRow), SetAddress,
           TimerStart(bitZeroPeriod * Worth(plane)), NEW load \in Loads
    PROVE  Shows(Lit(load), Flash, load <= ticks')
  <1>1. numPlanes \in 1..6 /\ RowPairs \in {2, 4, 8, 16, 32}
    BY RowPairsIs, ConstantsAssumption DEF TypeOK, ConstantsAssumption
  <1>2. addr' = Address(IF numPlanes = 1 THEN RowPairs - 1 ELSE RowPairs - 2)
    <2>1. plane = 0 <=> numPlanes = 1
      BY <1>1 DEF Starting
    <2>2. plane = 0 => addr' = Address(row)
      BY AddressMoves
    <2>3. plane # 0 => addr' = addr
      BY DEF SetAddress
    <2> QED
      BY <2>1, <2>2, <2>3 DEF Starting
  <1>3. LitFor(load) \in Shines(Worth(numPlanes - 1), load <= ticks')
    BY LitForIs DEF Starting
  <1>4. PICK w \in Nat : w = Worth(numPlanes - 1)
    <2>1. numPlanes - 1 \in 0..6
      BY <1>1
    <2> QED
      BY <2>1, WorthIs
  <1> DEFINE lit == IF numPlanes = 1 THEN RowPairs - 1 ELSE RowPairs - 2
  <1>5. lit \in 0..(RowPairs - 1)
    BY <1>1
  <1> HIDE DEF lit
  <1>6. ASSUME NEW l \in Lines, NEW x \in Columns, NEW ch \in Channels
        PROVE  Lit(load)[l][x][ch] \in Shines(Flash[l][x][ch], load <= ticks')
    <2> DEFINE on == l % RowPairs = lit /\ Residue[x] # {}
    <2>1. Flash[l][x][ch] = IF on THEN w ELSE 0
      BY <1>4 DEF Flash, lit
    <2>2. SoFar[l][x][ch] = 0
      <3>1. SoFar = Dark
        BY DEF Starting, SoFar
      <3> QED
        BY <3>1 DEF Dark
    <2>3. Address(l % RowPairs) = addr' <=> l % RowPairs = lit
      <3>1. l % RowPairs \in 0..(RowPairs - 1)
        BY LineIs
      <3> QED
        BY <1>2, <1>5, <3>1, AddressTells DEF lit
    <2>4. <<ch, Half(l)>> \in shifted[x] <=> Residue[x] # {}
      <3>1. <<ch, Half(l)>> \in Pins
        BY LineIs DEF Pins
      <3>2. Residue[x] \in {Pins, {}}
        BY DEF Residue
      <3> QED
        BY <3>1, <3>2 DEF Starting
    <2>5. Lit(load)[l][x][ch] = 0 + (IF on THEN LitFor(load) ELSE 0)
      BY <2>2, <2>3, <2>4 DEF Lit
    <2> HIDE DEF on
    <2>6. CASE on
      <3>1. LitFor(load) \in Nat
        BY <1>3, <1>4 DEF Shines
      <3>2. Lit(load)[l][x][ch] = LitFor(load) /\ Flash[l][x][ch] = w
        BY <2>1, <2>5, <2>6, <3>1
      <3> QED
        BY <1>3, <1>4, <3>2
    <2>7. CASE ~on
      BY <2>1, <2>5, <2>7 DEF Shines
    <2> QED
      BY <2>6, <2>7
  <1> QED
    BY <1>6 DEF Shows

(* The interrupt latches what the invariant says, and shifts in the next.  *)
LEMMA RowHandlerKeepsScan ==
    ASSUME DisplayInv, DisplayInv', PeriodFits, ScanInv, _PM_row_handler
    PROVE  ScanInv'
  <1>1. TypeOK /\ TypeOK' /\ WholeFrame' /\ WholeFrame
    BY DEF DisplayInv
  <1>2. /\ numPlanes \in Depths /\ bytesPerElement \in Layouts
        /\ plane \in 0..(numPlanes - 1) /\ row \in 0..(RowPairs - 1)
        /\ showing \in Canvases \union {Nothing} /\ showing' \in Canvases \union {Nothing}
        /\ plane' \in 0..(numPlanes - 1) /\ row' \in 0..(RowPairs - 1)
        /\ numPlanes' = numPlanes /\ bytesPerElement' = bytesPerElement
    <2>1. numPlanes' = numPlanes /\ bytesPerElement' = bytesPerElement
      BY DEF _PM_row_handler, shape
    <2> QED
      BY <1>1, <2>1 DEF TypeOK
  <1>3. numPlanes \in 1..6 /\ RowPairs \in {2, 4, 8, 16, 32}
    BY <1>2, RowPairsIs, ConstantsAssumption DEF ConstantsAssumption
  <1>4. PICK load \in Loads : Takes(load)
    BY DEF _PM_row_handler
  <1>4a. TimerStart(bitZeroPeriod * Worth(plane)) /\ SetAddress
    BY DEF _PM_row_handler
  <1>5. addr' = Address(prevRow') /\ prevRow' = IF plane = 0 THEN row ELSE prevRow
    <2>1. addr = Address(prevRow)
      BY DEF ScanInv
    <2> QED
      BY <1>4a, <2>1, AddressMoves DEF SetAddress
  <1>6. /\ plane' = IF LastPlane THEN 0 ELSE plane + 1
        /\ row' = IF FrameEnds THEN 0 ELSE IF LastPlane THEN row + 1 ELSE row
    BY DEF _PM_row_handler, Advance
  <1>7. /\ port' = {} /\ shifted' \in [Columns -> SUBSET Pins]
        /\ shifted' = Latched(showing', numPlanes * row' + plane')
    <2>1. PICK k \in Scanlines(numPlanes) : k = numPlanes * row' + plane'
      BY <1>2, <1>3, ScanlineInside
    <2>2. screenData[activeBuffer'] = Frame(showing')
      BY <1>1, <1>2 DEF WholeFrame, _PM_row_handler, Frame
    <2>3. BlastPlane(Frame(showing')[k])
      BY <2>1, <2>2 DEF _PM_row_handler
    <2>4. Leads(Frame(showing')[k], Latched(showing', k), showing' = Nothing)
      BY <1>2, FrameLeads
    <2>5. Latched(showing', k) \in [Columns -> SUBSET Pins]
      BY LatchedType
    <2>6. port = {} /\ shifted \in [Columns -> SUBSET Pins]
      BY DEF ScanInv
    <2>7. (showing' = Nothing) \in BOOLEAN
      OBVIOUS
    <2>8. shifted' = Latched(showing', k) /\ port' = {}
      BY <2>3, <2>4, <2>5, <2>6, <2>7, BlastIs
    <2> QED
      BY <2>1, <2>5, <2>8
  <1>8. Latched(showing', numPlanes * row' + plane') = Latched(showing, numPlanes * row + plane)'
    BY <1>2 DEF Latched
  <1>9. /\ lightOf' = showing /\ light' = Lit(load)
        /\ inTime' = ((FrameBegins \/ inTime) /\ load <= ticks')
    <2>1. lightOf' = showing /\ light' = Lit(load)
      BY <1>4 DEF _PM_row_handler, Takes
    <2>2. inTime' = ((FrameBegins \/ inTime) /\ load <= ticks')
      BY <1>4, Zenon DEF Takes
    <2> QED
      BY <2>1, <2>2
  <1>10. Lighted(numPlanes, showing, row, plane)' = Lighted(numPlanes, showing', row', plane')
    BY <1>2 DEF Lighted, Given, Planes
  <1>11. Flash' = Flash
    BY <1>2 DEF Flash
  <1>12. (FrameBegins \/ inTime) \in BOOLEAN /\ (load <= ticks') \in BOOLEAN
    <2>1. (FrameBegins \/ inTime) \in BOOLEAN
      BY Zenon
    <2>2. (load <= ticks') \in BOOLEAN
      OBVIOUS
    <2> QED
      BY <2>1, <2>2
  <1>13. ASSUME FrameEnds
         PROVE  FrameBegins' /\ Shows(SoFar, Lighted(numPlanes, showing, row, plane),
                                       FrameBegins \/ inTime)'
    <2>1. plane' = 0 /\ row' = 0
      BY <1>6, <1>13 DEF FrameEnds
    <2>2. FrameBegins' /\ SoFar' = Dark
      BY <2>1 DEF FrameBegins, SoFar, Dark
    <2>3. Lighted(numPlanes, showing, row, plane)' = Dark
      BY <1>2, <1>10, <2>1, LightedIs
    <2>4. \A l \in Lines, x \in Columns, ch \in Channels :
            Dark[l][x][ch] \in Shines(Dark[l][x][ch], TRUE)
      BY DEF Shines
    <2> QED
      BY <2>2, <2>3, <2>4 DEF Shows, Shines
  <1>14. CASE Starting
    <2>1. FrameEnds
      BY <1>2, <1>3, <1>14 DEF Starting, FrameEnds, LastPlane
    <2>2. Shows(Lit(load), Flash, load <= ticks')
      BY <1>1, <1>14, <1>4a, FlashIs DEF ScanInv
    <2>3. inTime' = (load <= ticks') /\ lightOf' = Nothing
      BY <1>9, <1>14 DEF Starting
    <2>4. FrameShowsCanvas'
      BY <1>9, <1>11, <2>2, <2>3 DEF FrameShowsCanvas, Shows
    <2>5. Scanning'
      BY <1>6, <1>7, <1>8, <1>13, <2>1 DEF Scanning, FrameEnds
    <2> QED
      BY <1>5, <1>7, <2>4, <2>5 DEF ScanInv
  <1>15. CASE Scanning
    <2>1. prevRow' = row
      BY <1>5, <1>15 DEF Scanning
    <2>2. Shows(Lit(load), Lighted(numPlanes, showing, row, plane + 1), inTime')
      <3>1. addr' = Address(row)
        BY <1>5, <2>1
      <3>2. Shows(SoFar, Lighted(numPlanes, showing, row, plane), FrameBegins \/ inTime)
            /\ shifted = Latched(showing, numPlanes * row + plane)
        BY <1>15 DEF Scanning
      <3>3. LitFor(load) \in Shines(Worth(plane), load <= ticks')
        BY <1>1, <1>4a, LitForIs
      <3>4. Shows(Lit(load), Lighted(numPlanes, showing, row, plane + 1),
                  (FrameBegins \/ inTime) /\ load <= ticks')
        BY <1>2, <1>12, <3>1, <3>2, <3>3, LitIs
      <3> QED
        BY <1>9, <3>4
    <2>3. CASE FrameEnds
      <3>1. plane + 1 = numPlanes /\ row = RowPairs - 1
        BY <1>2, <1>3, <2>3 DEF FrameEnds, LastPlane
      <3>2. /\ showing = Nothing => Shows(Lit(load), Dark, inTime')
            /\ showing # Nothing => Shows(Lit(load), Picture[numPlanes][showing], inTime')
        BY <1>2, <2>2, <3>1, LightedIs
      <3>3. FrameShowsCanvas'
        BY <1>2, <1>9, <3>2 DEF FrameShowsCanvas, Shows
      <3>4. Scanning'
        BY <1>6, <1>7, <1>8, <1>13, <2>3 DEF Scanning, FrameEnds
      <3> QED
        BY <1>5, <1>7, <3>3, <3>4 DEF ScanInv
    <2>4. CASE ~FrameEnds
      <3>1. showing' = showing
        BY <2>4 DEF _PM_row_handler
      <3>2. ~FrameBegins'
        BY <1>2, <1>6, <2>4 DEF FrameEnds, FrameBegins
      <3>3. FrameShowsCanvas'
        BY <3>2 DEF FrameShowsCanvas
      <3>4. plane' # 0 => prevRow' = row'
        BY <1>6, <2>1, <2>4 DEF FrameEnds
      <3>5. Shows(Lit(load), Lighted(numPlanes, showing, row', plane'), inTime')
        <4>1. CASE LastPlane
          <5>1. plane + 1 = numPlanes /\ row \in 0..(RowPairs - 2)
                /\ plane' = 0 /\ row' = row + 1
            BY <1>2, <1>3, <1>6, <2>4, <4>1 DEF FrameEnds, LastPlane
          <5> QED
            BY <1>2, <2>2, <5>1, LightedIs
        <4>2. CASE ~LastPlane
          BY <1>6, <2>2, <2>4, <4>2 DEF FrameEnds
        <4> QED
          BY <4>1, <4>2
      <3>6. SoFar' = Lit(load)
        BY <1>9, <3>2 DEF SoFar
      <3>7. Shows(SoFar, Lighted(numPlanes, showing, row, plane), FrameBegins \/ inTime)'
        <4>1. inTime' \in BOOLEAN
          BY <1>1 DEF TypeOK
        <4> QED
          BY <1>10, <3>1, <3>2, <3>5, <3>6, <4>1 DEF Shows, Shines
      <3>8. Scanning'
        BY <1>7, <1>8, <3>4, <3>7 DEF Scanning
      <3> QED
        BY <1>5, <1>7, <3>3, <3>8 DEF ScanInv
    <2> QED
      BY <2>3, <2>4
  <1> QED
    BY <1>14, <1>15 DEF ScanInv

(* show() changes nothing of what is scanned.                              *)
LEMMA NextKeepsScan ==
    ASSUME DisplayInv, DisplayInv', PeriodFits, ScanInv, [Next]_vars
    PROVE  ScanInv'
  <1>1. CASE _PM_row_handler
    BY <1>1, RowHandlerKeepsScan
  <1>2. CASE Render \/ UNCHANGED vars
    <2>1. UNCHANGED <<plane, row, prevRow, numPlanes, port, addr, shifted, showing, light,
                      lightOf, inTime>>
      BY <1>2 DEF Render, Show, ConvertScanline, _PM_swapbuffer_maybe, SwapDone, vars,
                  isr, shape, buffers, pins, seen
    <2>2. /\ Latched(showing, numPlanes * row + plane)' = Latched(showing, numPlanes * row + plane)
          /\ Lighted(numPlanes, showing, row, plane)' = Lighted(numPlanes, showing, row, plane)
          /\ Flash' = Flash /\ SoFar' = SoFar /\ FrameBegins' = FrameBegins
      BY <2>1 DEF Latched, Lighted, Given, Planes, Flash, SoFar, FrameBegins, Dark
    <2>3. FrameShowsCanvas'
      BY <2>1, <2>2 DEF ScanInv, FrameShowsCanvas, Shows
    <2>4. (Starting \/ Scanning)'
      BY <2>1, <2>2 DEF ScanInv, Starting, Scanning, Shows
    <2> QED
      BY <2>1, <2>3, <2>4 DEF ScanInv
  <1> QED
    BY <1>1, <1>2 DEF Next

LEMMA InitScan == Init => ScanInv
  <1> SUFFICES ASSUME Init PROVE ScanInv
    OBVIOUS
  <1>1. Residue \in [Columns -> SUBSET Pins]
    BY DEF Residue
  <1>2. FrameShowsCanvas
    <2>1. ~FrameBegins
      BY RowPairsIs DEF Init, FrameBegins
    <2> QED
      BY <2>1 DEF FrameShowsCanvas
  <1>3. Starting
    BY DEF Init, Starting
  <1> QED
    BY <1>1, <1>2, <1>3 DEF Init, ScanInv

(* What the eye sees is the canvas: over every frame the interrupt scans,  *)
(* each LED has given light by the value its canvas has for it, whatever   *)
(* was drawn meanwhile; for any canvas, size of panel, depth and layout.   *)
THEOREM FrameShowsCanvasCorrect == Spec => []FrameShowsCanvas
  <1>1. ScanInv => FrameShowsCanvas
    BY DEF ScanInv
  <1> QED
    BY <1>1, InitScan, NextKeepsScan, DisplayAlways, PeriodFitsCorrect, PTL DEF Spec
================================================================================
