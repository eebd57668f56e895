------------------------ MODULE CommandPipelineProofs ------------------------
(***************************************************************************)
(* What holds of CommandPipeline for every number of settings, every depth *)
(* of the queues and any number of requests and power cuts.                *)
(***************************************************************************)
EXTENDS CommandPipeline, SequenceTheorems, FiniteSetTheorems, TLAPS

USE ConstantsAssumption DEF ConstantsAssumption
USE DEF queues, shared, render, net, ws, house, history, bounds

LEMMA DefaultsType ==
    /\ NoCommand \in Command /\ NoEvent \in Event /\ Nothing \in Body
    /\ Defaults \in [Keys -> Values] /\ DOMAIN Nothing = {}
  <1>1. Nothing \in [{} -> Values] /\ DOMAIN Nothing = {}
    BY DEF Nothing
  <1>2. Nothing \in Body
    BY <1>1 DEF Body
  <1> QED
    BY <1>1, <1>2 DEF NoCommand, NoEvent, Command, Event, Defaults, Cells, Watched

LEMMA RestoredType ==
    ASSUME NEW flash \in [Keys -> Values]
    PROVE  /\ Restored(flash) \in [Cells -> Values]
           /\ \A k \in Keys : Restored(flash)[k] = flash[k]
  BY DEF Restored, Cells

LEMMA TypeInit == Init => TypeOK
  <1> SUFFICES ASSUME Init PROVE TypeOK
    OBVIOUS
  <1>1. cell \in [Cells -> Values] /\ stored \in [Keys -> Values]
    BY DefaultsType, RestoredType DEF Init
  <1>2. /\ queue \in Seq(Command) /\ Len(queue) <= QueueDepth
        /\ events \in Seq(Event) /\ Len(events) <= EventDepth
        /\ posted \in Seq(Command) /\ applied \in Seq(Command)
    BY DEF Init
  <1>3. told \in [Watched -> Values]
    BY DEF Init
  <1> QED
    BY <1>1, <1>2, <1>3, DefaultsType DEF Init, TypeOK, Tasks

------------------------------------------------------------------------------
LEMMA PostType ==
    ASSUME TypeOK, NEW c \in Command, Post(c)
    PROVE  /\ queue' \in Seq(Command) /\ Len(queue') <= QueueDepth
           /\ posted' \in Seq(Command)
  <1>1. /\ queue \in Seq(Command) /\ Len(queue) <= QueueDepth /\ Len(queue) \in Nat
        /\ posted \in Seq(Command)
    BY DEF TypeOK
  <1>2. CASE HasRoom
    <2>1. queue' = Append(queue, c) /\ posted' = Append(posted, c)
      BY <1>2 DEF Post
    <2>2. Len(Append(queue, c)) = Len(queue) + 1
      BY <1>1
    <2> QED
      BY <1>1, <1>2, <2>1, <2>2 DEF HasRoom
  <1>3. CASE ~HasRoom
    BY <1>1, <1>3 DEF Post
  <1> QED
    BY <1>2, <1>3

LEMMA TypeNet == TypeOK /\ Net => TypeOK'
  <1> SUFFICES ASSUME TypeOK, Net PROVE TypeOK'
    OBVIOUS
  <1> USE DEF Runs, EndOfTick, AfterTick, Tasks, Arrives
  <1>1. ASSUME NEW b \in Body, SettingsPost(b) PROVE TypeOK'
    BY <1>1 DEF SettingsPost, TypeOK
  <1>2. ASSUME NEW c \in Command, SinglePost(c) PROVE TypeOK'
    <2>1. /\ queue' \in Seq(Command) /\ Len(queue') <= QueueDepth
          /\ posted' \in Seq(Command)
      BY <1>2, PostType DEF SinglePost
    <2>2. promised' \subseteq Command
      BY <1>2 DEF SinglePost, TypeOK
    <2> QED
      BY <1>2, <2>1, <2>2 DEF SinglePost, TypeOK
  <1>3. ASSUME NEW v \in Valid, SetActiveApp(v) \/ SetLed(v) PROVE TypeOK'
    BY <1>2, <1>3 DEF SetActiveApp, SetLed, Command, Cells, TypeOK
  <1>4. ASSUME NEW k \in DOMAIN body PROVE SettingCommand(k) \in Command
    BY <1>4 DEF SettingCommand, Command, TypeOK, Body, Cells
  <1>5. CASE NetPostOne
    <2>1. PICK k \in todo : Post(SettingCommand(k)) /\ todo' = todo \ {k}
      BY <1>5 DEF NetPostOne
    <2>2. /\ queue' \in Seq(Command) /\ Len(queue') <= QueueDepth
          /\ posted' \in Seq(Command)
      BY <2>1, <1>4, PostType DEF TypeOK
    <2> QED
      BY <1>5, <2>1, <2>2 DEF NetPostOne, TypeOK
  <1>6. CASE NetReply
    <2>1. promised' \subseteq Command
      BY <1>6, <1>4 DEF NetReply, TypeOK
    <2> QED
      BY <1>6, <2>1, DefaultsType DEF NetReply, TypeOK
  <1>7. CASE NetEndTick
    BY <1>7 DEF NetEndTick, TypeOK
  <1> QED
    BY <1>1, <1>3, <1>5, <1>6, <1>7 DEF Net

LEMMA TypeWs == TypeOK /\ Ws => TypeOK'
  <1> SUFFICES ASSUME TypeOK, Ws PROVE TypeOK'
    OBVIOUS
  <1> USE DEF Runs, EndOfTick, AfterTick, Tasks, Arrives
  <1>1. CASE WsTake
    BY <1>1 DEF WsTake, TypeOK
  <1>2. CASE WsRead
    <2>1. wEv.cell \in Cells /\ wEv.app \in Values
      BY DEF TypeOK, Event, Cells, Watched
    <2>2. wVal' \in Values
      BY <1>2, <2>1 DEF WsRead, TypeOK
    <2> QED
      BY <1>2, <2>2 DEF WsRead, TypeOK
  <1>3. CASE WsSend
    BY <1>3, DefaultsType DEF WsSend, TypeOK
  <1>4. CASE WsDrained
    BY <1>4 DEF WsDrained, TypeOK
  <1>5. ASSUME NEW k \in Keys, NEW v \in Values, WsMessage(k, v) PROVE TypeOK'
    <2>1. [cell |-> k, val |-> v, req |-> requests] \in Command
      BY DEF Command, Cells, TypeOK
    <2>2. /\ queue' \in Seq(Command) /\ Len(queue') <= QueueDepth
          /\ posted' \in Seq(Command)
      BY <1>5, <2>1, PostType DEF WsMessage, TypeOK
    <2> QED
      BY <1>5, <2>2 DEF WsMessage, TypeOK
  <1>6. CASE WsEndTick
    BY <1>6 DEF WsEndTick, TypeOK
  <1> QED
    BY <1>1, <1>2, <1>3, <1>4, <1>5, <1>6 DEF Ws

LEMMA TypeRender == TypeOK /\ Render => TypeOK'
  <1> SUFFICES ASSUME TypeOK, Render PROVE TypeOK'
    OBVIOUS
  <1> USE DEF Runs, EndOfTick, AfterTick, Tasks
  <1>0. cmd.cell \in Watched => TheEvent \in Event
    BY DEF TheEvent, Event, TypeOK, Command
  <1>e. ASSUME NEW e \in Event
        PROVE  /\ Append(events, e) \in Seq(Event)
               /\ Len(Append(events, e)) = Len(events) + 1
    BY DEF TypeOK
  <1>1. CASE RenderTake
    BY <1>1 DEF RenderTake, TypeOK
  <1>2. CASE RenderApply
    <2>1. cell' \in [Cells -> Values]
      BY <1>2 DEF RenderApply, TypeOK, Command
    <2>2. applied' \in Seq(Command)
      BY <1>2 DEF RenderApply, TypeOK
    <2> QED
      BY <1>2, <2>1, <2>2 DEF RenderApply, TypeOK, Command, Cells, Watched
  <1>3. CASE RenderMark
    BY <1>3 DEF RenderMark, TypeOK, Watched
  <1>4. CASE RenderNotify
    <2>1. TheEvent \in Event
      BY <1>4, <1>0 DEF RenderNotify, TypeOK
    <2>2. events \in Seq(Event) /\ Len(events) \in Nat /\ Len(events) <= EventDepth
      BY DEF TypeOK
    <2>3. CASE Len(events) < EventDepth
      <3>1. events' = Append(events, TheEvent) /\ rPc' = "idle"
        BY <1>4, <2>3 DEF RenderNotify
      <3>2. events' \in Seq(Event) /\ Len(events') <= EventDepth
        BY <2>1, <2>2, <2>3, <3>1, <1>e
      <3> QED
        BY <1>4, <3>1, <3>2 DEF RenderNotify, TypeOK
    <2>4. CASE ~(Len(events) < EventDepth)
      BY <1>4, <2>4 DEF RenderNotify, TypeOK
    <2> QED
      BY <2>3, <2>4
  <1>5. CASE RenderEvict
    BY <1>5 DEF RenderEvict, RoomMade, TypeOK
  <1>6. CASE RenderResend
    BY <1>6, <1>0, <1>e DEF RenderResend, DropCounted, TypeOK
  <1>7. CASE RenderEndTick
    BY <1>7 DEF RenderEndTick, TypeOK
  <1> QED
    BY <1>1, <1>2, <1>3, <1>4, <1>5, <1>6, <1>7 DEF Render

LEMMA TypeHouse == TypeOK /\ House => TypeOK'
  <1> SUFFICES ASSUME TypeOK, House PROVE TypeOK'
    OBVIOUS
  <1> USE DEF Runs, EndOfTick, AfterTick, Tasks
  <1>1. CASE HouseDue
    BY <1>1, DefaultsType DEF HouseDue, TypeOK
  <1>2. CASE HouseRead
    <2>1. PICK k \in Recorded \ DOMAIN snap :
             snap' = [j \in DOMAIN snap \cup {k} |-> IF j = k THEN cell[k] ELSE snap[j]]
      BY <1>2 DEF HouseRead
    <2>2. PICK S \in SUBSET Keys : snap \in [S -> Values]
      BY DEF TypeOK, Body
    <2>3. snap' \in [S \cup {k} -> Values] /\ S \cup {k} \subseteq Keys
      BY <2>1, <2>2 DEF TypeOK, Recorded, Cells
    <2>4. snap' \in Body
      BY <2>3 DEF Body
    <2> QED
      BY <1>2, <2>4 DEF HouseRead, TypeOK
  <1>3. CASE HouseErase
    BY <1>3, DefaultsType DEF HouseErase, TypeOK
  <1>4. CASE HouseWrite
    <2>1. snap \in [Keys -> Values]
      BY <1>4 DEF HouseWrite, Recorded, TypeOK, Body
    <2>2. stored' \in [Keys -> Values]
      BY <1>4, <2>1 DEF HouseWrite, Recorded, TypeOK
    <2> QED
      BY <1>4, <2>2 DEF HouseWrite, TypeOK
  <1>5. CASE HouseClear
    BY <1>5, DefaultsType DEF HouseClear, TypeOK
  <1>6. CASE HouseEndTick
    BY <1>6 DEF HouseEndTick, TypeOK
  <1> QED
    BY <1>1, <1>2, <1>3, <1>4, <1>5, <1>6 DEF House

LEMMA TypeEnv == TypeOK /\ (Ripen \/ PowerCut) => TypeOK'
  <1> SUFFICES ASSUME TypeOK, Ripen \/ PowerCut PROVE TypeOK'
    OBVIOUS
  <1>1. CASE Ripen
    BY <1>1 DEF Ripen, TypeOK
  <1>2. CASE PowerCut
    <2>1. /\ cell' \in [Cells -> Values]
          /\ told' \in [Watched -> Values]
      BY <1>2, RestoredType DEF PowerCut, TypeOK, Cells, Watched
    <2>2. /\ queue' \in Seq(Command) /\ Len(queue') <= QueueDepth
          /\ events' \in Seq(Event) /\ Len(events') <= EventDepth
          /\ posted' \in Seq(Command) /\ applied' \in Seq(Command)
      BY <1>2 DEF PowerCut
    <2> QED
      BY <1>2, <2>1, <2>2, DefaultsType DEF PowerCut, TypeOK, Tasks
  <1> QED
    BY <1>1, <1>2

LEMMA TypeStep == TypeOK /\ [Next]_vars => TypeOK'
  <1>1. TypeOK /\ UNCHANGED vars => TypeOK'
    BY DEF vars, TypeOK
  <1> QED
    BY <1>1, TypeNet, TypeWs, TypeRender, TypeHouse, TypeEnv DEF Next

(* Every reachable state has the types the code declares, and neither      *)
(* queue is ever longer than its depth, however the tasks interleave.      *)
THEOREM TypeCorrect == Spec => []TypeOK
  BY TypeInit, TypeStep, PTL DEF Spec

------------------------------------------------------------------------------
(* Concatenation, as the queue's operations meet it.                       *)
LEMMA ConcatAppend ==
    ASSUME NEW S, NEW s \in Seq(S), NEW t \in Seq(S), NEW e \in S
    PROVE  s \o Append(t, e) = Append(s \o t, e)
  OBVIOUS

LEMMA ConcatTake ==
    ASSUME NEW S, NEW s \in Seq(S), NEW t \in Seq(S), t # <<>>
    PROVE  (s \o <<Head(t)>>) \o Tail(t) = (s \o <<>>) \o t
  OBVIOUS

LEMMA ConcatMove ==
    ASSUME NEW S, NEW s \in Seq(S), NEW t \in Seq(S), NEW e \in S
    PROVE  (Append(s, e) \o <<>>) \o t = (s \o <<e>>) \o t
  OBVIOUS

(***************************************************************************)
(* The path of a command.  A step either leaves it alone, posts one        *)
(* validated command, or is the render task's or a power cut.              *)
(***************************************************************************)
Kept      == UNCHANGED <<queue, posted, applied, cmd, rPc, cell>>
Posts(c)  == Post(c) /\ UNCHANGED <<applied, cmd, rPc, cell>>
Notifying == {"mark", "notify", "evict", "resend"}
AfterApply ==
    /\ UNCHANGED <<queue, posted, applied, cmd, cell>>
    /\ rPc \in Notifying /\ rPc' \in Notifying \cup {"idle"}

(* Between the validation of a settings request and its last post, the     *)
(* request itself does not change.                                         *)
BodyValid == \A k \in DOMAIN body : body[k] \in Valid

LEMMA BodyStep == TypeOK /\ BodyValid /\ [Next]_vars => BodyValid'
  <1> SUFFICES ASSUME TypeOK, BodyValid, [Next]_vars PROVE BodyValid'
    OBVIOUS
  <1>1. ASSUME NEW b \in Body, SettingsPost(b) PROVE BodyValid'
    BY <1>1 DEF SettingsPost, BodyValid, Validate
  <1>2. CASE NetReply \/ PowerCut
    BY <1>2, DefaultsType DEF NetReply, PowerCut, BodyValid
  <1>3. ASSUME UNCHANGED body PROVE BodyValid'
    BY <1>3 DEF BodyValid
  <1> QED
    BY <1>1, <1>2, <1>3
       DEF Next, Net, SetActiveApp, SetLed, SinglePost, NetPostOne, NetEndTick,
           Ws, WsTake, WsRead, WsSend, WsDrained, WsMessage, WsEndTick,
           Render, RenderTake, RenderApply, RenderMark, RenderNotify, RenderEvict,
           RenderResend, RenderEndTick, House, HouseDue, HouseRead, HouseErase,
           HouseWrite, HouseClear, HouseEndTick, Ripen, vars

LEMMA CommandSteps ==
    ASSUME TypeOK, BodyValid, [Next]_vars
    PROVE  \/ Kept
           \/ \E c \in Command : c.val \in Valid /\ Posts(c)
           \/ RenderTake \/ RenderApply \/ AfterApply \/ PowerCut
  <1> DEFINE Goal == \/ Kept
                     \/ \E c \in Command : c.val \in Valid /\ Posts(c)
                     \/ RenderTake \/ RenderApply \/ AfterApply \/ PowerCut
  <1>1. ASSUME NEW b \in Body, SettingsPost(b) PROVE Goal
    BY <1>1 DEF SettingsPost, Kept
  <1>2. ASSUME NEW v \in Valid, SetActiveApp(v) \/ SetLed(v) PROVE Goal
    <2>1. /\ [cell |-> Active, val |-> v, req |-> requests] \in Command
          /\ [cell |-> Led, val |-> v, req |-> requests] \in Command
      BY DEF Command, Cells, TypeOK
    <2> QED
      BY <1>2, <2>1 DEF SetActiveApp, SetLed, SinglePost, Posts
  <1>3. CASE NetPostOne
    <2>1. PICK k \in todo : Post(SettingCommand(k))
      BY <1>3 DEF NetPostOne
    <2>2. SettingCommand(k) \in Command /\ SettingCommand(k).val \in Valid
      BY DEF SettingCommand, Command, TypeOK, Body, Cells, BodyValid
    <2> QED
      BY <1>3, <2>1, <2>2 DEF NetPostOne, Posts
  <1>4. CASE NetReply \/ NetEndTick
    BY <1>4 DEF NetReply, NetEndTick, Kept
  <1>5. ASSUME NEW k \in Keys, NEW v \in Values, WsMessage(k, v) PROVE Goal
    <2>1. [cell |-> k, val |-> v, req |-> requests] \in Command
      BY DEF Command, Cells, TypeOK
    <2>2. CASE v \in Valid
      BY <1>5, <2>1, <2>2 DEF WsMessage, Validate, Posts
    <2>3. CASE v \notin Valid
      BY <1>5, <2>3 DEF WsMessage, Validate, Kept
    <2> QED
      BY <2>2, <2>3
  <1>6. CASE WsTake \/ WsRead \/ WsSend \/ WsDrained \/ WsEndTick
    BY <1>6 DEF WsTake, WsRead, WsSend, WsDrained, WsEndTick, Kept
  <1>7. CASE RenderMark \/ RenderNotify \/ RenderEvict \/ RenderResend
    BY <1>7 DEF RenderMark, RenderNotify, RenderEvict, RenderResend, AfterApply,
                Notifying
  <1>8. CASE House \/ RenderEndTick \/ Ripen \/ UNCHANGED vars
    BY <1>8 DEF House, HouseDue, HouseRead, HouseErase, HouseWrite, HouseClear,
                HouseEndTick, RenderEndTick, Ripen, vars, Kept
  <1> QED
    BY <1>1, <1>2, <1>3, <1>4, <1>5, <1>6, <1>7, <1>8 DEF Next, Net, Ws, Render

FlashValid ==
    /\ \A k \in Keys : stored[k] \in Valid
    /\ \A k \in DOMAIN snap : snap[k] \in Valid

CommandInv == TypeOK /\ BodyValid /\ NeverRefused /\ FlashValid /\ FifoExactlyOnce

LEMMA CommandInit == Init => CommandInv
  <1> SUFFICES ASSUME Init PROVE CommandInv
    OBVIOUS
  <1>1. BodyValid
    BY DefaultsType DEF Init, BodyValid
  <1>2. NeverRefused
    BY DEF Init, NeverRefused, Restored, Defaults
  <1>3. FifoExactlyOnce
    BY DEF Init, FifoExactlyOnce, InHand
  <1>4. FlashValid
    BY DefaultsType DEF Init, FlashValid, Defaults
  <1> QED
    BY <1>1, <1>2, <1>3, <1>4, TypeInit DEF CommandInv

LEMMA FifoStep ==
    ASSUME TypeOK, BodyValid, FifoExactlyOnce, [Next]_vars
    PROVE  FifoExactlyOnce'
  <1> USE DEF FifoExactlyOnce
  <1>0. /\ queue \in Seq(Command) /\ posted \in Seq(Command)
        /\ applied \in Seq(Command) /\ cmd \in Command
        /\ InHand \in Seq(Command) /\ applied \o InHand \in Seq(Command)
    BY DEF TypeOK, InHand
  <1>1. CASE Kept
    BY <1>1 DEF Kept, InHand
  <1>2. ASSUME NEW c \in Command, Posts(c) PROVE FifoExactlyOnce'
    <2>1. CASE HasRoom
      <3>1. queue' = Append(queue, c) /\ posted' = Append(posted, c) /\ InHand' = InHand
        BY <1>2, <2>1 DEF Posts, Post, InHand
      <3>2. applied' = applied
        BY <1>2 DEF Posts
      <3>3. Append((applied \o InHand) \o queue, c) = (applied \o InHand) \o Append(queue, c)
        <4> DEFINE s == applied \o InHand
        <4>1. s \in Seq(Command) /\ queue \in Seq(Command) /\ c \in Command
          BY <1>0, <1>2
        <4> HIDE DEF s
        <4>2. s \o Append(queue, c) = Append(s \o queue, c)
          BY <4>1, ConcatAppend
        <4> QED
          BY <4>2 DEF s
      <3>4. posted' = Append((applied \o InHand) \o queue, c)
        BY <3>1
      <3>5. (applied' \o InHand') \o queue' = (applied \o InHand) \o Append(queue, c)
        BY <3>1, <3>2, Zenon
      <3> QED
        BY <3>3, <3>4, <3>5
    <2>2. CASE ~HasRoom
      BY <1>2, <2>2 DEF Posts, Post, InHand
    <2> QED
      BY <2>1, <2>2
  <1>3. CASE RenderTake
    BY <1>0, <1>3, ConcatTake DEF RenderTake, InHand
  <1>4. CASE RenderApply
    <2>1. /\ rPc = "apply" /\ rPc' # "apply" /\ applied' = Append(applied, cmd)
          /\ UNCHANGED <<queue, posted>>
      BY <1>4 DEF RenderApply
    <2> QED
      BY <1>0, <2>1, ConcatMove DEF InHand
  <1>5. CASE AfterApply
    BY <1>5 DEF AfterApply, Notifying, InHand
  <1>6. CASE PowerCut
    BY <1>6 DEF PowerCut, InHand
  <1> QED
    BY <1>1, <1>2, <1>3, <1>4, <1>5, <1>6, CommandSteps


LEMMA FlashStep ==
    ASSUME TypeOK, FlashValid, NeverRefused, [Next]_vars
    PROVE  FlashValid'
  <1>1. CASE HouseDue \/ HouseClear
    BY <1>1, DefaultsType DEF HouseDue, HouseClear, FlashValid
  <1>2. CASE HouseRead
    BY <1>2 DEF HouseRead, FlashValid, NeverRefused, Recorded, Cells
  <1>3. CASE HouseErase
    BY <1>3 DEF HouseErase, FlashValid, Defaults
  <1>4. CASE HouseWrite
    BY <1>4 DEF HouseWrite, FlashValid
  <1>5. CASE PowerCut
    BY <1>5, DefaultsType DEF PowerCut, FlashValid
  <1>6. ASSUME UNCHANGED <<stored, snap>> PROVE FlashValid'
    BY <1>6 DEF FlashValid
  <1> QED
    BY <1>1, <1>2, <1>3, <1>4, <1>5, <1>6
       DEF Next, Net, SettingsPost, SetActiveApp, SetLed, SinglePost, NetPostOne,
           NetReply, NetEndTick, Ws, WsTake, WsRead, WsSend, WsDrained, WsMessage,
           WsEndTick, Render, RenderTake, RenderApply, RenderMark, RenderNotify,
           RenderEvict, RenderResend, RenderEndTick, House, HouseEndTick, Ripen, vars

LEMMA NeverRefusedStep ==
    ASSUME TypeOK, BodyValid, FlashValid, NeverRefused, [Next]_vars
    PROVE  NeverRefused'
  <1> USE DEF NeverRefused
  <1>1. CASE Kept
    BY <1>1 DEF Kept
  <1>2. ASSUME NEW c \in Command, c.val \in Valid, Posts(c) PROVE NeverRefused'
    <2>1. queue' = queue \/ queue' = Append(queue, c)
      BY <1>2 DEF Posts, Post
    <2>2. /\ queue \in Seq(Command)
          /\ \A i \in DOMAIN Append(queue, c) :
                Append(queue, c)[i] = IF i \in DOMAIN queue THEN queue[i] ELSE c
      BY DEF TypeOK
    <2>3. \A i \in DOMAIN queue' : queue'[i].val \in Valid
      BY <1>2, <2>1, <2>2
    <2> QED
      BY <1>2, <2>3 DEF Posts
  <1>3. CASE RenderTake
    <2>1. Head(queue) = queue[1] /\ 1 \in DOMAIN queue
      BY <1>3 DEF RenderTake, TypeOK
    <2>2. \A i \in DOMAIN Tail(queue) : i + 1 \in DOMAIN queue /\ Tail(queue)[i] = queue[i + 1]
      BY <1>3 DEF RenderTake, TypeOK
    <2> QED
      BY <1>3, <2>1, <2>2 DEF RenderTake
  <1>4. CASE RenderApply
    BY <1>4 DEF RenderApply, Validate, TypeOK
  <1>5. CASE AfterApply
    BY <1>5 DEF AfterApply, Notifying
  <1>6. CASE PowerCut
    BY <1>6 DEF PowerCut, Restored, FlashValid
  <1> QED
    BY <1>1, <1>2, <1>3, <1>4, <1>5, <1>6, CommandSteps

THEOREM CommandsCorrect == Spec => []CommandInv
  <1>1. CommandInv /\ [Next]_vars => CommandInv'
    BY TypeStep, BodyStep, FlashStep, NeverRefusedStep, FifoStep DEF CommandInv
  <1> QED
    BY CommandInit, <1>1, PTL DEF Spec

(* Whatever the boards' scheduling, the commands drained are the commands  *)
(* accepted, each once and in order.                                       *)
THEOREM FifoCorrect == Spec => []FifoExactlyOnce
  BY CommandsCorrect, PTL DEF CommandInv

(* Validation at the door is enough: what the render task takes from the   *)
(* queue it never refuses, and nothing out of range is ever in force.      *)
THEOREM NeverRefusedCorrect == Spec => []NeverRefused
  BY CommandsCorrect, PTL DEF CommandInv

------------------------------------------------------------------------------
(***************************************************************************)
(* The pipeline implements the one rule: mapped by log <- posted,          *)
(* done <- Len(applied), panel <- cell, every step of any task is an       *)
(* Accept, an Apply, a Reboot or nothing.                                  *)
(***************************************************************************)
LEMMA OneRuleInit == Init => OneRule!Init
  <1> SUFFICES ASSUME Init PROVE OneRule!Init
    OBVIOUS
  <1>1. cell \in [Cells -> Valid]
    BY DEF Init, Restored, Defaults
  <1>2. posted = <<>> /\ Len(applied) = 0
    BY DEF Init
  <1> QED
    BY <1>1, <1>2 DEF OneRule!Init

LEMMA OneRuleStep ==
    ASSUME CommandInv, [Next]_vars
    PROVE  [OneRule!Next]_OneRule!vars
  <1> USE DEF OneRule!Next, OneRule!vars
  <1>0. TypeOK /\ BodyValid /\ NeverRefused /\ FlashValid /\ FifoExactlyOnce
    BY DEF CommandInv
  <1>1. CASE Kept \/ AfterApply
    BY <1>1 DEF Kept, AfterApply
  <1>2. ASSUME NEW c \in Command, Posts(c) PROVE OneRule!Accept \/ UNCHANGED OneRule!vars
    <2>1. CASE HasRoom
      BY <1>2, <2>1 DEF Posts, Post, OneRule!Accept
    <2>2. CASE ~HasRoom
      BY <1>2, <2>2 DEF Posts, Post
    <2> QED
      BY <2>1, <2>2
  <1>3. CASE RenderTake
    BY <1>3 DEF RenderTake
  <1>4. CASE RenderApply
    <2>1. /\ applied \in Seq(Command) /\ queue \in Seq(Command) /\ cmd \in Command
          /\ posted = (applied \o <<cmd>>) \o queue
      BY <1>0, <1>4 DEF TypeOK, FifoExactlyOnce, InHand, RenderApply
    <2>2. Len(applied) < Len(posted) /\ posted[Len(applied) + 1] = cmd
      BY <2>1
    <2>3. Len(applied') = Len(applied) + 1 /\ posted' = posted
      BY <1>4, <2>1 DEF RenderApply
    <2>4. cell' = [cell EXCEPT ![cmd.cell] = cmd.val]
      BY <1>0, <1>4 DEF RenderApply, NeverRefused, Validate
    <2> QED
      BY <2>2, <2>3, <2>4 DEF OneRule!Apply
  <1>5. CASE PowerCut
    <2>1. cell' \in [Cells -> Valid]
      BY <1>0, <1>5 DEF PowerCut, Restored, FlashValid
    <2>2. posted' = <<>> /\ Len(applied') = 0
      BY <1>5 DEF PowerCut
    <2> QED
      BY <2>1, <2>2 DEF OneRule!Reboot
  <1> QED
    BY <1>0, <1>1, <1>2, <1>3, <1>4, <1>5, CommandSteps

(* A command is the only way app state is mutated, on either board.        *)
THEOREM OneRuleCorrect == Spec => ObeysOneRule
  BY CommandsCorrect, OneRuleInit, OneRuleStep, PTL
     DEF Spec, ObeysOneRule, OneRule!Spec

------------------------------------------------------------------------------
(***************************************************************************)
(* eventPost's second send.                                                *)
(***************************************************************************)
LEMMA LandsStep ==
    ASSUME TypeOK, EventAlwaysLands, [Next]_vars
    PROVE  EventAlwaysLands'
  <1> USE DEF EventAlwaysLands
  <1>0. events \in Seq(Event) /\ Len(events) <= EventDepth /\ Len(events) \in Nat
    BY DEF TypeOK
  <1>1. CASE RenderEvict
    <2>1. CASE events = <<>>
      BY <1>1, <2>1 DEF RenderEvict, RoomMade
    <2>2. CASE events # <<>>
      <3>1. events' = Tail(events) /\ Len(Tail(events)) = Len(events) - 1
        BY <1>0, <1>1, <2>2 DEF RenderEvict, RoomMade
      <3> QED
        BY <1>0, <3>1
    <2> QED
      BY <2>1, <2>2
  <1>2. CASE WsTake
    BY <1>0, <1>2 DEF WsTake
  <1>3. CASE RenderTake \/ RenderApply \/ RenderMark \/ RenderNotify \/ RenderResend \/ PowerCut
    BY <1>3 DEF RenderTake, RenderApply, RenderMark, RenderNotify, RenderResend, PowerCut
  <1>4. ASSUME UNCHANGED <<rPc, events>> PROVE EventAlwaysLands'
    BY <1>4
  <1> QED
    BY <1>1, <1>2, <1>3, <1>4
       DEF Next, Net, SettingsPost, SetActiveApp, SetLed, SinglePost, NetPostOne,
           NetReply, NetEndTick, Ws, WsRead, WsSend, WsDrained, WsMessage, WsEndTick,
           Render, RenderEndTick, House, HouseDue, HouseRead, HouseErase, HouseWrite,
           HouseClear, HouseEndTick, Ripen, vars

(* eventPost "always succeeds", whatever the ws task does between its      *)
(* three calls: there is one poster, so room made stays made.              *)
THEOREM EventAlwaysLandsCorrect == Spec => []EventAlwaysLands
  <1>1. Init => EventAlwaysLands
    BY DEF Init, EventAlwaysLands
  <1> QED
    BY <1>1, LandsStep, TypeCorrect, PTL DEF Spec

(* The balance of what was posted, what arrived and what is on its way     *)
(* never owes more than the counter says.                                  *)
LEMMA LossStep ==
    ASSUME TypeOK, EventAlwaysLands, EachLossIsCounted, [Next]_vars
    PROVE  EachLossIsCounted'
  <1> USE DEF EachLossIsCounted, Lost
  <1>0. /\ events \in Seq(Event) /\ Len(events) \in Nat
        /\ unheard \in Int /\ eventsDropped \in Nat
    BY DEF TypeOK
  <1>1. CASE RenderNotify
    <2>1. CASE Len(events) < EventDepth
      <3>1. /\ Len(events') = Len(events) + 1 /\ unheard' = unheard + 1
            /\ eventsDropped' = eventsDropped /\ rPc = "notify" /\ rPc' = "idle"
        BY <1>0, <1>1, <2>1 DEF RenderNotify
      <3> QED
        BY <1>0, <3>1
    <2>2. CASE ~(Len(events) < EventDepth)
      BY <1>0, <1>1, <2>2 DEF RenderNotify
    <2> QED
      BY <2>1, <2>2
  <1>2. CASE RenderEvict
    <2>1. /\ unheard' = unheard /\ eventsDropped' = eventsDropped
          /\ rPc = "evict" /\ rPc' = "resend" /\ Len(events') \in Nat
          /\ Len(events') = Len(events) \/ Len(events') = Len(events) - 1
      BY <1>0, <1>2 DEF RenderEvict, RoomMade
    <2> QED
      BY <1>0, <2>1
  <1>3. CASE RenderResend
    <2>1. /\ unheard' = unheard /\ eventsDropped' = eventsDropped + 1
          /\ rPc = "resend" /\ rPc' = "idle" /\ Len(events') = Len(events) + 1
      BY <1>0, <1>3 DEF RenderResend, DropCounted, EventAlwaysLands
    <2> QED
      BY <1>0, <2>1
  <1>4. CASE WsTake
    <2>1. /\ unheard' = unheard - 1 /\ eventsDropped' = eventsDropped
          /\ rPc' = rPc /\ Len(events') = Len(events) - 1
      BY <1>0, <1>4 DEF WsTake
    <2> QED
      BY <1>0, <2>1
  <1>5. CASE PowerCut
    BY <1>5 DEF PowerCut
  <1>6. CASE RenderTake \/ RenderApply \/ RenderMark
    BY <1>6 DEF RenderTake, RenderApply, RenderMark
  <1>7. ASSUME UNCHANGED <<rPc, events, eventsDropped, unheard>>
        PROVE  EachLossIsCounted'
    BY <1>7
  <1> QED
    BY <1>1, <1>2, <1>3, <1>4, <1>5, <1>6, <1>7
       DEF Next, Net, SettingsPost, SetActiveApp, SetLed, SinglePost, NetPostOne,
           NetReply, NetEndTick, Ws, WsRead, WsSend, WsDrained, WsMessage, WsEndTick,
           Render, RenderEndTick, House, HouseDue, HouseRead, HouseErase, HouseWrite,
           HouseClear, HouseEndTick, Ripen, vars

(* The counter of dropped events is never behind the events that were      *)
(* lost, whatever the depth of the queue and however many there are.       *)
THEOREM EachLossIsCountedCorrect == Spec => []EachLossIsCounted
  <1>1. Init => EachLossIsCounted
    BY DEF Init, EachLossIsCounted, Lost
  <1> QED
    BY <1>1, LossStep, TypeCorrect, EventAlwaysLandsCorrect, PTL DEF Spec

------------------------------------------------------------------------------
(***************************************************************************)
(* Settings nobody touched, on a board whose save replaces the blob.  What *)
(* the snapshot holds of them must be current too, since it is written.    *)
(***************************************************************************)
SnapSafe == \A k \in DOMAIN snap : Untouched(k) => snap[k] = cell[k]

LEMMA UntouchedStep ==
    ASSUME AtomicBlob, TypeOK, UntouchedIsSafe, SnapSafe, [Next]_vars
    PROVE  UntouchedIsSafe' /\ SnapSafe'
  <1> USE DEF UntouchedIsSafe, SnapSafe
  <1>0. DOMAIN snap \subseteq Keys /\ applied \in Seq(Command)
    BY DEF TypeOK, Body
  <1>1. CASE RenderApply
    <2>1. \A k \in Keys : Untouched(k)' => Untouched(k) /\ cmd.cell # k
      <3> SUFFICES ASSUME NEW k \in Keys, Untouched(k)'
                   PROVE  Untouched(k) /\ cmd.cell # k
        OBVIOUS
      <3>1. /\ applied' = Append(applied, cmd)
            /\ \A i \in DOMAIN applied : i \in DOMAIN applied' /\ applied'[i] = applied[i]
            /\ Len(applied) + 1 \in DOMAIN applied' /\ applied'[Len(applied) + 1] = cmd
        BY <1>0, <1>1 DEF RenderApply, TypeOK
      <3> QED
        BY <3>1 DEF Untouched
    <2>2. \A k \in Keys : cmd.cell # k => cell'[k] = cell[k]
      BY <1>1 DEF RenderApply, TypeOK, Cells
    <2> QED
      BY <1>0, <1>1, <2>1, <2>2 DEF RenderApply
  <1>2. CASE HouseDue \/ HouseClear
    BY <1>2, DefaultsType DEF HouseDue, HouseClear, Untouched
  <1>3. CASE HouseRead
    BY <1>0, <1>3 DEF HouseRead, Untouched, Recorded
  <1>4. CASE HouseErase
    BY <1>4 DEF HouseErase
  <1>5. CASE HouseWrite
    BY <1>5 DEF HouseWrite, Recorded, Untouched
  <1>6. CASE PowerCut
    <2>1. \A k \in Keys : stored'[k] = cell'[k]
      BY <1>6, RestoredType DEF PowerCut, TypeOK
    <2> QED
      BY <1>6, <2>1, DefaultsType DEF PowerCut
  <1>7. ASSUME UNCHANGED <<cell, stored, snap, applied>>
        PROVE  UntouchedIsSafe' /\ SnapSafe'
    BY <1>7 DEF Untouched
  <1> QED
    BY <1>1, <1>2, <1>3, <1>4, <1>5, <1>6, <1>7
       DEF Next, Net, SettingsPost, SetActiveApp, SetLed, SinglePost, NetPostOne,
           NetReply, NetEndTick, Ws, WsTake, WsRead, WsSend, WsDrained, WsMessage,
           WsEndTick, Render, RenderTake, RenderMark, RenderNotify, RenderEvict,
           RenderResend, RenderEndTick, House, HouseEndTick, Ripen, vars

(* Where a save replaces the blob, no save, torn or failed, and no power   *)
(* cut ever costs a setting that was not being changed.                    *)
THEOREM UntouchedCorrect == AtomicBlob /\ Spec => []UntouchedIsSafe
  <1> SUFFICES ASSUME AtomicBlob PROVE Spec => []UntouchedIsSafe
    OBVIOUS
  <1>1. Init => UntouchedIsSafe /\ SnapSafe
    BY DefaultsType, RestoredType DEF Init, UntouchedIsSafe, SnapSafe
  <1>2. TypeOK /\ UntouchedIsSafe /\ SnapSafe /\ [Next]_vars
          => UntouchedIsSafe' /\ SnapSafe'
    BY UntouchedStep
  <1> QED
    BY <1>1, <1>2, TypeCorrect, PTL DEF Spec

------------------------------------------------------------------------------
(***************************************************************************)
(* A request that lands whole, where the net task is the only poster.  The *)
(* room it reserved is still there for the commands it has yet to post:    *)
(* the render task only ever makes more.                                   *)
(***************************************************************************)
Entered == {posted[i] : i \in DOMAIN posted}

RoomIsKept == nPc = "post" => Cardinality(todo) <= QueueDepth - Len(queue)
PartEntered == \A k \in DOMAIN body \ todo : SettingCommand(k) \in Entered

LandsInv == LandsWhole /\ RoomIsKept /\ PartEntered

LEMMA PostEnters ==
    ASSUME TypeOK, NEW c \in Command, Post(c)
    PROVE  /\ Entered \subseteq Entered'
           /\ HasRoom => c \in Entered' /\ Len(queue') = Len(queue) + 1
  <1>1. posted \in Seq(Command) /\ queue \in Seq(Command)
    BY DEF TypeOK
  <1>2. CASE HasRoom
    <2>1. posted' = Append(posted, c) /\ queue' = Append(queue, c)
      BY <1>2 DEF Post
    <2>2. /\ \A i \in DOMAIN posted : i \in DOMAIN posted' /\ posted'[i] = posted[i]
          /\ Len(posted) + 1 \in DOMAIN posted' /\ posted'[Len(posted) + 1] = c
      BY <1>1, <2>1
    <2> QED
      BY <1>1, <2>1, <2>2 DEF Entered
  <1>3. CASE ~HasRoom
    BY <1>3 DEF Post, Entered
  <1> QED
    BY <1>2, <1>3

LEMMA BodyFinite ==
    ASSUME TypeOK
    PROVE  /\ IsFiniteSet(todo) /\ Cardinality(todo) \in Nat
           /\ \A b \in Body : IsFiniteSet(DOMAIN b) /\ Cardinality(DOMAIN b) \in Nat
  <1>1. IsFiniteSet(Keys)
    BY FS_Interval DEF Keys
  <1>2. \A S \in SUBSET Keys : IsFiniteSet(S) /\ Cardinality(S) \in Nat
    BY <1>1, FS_Subset, FS_CardinalityType
  <1>3. todo \in SUBSET Keys /\ \A b \in Body : DOMAIN b \in SUBSET Keys
    BY DEF TypeOK, Body
  <1> QED
    BY <1>2, <1>3

LEMMA LandsWholeStep ==
    ASSUME ~HasWebSocket, TypeOK, LandsInv, [Next]_vars
    PROVE  LandsInv'
  <1> USE DEF LandsInv
  <1>w. LandsWhole <=> promised \subseteq Entered
    BY DEF LandsWhole, Entered
  <1>v. LandsWhole' <=> promised' \subseteq Entered'
    BY DEF LandsWhole, Entered
  <1>q. queue \in Seq(Command) /\ Len(queue) \in Nat /\ Len(queue) <= QueueDepth
    BY DEF TypeOK
  <1>1. ASSUME NEW b \in Body, SettingsPost(b) PROVE LandsInv'
    <2>1. UNCHANGED <<queue, posted, promised>>
      BY <1>1 DEF SettingsPost
    <2>2. LandsWhole'
      BY <2>1 DEF LandsWhole
    <2>3. CASE UNCHANGED net
      BY <2>1, <2>2, <2>3 DEF RoomIsKept, PartEntered, SettingCommand, Entered
    <2>4. CASE Reserved(b) /\ body' = b /\ todo' = DOMAIN b
      BY <2>1, <2>2, <2>4 DEF RoomIsKept, PartEntered, Reserved
    <2> QED
      BY <1>1, <2>3, <2>4 DEF SettingsPost
  <1>2. ASSUME NEW c \in Command, SinglePost(c) PROVE LandsInv'
    <2>1. Entered \subseteq Entered' /\ (HasRoom => c \in Entered')
      BY <1>2, PostEnters DEF SinglePost
    <2>2. LandsWhole'
      BY <1>2, <1>w, <1>v, <2>1 DEF SinglePost
    <2>3. nPc' = "idle" /\ UNCHANGED <<body, todo, nReq>>
      BY <1>2 DEF SinglePost
    <2> QED
      BY <2>1, <2>2, <2>3 DEF RoomIsKept, PartEntered, SettingCommand
  <1>3. ASSUME NEW v \in Valid, SetActiveApp(v) \/ SetLed(v) PROVE LandsInv'
    BY <1>2, <1>3 DEF SetActiveApp, SetLed, Command, Cells, TypeOK
  <1>4. CASE NetPostOne
    <2>1. PICK k \in todo : Post(SettingCommand(k)) /\ todo' = todo \ {k}
      BY <1>4 DEF NetPostOne
    <2>2. SettingCommand(k) \in Command
      BY DEF SettingCommand, Command, TypeOK, Body, Cells
    <2>3. Cardinality(todo \ {k}) = Cardinality(todo) - 1 /\ Cardinality(todo) >= 1
      BY BodyFinite, FS_RemoveElement, FS_EmptySet
    <2>4. nPc = "post" /\ UNCHANGED <<nPc, body, nReq, promised>>
      BY <1>4 DEF NetPostOne
    <2>5. HasRoom
      BY <1>q, <2>3, <2>4, BodyFinite DEF RoomIsKept, HasRoom
    <2>6. /\ Entered \subseteq Entered' /\ SettingCommand(k) \in Entered'
          /\ Len(queue') = Len(queue) + 1
      BY <2>1, <2>2, <2>5, PostEnters
    <2>7. LandsWhole'
      BY <1>w, <1>v, <2>4, <2>6
    <2>8. RoomIsKept'
      BY <1>q, <2>1, <2>3, <2>4, <2>6, BodyFinite DEF RoomIsKept
    <2>9. PartEntered'
      BY <2>1, <2>4, <2>6 DEF PartEntered, SettingCommand
    <2> QED
      BY <2>7, <2>8, <2>9
  <1>5. CASE NetReply
    <2>1. todo = {} /\ UNCHANGED posted /\ nPc' = "idle" /\ body' = Nothing
      BY <1>5 DEF NetReply
    <2>2. Entered' = Entered
      BY <2>1 DEF Entered
    <2>3. promised' = promised \cup {SettingCommand(k) : k \in DOMAIN body}
      BY <1>5 DEF NetReply
    <2>4. promised' \subseteq Entered'
      BY <1>w, <2>1, <2>2, <2>3 DEF PartEntered
    <2> QED
      BY <1>v, <2>1, <2>4, DefaultsType DEF RoomIsKept, PartEntered
  <1>6. CASE RenderTake
    <2>1. Len(queue') <= Len(queue) /\ Len(queue') \in Nat
      BY <1>q, <1>6 DEF RenderTake
    <2>2. UNCHANGED <<posted, promised, net>>
      BY <1>6 DEF RenderTake
    <2>3. RoomIsKept'
      BY <1>q, <2>1, <2>2, BodyFinite DEF RoomIsKept
    <2> QED
      BY <2>2, <2>3 DEF LandsWhole, PartEntered, SettingCommand, Entered
  <1>7. CASE PowerCut
    BY <1>7, DefaultsType DEF PowerCut, LandsWhole, RoomIsKept, PartEntered
  <1>8. ASSUME UNCHANGED <<queue, posted, promised, net>> PROVE LandsInv'
    BY <1>8 DEF LandsWhole, RoomIsKept, PartEntered, SettingCommand, Entered
  <1>9. \A k \in Keys, v \in Values : ~WsMessage(k, v)
    BY DEF WsMessage
  <1> QED
    BY <1>1, <1>3, <1>4, <1>5, <1>6, <1>7, <1>8, <1>9
       DEF Next, Net, NetEndTick, Ws, WsTake, WsRead, WsSend, WsDrained, WsEndTick,
           Render, RenderApply, RenderMark, RenderNotify, RenderEvict, RenderResend,
           RenderEndTick, House, HouseDue, HouseRead, HouseErase, HouseWrite,
           HouseClear, HouseEndTick, Ripen, vars

(* Without a second poster a settings request lands whole or is refused    *)
(* whole, on either board and however fast the queue is drained.           *)
THEOREM LandsWholeCorrect == ~HasWebSocket /\ Spec => []LandsWhole
  <1> SUFFICES ASSUME ~HasWebSocket PROVE Spec => []LandsWhole
    OBVIOUS
  <1>1. Init => LandsInv
    BY DefaultsType DEF Init, LandsInv, LandsWhole, RoomIsKept, PartEntered
  <1>2. TypeOK /\ LandsInv /\ [Next]_vars => LandsInv'
    BY LandsWholeStep
  <1>3. LandsInv => LandsWhole
    BY DEF LandsInv
  <1> QED
    BY <1>1, <1>2, <1>3, TypeCorrect, PTL DEF Spec

------------------------------------------------------------------------------
(***************************************************************************)
(* Nothing unsaved without a write ahead of it, where the ticks take turns *)
(* and writes do not fail.  The turn is what the argument hangs on: while  *)
(* a save is under way nothing can be applied, so what is written is what  *)
(* is in force when the timer is cleared.                                  *)
(***************************************************************************)
SaveInv ==
    /\ rPc # "idle" => turn = "render"
    /\ hPc # "idle" => turn = "housekeep" /\ timer = "ripe"
    /\ hPc # "idle" => \A k \in DOMAIN snap : snap[k] = cell[k]
    /\ hPc = "clear" => \A k \in Keys : stored[k] = cell[k]
    /\ DirtyIsPending

LEMMA SaveStep ==
    ASSUME ~Preemptive, ~WriteMayFail, TypeOK, SaveInv, [Next]_vars
    PROVE  SaveInv'
  <1> USE DEF SaveInv, DirtyIsPending, Runs, EndOfTick
  <1>1. CASE Net
    <2>1. turn = "net" /\ UNCHANGED <<rPc, cmd, hPc, snap, timer, cell, stored>>
      BY <1>1 DEF Net, SettingsPost, SetActiveApp, SetLed, SinglePost, NetPostOne,
                  NetReply, NetEndTick
    <2> QED
      BY <2>1
  <1>2. CASE Ws
    <2>1. turn = "ws" /\ UNCHANGED <<rPc, cmd, hPc, snap, timer, cell, stored>>
      BY <1>2 DEF Ws, WsTake, WsRead, WsSend, WsDrained, WsMessage, WsEndTick
    <2> QED
      BY <2>1
  <1>3. CASE RenderApply
    <2>1. \A k \in Keys : cell'[k] # cell[k] => cmd.cell = k /\ rPc' = "mark"
      BY <1>3 DEF RenderApply, TypeOK, Cells
    <2> QED
      BY <1>3, <2>1 DEF RenderApply
  <1>4. CASE RenderMark
    BY <1>4 DEF RenderMark
  <1>5. CASE RenderTake \/ RenderNotify \/ RenderEvict \/ RenderResend \/ RenderEndTick
    BY <1>5 DEF RenderTake, RenderNotify, RenderEvict, RenderResend, RenderEndTick,
                AfterTick
  <1>6. CASE HouseDue
    BY <1>6, DefaultsType DEF HouseDue
  <1>7. CASE HouseRead
    BY <1>7 DEF HouseRead
  <1>8. CASE HouseErase
    BY <1>8 DEF HouseErase
  <1>9. CASE HouseWrite
    BY <1>9 DEF HouseWrite, Recorded
  <1>10. CASE HouseClear
    BY <1>10 DEF HouseClear
  <1>11. CASE HouseEndTick
    BY <1>11 DEF HouseEndTick
  <1>12. CASE Ripen
    BY <1>12 DEF Ripen
  <1>13. CASE PowerCut
    BY <1>13, RestoredType DEF PowerCut, TypeOK
  <1>14. CASE UNCHANGED vars
    BY <1>14 DEF vars
  <1> QED
    BY <1>1, <1>2, <1>3, <1>4, <1>5, <1>6, <1>7, <1>8, <1>9, <1>10, <1>11, <1>12,
       <1>13, <1>14 DEF Next, Render, House

(* On the board whose ticks take turns, and as long as writes succeed, a   *)
(* setting that a reboot would lose always has a write ahead of it.        *)
THEOREM DirtyCorrect == ~Preemptive /\ ~WriteMayFail /\ Spec => []DirtyIsPending
  <1> SUFFICES ASSUME ~Preemptive, ~WriteMayFail PROVE Spec => []DirtyIsPending
    OBVIOUS
  <1>1. Init => SaveInv
    BY DefaultsType, RestoredType DEF Init, SaveInv, DirtyIsPending
  <1>2. TypeOK /\ SaveInv /\ [Next]_vars => SaveInv'
    BY SaveStep
  <1>3. SaveInv => DirtyIsPending
    BY DEF SaveInv
  <1> QED
    BY <1>1, <1>2, <1>3, TypeCorrect, PTL DEF Spec

------------------------------------------------------------------------------
(***************************************************************************)
(* Listeners.  Until something is dropped, a listener that would be left   *)
(* with an outdated value has an event coming for it.  An app switch       *)
(* carries its index, so for it the last such event must carry the         *)
(* current one.                                                            *)
(***************************************************************************)
Counted == eventsDropped > 0 \/ rPc = "resend"

(* What listeners hold of c once the ws task has sent what it has in hand. *)
Held(c) == IF wPc = "send" /\ wEv.cell = c THEN wVal ELSE told[c]

Told(c)    == rPc \in Notifying /\ cmd.cell = c
Waiting(c) == \E i \in DOMAIN events : events[i].cell = c
Coming(c)  == Told(c) \/ Waiting(c) \/ (wPc = "read" /\ wEv.cell = c)

LastSwitch(i) ==
    events[i].cell = Active /\ \A j \in DOMAIN events : j > i => events[j].cell # Active

ComingIfStale == \A c \in Watched : Held(c) # cell[c] => Coming(c)
SwitchInHand  == Told(Active) => cmd.val = cell[Active]
SwitchWaiting == ~Told(Active) =>
    \A i \in DOMAIN events : LastSwitch(i) => events[i].app = cell[Active]
SwitchRead    == ~Told(Active) /\ ~Waiting(Active) /\ wPc = "read" /\ wEv.cell = Active
    => wEv.app = cell[Active]

FreshInv == Counted \/ (ComingIfStale /\ SwitchInHand /\ SwitchWaiting /\ SwitchRead)

LEMMA FreshImplies == TypeOK /\ FreshInv => StaleIsCounted
  <1> SUFFICES ASSUME TypeOK, FreshInv, ~Counted, NEW c \in Watched,
                      told[c] # cell[c], ~NewsOf(c)
               PROVE  FALSE
    BY DEF StaleIsCounted, Counted
  <1>1. ~Coming(c)
    BY DEF NewsOf, Coming, Told, Waiting, Notifying
  <1>2. Held(c) # cell[c]
    BY DEF NewsOf, Held
  <1> QED
    BY <1>1, <1>2 DEF FreshInv, ComingIfStale

LEMMA CountedStep ==
    ASSUME TypeOK, Counted, [Next]_vars, ~PowerCut
    PROVE  Counted'
  <1> USE DEF Counted
  <1>1. CASE RenderResend
    BY <1>1 DEF RenderResend, DropCounted, TypeOK
  <1>2. CASE Net \/ Ws \/ House \/ Ripen \/ RenderEndTick \/ UNCHANGED vars
    BY <1>2 DEF Net, SettingsPost, SetActiveApp, SetLed, SinglePost, NetPostOne,
           NetReply, NetEndTick, Ws, WsTake, WsRead, WsSend, WsDrained, WsMessage,
           WsEndTick, RenderEndTick, House, HouseDue, HouseRead, HouseErase,
           HouseWrite, HouseClear, HouseEndTick, Ripen, vars
  <1>3. CASE RenderTake \/ RenderApply \/ RenderMark \/ RenderNotify \/ RenderEvict
    BY <1>3 DEF RenderTake, RenderApply, RenderMark, RenderNotify, RenderEvict
  <1> QED
    BY <1>1, <1>2, <1>3 DEF Next, Render

LEMMA FreshStep ==
    ASSUME TypeOK, FreshInv, [Next]_vars
    PROVE  FreshInv'
  <1> USE DEF FreshInv, ComingIfStale, SwitchInHand, SwitchWaiting, SwitchRead
  <1>0. events \in Seq(Event) /\ Active \notin Keys
    BY DEF TypeOK
  <1>1. CASE PowerCut
    <2>1. \A c \in Watched : told'[c] = cell'[c]
      BY <1>1 DEF PowerCut, Restored, Watched, Cells
    <2>2. wPc' = "events" /\ rPc' = "idle" /\ events' = <<>>
      BY <1>1 DEF PowerCut
    <2> QED
      BY <2>1, <2>2 DEF Held, Told, Notifying
  <1>2. CASE Counted /\ ~PowerCut
    BY <1>2, CountedStep
  <1> SUFFICES ASSUME ~Counted, ~PowerCut PROVE FreshInv'
    BY <1>1, <1>2
  <1>3. ASSUME UNCHANGED <<rPc, cmd, cell, events, wPc, wEv, wVal, told>>
        PROVE  FreshInv'
    BY <1>3 DEF Held, Coming, Told, Waiting, LastSwitch
  <1>4. CASE RenderTake
    BY <1>4 DEF RenderTake, Held, Coming, Told, Waiting, LastSwitch, Notifying
  <1>5. CASE RenderApply
    <2>1. UNCHANGED <<cmd, events, wPc, wEv, wVal, told>> /\ rPc = "apply"
      BY <1>5 DEF RenderApply
    <2>2. \A c \in Watched : \/ cell'[c] = cell[c]
                             \/ Told(c)' /\ cell'[c] = cmd.val
      BY <1>5 DEF RenderApply, TypeOK, Told, Notifying, Cells, Watched
    <2>3. Told(Active)' => cmd.val = cell'[Active]
      BY <1>5 DEF RenderApply, TypeOK, Told, Notifying, Cells
    <2>4. Active \in Watched /\ \A c \in Watched : ~Told(c)
      BY <2>1 DEF Watched, Told, Notifying
    <2> QED
      BY <2>1, <2>2, <2>3, <2>4 DEF Held, Coming, Waiting, LastSwitch
  <1>6. CASE RenderMark
    BY <1>6 DEF RenderMark, Held, Coming, Told, Waiting, LastSwitch, Notifying
  <1>7. CASE RenderNotify
    <2>1. CASE Len(events) < EventDepth
      <3>1. /\ events' = Append(events, TheEvent) /\ rPc = "notify" /\ rPc' = "idle"
            /\ UNCHANGED <<cmd, cell, wPc, wEv, wVal, told>>
        BY <1>7, <2>1 DEF RenderNotify
      <3>2. /\ \A i \in DOMAIN events : i \in DOMAIN events' /\ events'[i] = events[i]
            /\ \A i \in DOMAIN events' : i \in DOMAIN events \/ i = Len(events) + 1
            /\ Len(events) + 1 \in DOMAIN events' /\ events'[Len(events) + 1] = TheEvent
            /\ \A i \in DOMAIN events : Len(events) + 1 > i
        BY <1>0, <3>1 DEF TypeOK
      <3>3. ~Told(Active)' /\ (Told(Active) <=> cmd.cell = Active)
        BY <3>1 DEF Told, Notifying
      <3>4. ComingIfStale'
        BY <3>1, <3>2 DEF Held, Coming, Told, Waiting, TheEvent
      <3>5. SwitchWaiting'
        <4>1. CASE cmd.cell = Active
          BY <3>1, <3>2, <3>3, <4>1 DEF LastSwitch, TheEvent
        <4>2. CASE cmd.cell # Active
          BY <3>1, <3>2, <3>3, <4>2 DEF LastSwitch, TheEvent
        <4> QED
          BY <4>1, <4>2
      <3>6. SwitchRead'
        BY <3>1, <3>2, <3>3 DEF Waiting, TheEvent
      <3> QED
        BY <3>3, <3>4, <3>5, <3>6
    <2>2. CASE ~(Len(events) < EventDepth)
      BY <1>7, <2>2 DEF RenderNotify, Held, Coming, Told, Waiting, LastSwitch, Notifying
    <2> QED
      BY <2>1, <2>2
  <1>8. CASE RenderEvict \/ RenderResend
    BY <1>8 DEF RenderEvict, RenderResend, Counted
  <1>9. CASE WsTake
    <2>1. /\ events # <<>> /\ wPc = "events" /\ wPc' = "read"
          /\ wEv' = Head(events) /\ events' = Tail(events)
          /\ UNCHANGED <<rPc, cmd, cell, wVal, told>>
      BY <1>9 DEF WsTake
    <2>2. /\ Head(events) = events[1] /\ 1 \in DOMAIN events
          /\ \A i \in DOMAIN events' : i + 1 \in DOMAIN events /\ events'[i] = events[i + 1]
          /\ \A i \in DOMAIN events : i = 1 \/ i - 1 \in DOMAIN events'
          /\ \A i \in DOMAIN events : i \in Nat /\ i >= 1
          /\ \A i \in DOMAIN events' : i \in Nat /\ i >= 1
      BY <1>0, <2>1
    <2>3. \A c \in Watched : Waiting(c) => Waiting(c)' \/ wEv'.cell = c
      <3> SUFFICES ASSUME NEW c \in Watched, NEW i \in DOMAIN events, events[i].cell = c
                   PROVE  Waiting(c)' \/ wEv'.cell = c
        BY DEF Waiting
      <3>1. CASE i = 1
        BY <2>1, <2>2, <3>1
      <3>2. CASE i # 1
        <4>1. i - 1 \in DOMAIN events' /\ events'[i - 1] = events[(i - 1) + 1] /\ (i - 1) + 1 = i
          BY <2>2, <3>2
        <4> QED
          BY <4>1 DEF Waiting
      <3> QED
        BY <3>1, <3>2
    <2>4. ComingIfStale'
      BY <2>1, <2>3 DEF Held, Coming, Told
    <2>5. SwitchInHand'
      BY <2>1 DEF Told
    <2>6. \A i \in DOMAIN events' : LastSwitch(i)' => LastSwitch(i + 1)
      <3> SUFFICES ASSUME NEW i \in DOMAIN events', LastSwitch(i)',
                          NEW j \in DOMAIN events, j > i + 1
                   PROVE  events[j].cell # Active
        BY <2>2 DEF LastSwitch
      <3>1. j - 1 \in DOMAIN events' /\ j - 1 > i /\ events'[j - 1] = events[(j - 1) + 1]
            /\ (j - 1) + 1 = j
        BY <2>2
      <3> QED
        BY <3>1 DEF LastSwitch
    <2>7. SwitchWaiting'
      BY <2>1, <2>2, <2>6 DEF Told
    <2>8. SwitchRead'
      <3> SUFFICES ASSUME ~Told(Active), ~Waiting(Active)', wEv'.cell = Active
                   PROVE  wEv'.app = cell[Active]
        BY <2>1 DEF Told
      <3>1. ASSUME NEW j \in DOMAIN events, j > 1 PROVE events[j].cell # Active
        <4>1. j - 1 \in DOMAIN events' /\ events'[j - 1] = events[(j - 1) + 1] /\ (j - 1) + 1 = j
          BY <2>2, <3>1
        <4> QED
          BY <4>1 DEF Waiting
      <3>2. LastSwitch(1)
        BY <2>1, <2>2, <3>1 DEF LastSwitch
      <3> QED
        BY <2>1, <2>2, <3>2
    <2> QED
      BY <2>4, <2>5, <2>7, <2>8
  <1>10. CASE WsRead
    <2>1. /\ wPc = "read" /\ wPc' = "send"
          /\ wVal' = IF wEv.cell = Active THEN wEv.app ELSE cell[wEv.cell]
          /\ UNCHANGED <<rPc, cmd, cell, events, wEv, told>>
      BY <1>10 DEF WsRead
    <2>2. ComingIfStale'
      BY <2>1 DEF Held, Coming, Told, Waiting
    <2> QED
      BY <2>1, <2>2 DEF Told, Waiting, LastSwitch
  <1>11. CASE WsSend
    <2>1. /\ wPc = "send" /\ wPc' = "events"
          /\ told' = [told EXCEPT ![wEv.cell] = wVal]
          /\ UNCHANGED <<rPc, cmd, cell, events>>
      BY <1>11 DEF WsSend
    <2>2. \A c \in Watched : Held(c)' = Held(c)
      BY <2>1 DEF Held, TypeOK
    <2> QED
      BY <2>1, <2>2 DEF Coming, Told, Waiting, LastSwitch
  <1>12. CASE WsDrained \/ WsEndTick
    BY <1>12 DEF WsDrained, WsEndTick, Held, Coming, Told, Waiting, LastSwitch
  <1> QED
    BY <1>3, <1>4, <1>5, <1>6, <1>7, <1>8, <1>9, <1>10, <1>11, <1>12
       DEF Next, Net, SettingsPost, SetActiveApp, SetLed, SinglePost, NetPostOne,
           NetReply, NetEndTick, Ws, WsMessage, Render, RenderEndTick, House,
           HouseDue, HouseRead, HouseErase, HouseWrite, HouseClear, HouseEndTick,
           Ripen, vars

(* Losing sight of a change is never silent: a listener is left with an    *)
(* outdated value only after an event was dropped and counted.             *)
THEOREM StaleIsCountedCorrect == Spec => []StaleIsCounted
  <1>1. Init => FreshInv
    <2> SUFFICES ASSUME Init PROVE ComingIfStale /\ SwitchInHand /\ SwitchWaiting /\ SwitchRead
      BY DEF FreshInv
    <2>1. \A c \in Watched : told[c] = cell[c]
      BY DEF Init, Restored, Defaults, Watched, Cells
    <2>2. wPc = "events" /\ rPc = "idle" /\ events = <<>>
      BY DEF Init
    <2> QED
      BY <2>1, <2>2 DEF ComingIfStale, SwitchInHand, SwitchWaiting, SwitchRead, Held,
                        Told, Notifying
  <1> QED
    BY <1>1, FreshStep, FreshImplies, TypeCorrect, PTL DEF Spec

-------------------------------------------------------------------------------
(* Whatever the scheduling, a command that was accepted is applied once,   *)
(* in its turn, and never refused.                                         *)
THEOREM CommandsArriveCorrect == Spec => []CommandsArrive
  <1>1. FifoExactlyOnce /\ NeverRefused => CommandsArrive
    BY DEF CommandsArrive
  <1> QED
    BY <1>1, FifoCorrect, NeverRefusedCorrect, PTL

(* No event is lost without being counted, and whoever was left outdated   *)
(* can be seen in the count.                                               *)
THEOREM EventsAreCountedCorrect == Spec => []EventsAreCounted
  <1>1. EachLossIsCounted /\ StaleIsCounted /\ EventAlwaysLands => EventsAreCounted
    BY DEF EventsAreCounted
  <1> QED
    BY <1>1, EachLossIsCountedCorrect, StaleIsCountedCorrect, EventAlwaysLandsCorrect, PTL
=============================================================================
