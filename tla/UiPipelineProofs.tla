-------------------------- MODULE UiPipelineProofs --------------------------
(***************************************************************************)
(* The user interface's invariants, and that it implements ScreenFeed, for *)
(* every queue length and every set of texts and screens.  That every      *)
(* screen is lit in the end is liveness, and TLC's.                        *)
(***************************************************************************)
EXTENDS UiPipeline, SequenceTheorems, TLAPS

\* The part of FeedImplemented that is safety.
FeedSteps == Feed!FeedInit /\ [][Feed!Ask \/ Feed!Show \/ Feed!Light]_(Feed!feedVars)

USE DEF Text, State, Screen, Feed!State, Feed!Screen, Feed!Textual, Feed!Nothing

LEMMA UiInit == Init => UiInv
<1> SUFFICES ASSUME Init PROVE UiInv
  OBVIOUS
<1> USE DEF Init, NoTree, Tree
<1>1. queue \in Seq(Screen) /\ Len(queue) <= Depth
  BY UiAssumption
<1>2. TypeOK
  BY <1>1 DEF TypeOK, Resource, MainPc
<1>3. StartInv /\ WidgetInv /\ LitInv
  BY DEF StartInv, WidgetInv, LitInv, Shown, Resource
<1> QED BY <1>2, <1>3 DEF UiInv

\* The caller's steps before it asks for screens.
LEMMA StartStep ==
  ASSUME UiInv, Acquire \/ AcquireFails \/ create_task \/ composer_init \/ cmder_init \/ Reboot
  PROVE  UiInv'
<1> USE DEF UiInv, TypeOK, StartInv, WidgetInv, LitInv, Resource, MainPc, Shown,
            mainVars, uiVars, drawVars
<1>1. CASE Acquire
  BY <1>1 DEF Acquire, Following, Fits
<1>2. CASE AcquireFails
  BY <1>2 DEF AcquireFails, deinit, Fits
<1>3. CASE create_task
  BY <1>3 DEF create_task, Fits
<1>4. CASE composer_init
  BY <1>4, UiAssumption DEF composer_init, Tree
<1>5. CASE cmder_init
  BY <1>5 DEF cmder_init, Fits
<1>6. CASE Reboot
  BY <1>6 DEF Reboot, Fits
<1> QED BY <1>1, <1>2, <1>3, <1>4, <1>5, <1>6

LEMMA AskStep ==
  ASSUME UiInv,
         display_plain \/ display_text \/ display_error \/ display_anything \/ xQueueSend
  PROVE  UiInv'
<1> USE DEF UiInv, TypeOK, StartInv, WidgetInv, LitInv, Resource, MainPc, Shown, Fits,
            mainVars, uiVars, drawVars
<1>1. ASSUME NEW s \in Screen, Send(s) PROVE UiInv'
  BY <1>1 DEF Send
<1>2. CASE display_plain \/ display_text \/ display_error \/ display_anything
  BY <1>1, <1>2, UiAssumption
  DEF display_plain, display_text, display_error, display_anything, Send
<1>3. CASE xQueueSend
  BY <1>3, UiAssumption DEF xQueueSend, Vacant
<1> QED BY <1>2, <1>3

LEMMA UiStep ==
  ASSUME UiInv, UiNext PROVE UiInv'
<1> USE DEF UiInv, TypeOK, StartInv, Resource, MainPc, mainVars, uiVars, drawVars
<1>1. CASE xQueueReceive
  <2>1. item' \in Screen /\ queue' \in Seq(Screen) /\ Len(queue') <= Depth
    <3>1. queue \in Seq(Screen) /\ queue # <<>> /\ Len(queue) \in Nat /\ Len(queue) <= Depth
      BY <1>1 DEF xQueueReceive
    <3> HIDE DEF Screen, UiInv, TypeOK, StartInv
    <3>2. /\ Head(queue) \in Screen /\ Tail(queue) \in Seq(Screen)
          /\ Len(Tail(queue)) = Len(queue) - 1
      BY <3>1, HeadTailProperties
    <3> QED BY <1>1, <3>1, <3>2, UiAssumption DEF xQueueReceive
  <2>2. TypeOK'
    BY <1>1, <2>1 DEF xQueueReceive
  <2>3. StartInv' /\ WidgetInv' /\ LitInv'
    BY <1>1 DEF xQueueReceive, WidgetInv, LitInv, Shown, Fits
  <2> QED BY <2>2, <2>3
<1>2. CASE wait_and_draw
  <2> DEFINE Widgets == [bottom : {"none", "label", "qrcode"}, comment : {"none", "label"},
                         title : State, text : Text]
  <2>0. Canvas \in Widgets
    BY DEF Canvas, Recreated, Tree
  <2>a. widgets' \in Widgets
    <3>1. item.state \in State /\ item.text \in Text /\ widgets \in Widgets
      OBVIOUS
    <3>2. CASE item.state = "EMPTY"
      BY <1>2, <3>1, <3>2 DEF wait_and_draw
    <3>3. CASE item.state # "EMPTY"
      <4>1. \A w \in Widgets, t \in State, x \in Text :
              [w EXCEPT !.title = t, !.text = x] \in Widgets
        OBVIOUS
      <4>2. Canvas.text \in Text
        BY <2>0
      <4>3. PICK x \in Text : widgets' = [Canvas EXCEPT !.title = item.state, !.text = x]
        <5>1. CASE item.state \in Feed!Textual
          BY <1>2, <3>1, <3>3, <5>1 DEF wait_and_draw
        <5>2. CASE item.state \notin Feed!Textual
          BY <1>2, <3>3, <4>2, <5>2 DEF wait_and_draw
        <5> QED BY <5>1, <5>2
      <4> HIDE DEF State, Text, Widgets, UiInv
      <4> QED BY <2>0, <3>1, <4>1, <4>3
    <3> QED BY <3>2, <3>3
  <2>1. TypeOK'
    <3>1. curr_state' \in State /\ dirty' \in BOOLEAN
      BY <1>2, Zenon DEF wait_and_draw
    <3>2. item' \in Screen
      BY <1>2 DEF wait_and_draw
    <3>3. ui_pc' = "handle" /\ UNCHANGED <<main_pc, held, msg, queue, due, lit>>
      BY <1>2 DEF wait_and_draw
    <3> QED BY <2>a, <3>1, <3>2, <3>3
  <2>2. StartInv'
    BY <1>2 DEF wait_and_draw
  <2>3. WidgetInv'
    <3>1. CASE item.state = "EMPTY"
      <4>1. UNCHANGED <<curr_state, widgets>>
        BY <1>2, <3>1 DEF wait_and_draw
      <4> QED BY <4>1 DEF WidgetInv, Fits
    <3>2. CASE item.state # "EMPTY"
      <4> DEFINE c == Canvas
      <4>1. c \in Widgets /\ Fits(item.state, c)
        BY <2>0, <3>2 DEF Canvas, Recreated, Tree, Fits, WidgetInv
      <4>2. item.state \notin Feed!Textual => c.text = NoText
        BY <3>2 DEF Canvas, Recreated, Tree, WidgetInv
      <4>3. /\ curr_state' = item.state
            /\ widgets' = [c EXCEPT !.title = item.state,
                             !.text = IF item.state \in Feed!Textual THEN item.text ELSE @]
        BY <1>2, <3>2 DEF wait_and_draw
      <4> HIDE DEF c, UiInv, TypeOK, StartInv, State, Text
      <4>4. /\ widgets'.title = item.state
            /\ widgets'.bottom = c.bottom /\ widgets'.comment = c.comment
            /\ item.state \notin Feed!Textual => widgets'.text = c.text
        BY <4>1, <4>3
      <4>5. Fits(item.state, widgets')
        BY <4>1, <4>4 DEF Fits
      <4> QED BY <4>2, <4>3, <4>4, <4>5 DEF WidgetInv, Fits
    <3> QED BY <3>1, <3>2
  <2>4. LitInv'
    BY <1>2 DEF wait_and_draw, LitInv, Shown
  <2> QED BY <2>1, <2>2, <2>3, <2>4
<1>3. CASE lv_task_handler
  <2>1. dirty' \in BOOLEAN /\ due' \in BOOLEAN
    BY <1>3, Zenon DEF lv_task_handler
  <2>2. lit' \in [state : State, text : Text]
    BY <1>3 DEF lv_task_handler, Shown
  <2>3. UNCHANGED <<main_pc, held, msg, queue, item, curr_state, widgets>>
    BY <1>3 DEF lv_task_handler
  <2>4. ui_pc = "handle" /\ ui_pc' = "wait"
    BY <1>3 DEF lv_task_handler
  <2>5. TypeOK'
    BY <2>1, <2>2, <2>3, <2>4
  <2>6. StartInv' /\ WidgetInv'
    BY <2>3, <2>4 DEF WidgetInv, Fits
  <2>7. LitInv'
    BY <1>3, <2>3, <2>4 DEF lv_task_handler, LitInv, Shown
  <2> QED BY <2>5, <2>6, <2>7
<1> QED BY <1>1, <1>2, <1>3 DEF UiNext

LEMMA UiInvNext == UiInv /\ [Next]_vars => UiInv'
<1> SUFFICES ASSUME UiInv, [Next]_vars PROVE UiInv'
  OBVIOUS
<1>1. CASE MainNext
  BY <1>1, StartStep, AskStep DEF MainNext
<1>2. CASE UiNext
  BY <1>2, UiStep
<1>3. CASE lv_tick_cb
  BY <1>3 DEF lv_tick_cb, UiInv, TypeOK, StartInv, WidgetInv, LitInv, Shown, Fits,
    mainVars, uiVars, drawVars
<1>4. CASE UNCHANGED vars
  BY <1>4 DEF vars, UiInv, TypeOK, StartInv, WidgetInv, LitInv, Shown, Fits,
    mainVars, uiVars, drawVars
<1> QED BY <1>1, <1>2, <1>3, <1>4 DEF Next

THEOREM UiInvariance == Spec => []UiInv
BY UiInit, UiInvNext, PTL DEF Spec

\* Types: the queue never holds more than its length (ui_commander.cpp's sends).
THEOREM UiTypeCorrect == Spec => []TypeOK
<1>1. UiInv => TypeOK
  BY DEF UiInv
<1> QED BY <1>1, UiInvariance, PTL

\* The composer's first widgets are built while the UI task is in no LVGL call
\* (display_manager.cpp:73-80).
THEOREM LvglIsExclusive == Spec => []OneInLvgl
<1>1. UiInv => OneInLvgl
  BY DEF UiInv, StartInv, OneInLvgl
<1> QED BY <1>1, UiInvariance, PTL

\* A draw_ function of ui_composer_114 writes only to widgets that are there.
THEOREM WidgetsAlwaysFit == Spec => []WidgetsFit
<1>1. UiInv => WidgetsFit
  BY DEF UiInv, TypeOK, WidgetInv, WidgetsFit, Canvas, Recreated, Tree, Fits
<1> QED BY <1>1, UiInvariance, PTL

-----------------------------------------------------------------------------
(* The screens are fed as ScreenFeed says *)

USE DEF Feed!Seen, Feed!feedVars

LEMMA FeedStart == Init => Feed!FeedInit
BY DEF Init, NoTree, Tree, Shown, Feed!FeedInit

\* What is waiting to be drawn, as ScreenFeed sees it.
Waiting == IF ui_pc = "draw" THEN <<item>> \o queue ELSE queue

LEMMA SendIsAsk ==
  ASSUME UiInv, xQueueSend PROVE Feed!Ask
<1>1. msg \in Screen /\ queue \in Seq(Screen) /\ item \in Screen /\ Len(queue) < Depth
  BY DEF UiInv, TypeOK, xQueueSend, Vacant
<1>2. Len(Waiting) < Depth + 1 /\ Waiting' = Append(Waiting, msg)
  BY <1>1, UiAssumption DEF xQueueSend, Waiting, uiVars
<1>3. UNCHANGED <<Shown, lit>>
  BY DEF xQueueSend, Shown, drawVars
<1> QED BY <1>1, <1>2, <1>3 DEF Feed!Ask, Waiting

LEMMA ReceiveIsNothing ==
  ASSUME UiInv, xQueueReceive PROVE UNCHANGED Feed!feedVars
<1>1. queue \in Seq(Screen) /\ queue # <<>> /\ ui_pc = "wait" /\ ui_pc' = "draw"
  BY DEF UiInv, TypeOK, xQueueReceive
<1>2. queue = <<Head(queue)>> \o Tail(queue)
  BY <1>1
<1>3. Waiting' = Waiting
  BY <1>1, <1>2 DEF xQueueReceive, Waiting
<1>4. UNCHANGED <<Shown, lit>>
  BY DEF xQueueReceive, Shown, drawVars
<1> QED BY <1>3, <1>4 DEF Waiting

LEMMA DrawIsShow ==
  ASSUME UiInv, wait_and_draw PROVE Feed!Show
<1>1. queue \in Seq(Screen) /\ item \in Screen /\ ui_pc = "draw" /\ ui_pc' = "handle"
  BY DEF UiInv, TypeOK, wait_and_draw
<1>2. /\ Waiting # <<>> /\ Head(Waiting) = item
      /\ Tail(Waiting) = queue /\ Waiting' = queue
  BY <1>1 DEF wait_and_draw, Waiting
<1>3. lit = Shown /\ lit' = lit
  BY <1>1 DEF UiInv, LitInv, wait_and_draw
<1>4. Shown' = IF item.state = "EMPTY" THEN Shown ELSE Feed!Seen(item)
  <2>1. CASE item.state = "EMPTY"
    BY <2>1 DEF wait_and_draw, Shown, drawVars
  <2>2. CASE item.state # "EMPTY"
    BY <1>1, <2>2
    DEF wait_and_draw, Shown, Canvas, Recreated, Tree, UiInv, TypeOK, WidgetInv
  <2> QED BY <2>1, <2>2
<1> QED BY <1>2, <1>3, <1>4 DEF Feed!Show, Waiting

LEMMA HandlerIsLight ==
  ASSUME UiInv, lv_task_handler PROVE Feed!Light \/ UNCHANGED Feed!feedVars
<1>1. Waiting' = Waiting
  BY DEF lv_task_handler, Waiting
<1>2. Shown' = Shown
  BY DEF lv_task_handler, Shown
<1>3. lit' = Shown
  BY DEF lv_task_handler, UiInv, LitInv
<1> QED BY <1>1, <1>2, <1>3 DEF Feed!Light, Waiting

\* Nothing else is seen.
LEMMA OthersAreNothing ==
  ASSUME UiInv, [Next]_vars, ~xQueueSend, ~UiNext
  PROVE  UNCHANGED Feed!feedVars
<1>1. CASE create_task
  BY <1>1 DEF create_task, UiInv, StartInv, Shown, drawVars
<1>2. CASE composer_init
  BY <1>2 DEF composer_init, UiInv, StartInv, WidgetInv, Shown, Tree, uiVars, Feed!Textual
<1>3. CASE Acquire \/ AcquireFails \/ cmder_init \/ Reboot
  BY <1>3 DEF Acquire, AcquireFails, cmder_init, Reboot, Shown, uiVars, drawVars
<1>4. CASE display_plain \/ display_text \/ display_error \/ display_anything
  BY <1>4 DEF display_plain, display_text, display_error, display_anything, Send,
    Shown, uiVars, drawVars
<1>5. CASE lv_tick_cb
  BY <1>5 DEF lv_tick_cb, Shown, uiVars, drawVars
<1>6. CASE UNCHANGED vars
  BY <1>6 DEF vars, Shown, uiVars, drawVars
<1> QED BY <1>1, <1>2, <1>3, <1>4, <1>5, <1>6 DEF Next, MainNext

LEMMA UiStepIsFeed ==
  UiInv /\ [Next]_vars => [Feed!Ask \/ Feed!Show \/ Feed!Light]_(Feed!feedVars)
BY SendIsAsk, ReceiveIsNothing, DrawIsShow, HandlerIsLight, OthersAreNothing
DEF UiNext

\* Screens are shown in the order asked for, none is lost, and none is drawn
\* before the one before it is lit (the loop in lv_ui_task).
THEOREM UiFeedsScreens == Spec => FeedSteps
<1>1. Spec => []UiInv
  BY UiInvariance
<1> QED BY <1>1, FeedStart, UiStepIsFeed, PTL DEF Spec, FeedSteps

-----------------------------------------------------------------------------
(* A call that waits for the queue is served *)

\* The UI task is there, with the queue and the timer, once screens can be asked for.
LEMMA RunStep == TypeOK /\ RunInv /\ [Next]_vars => RunInv'
<1> SUFFICES ASSUME TypeOK, RunInv, [Next]_vars PROVE RunInv'
  OBVIOUS
<1> USE DEF TypeOK, RunInv, MainPc, Resource
<1>1. CASE Acquire
  BY <1>1 DEF Acquire, Following, uiVars
<1>2. CASE AcquireFails
  BY <1>2 DEF AcquireFails
<1>3. CASE create_task
  BY <1>3 DEF create_task
<1>4. CASE composer_init \/ cmder_init
  BY <1>4 DEF composer_init, cmder_init, uiVars
<1>5. CASE Reboot
  BY <1>5 DEF Reboot
<1>6. CASE display_plain \/ display_text \/ display_error \/ display_anything
  <2>1. main_pc = "client" /\ main_pc' = "sending" /\ UNCHANGED <<held, ui_pc>>
    BY <1>6 DEF display_plain, display_text, display_error, display_anything, Send, uiVars
  <2> QED BY <2>1
<1>7. CASE xQueueSend
  BY <1>7 DEF xQueueSend, uiVars
<1>8. CASE UiNext
  BY <1>8 DEF UiNext, xQueueReceive, wait_and_draw, lv_task_handler, mainVars
<1>9. CASE lv_tick_cb \/ UNCHANGED vars
  BY <1>9 DEF lv_tick_cb, vars, mainVars, uiVars
<1> QED BY <1>1, <1>2, <1>3, <1>4, <1>5, <1>6, <1>7, <1>8, <1>9 DEF Next, MainNext

LEMMA RunInvariance == Spec => [](UiInv /\ RunInv)
<1>1. Init => RunInv
  BY DEF Init, RunInv
<1>2. UiInv => TypeOK
  BY DEF UiInv
<1> QED BY <1>1, <1>2, RunStep, UiInvariance, PTL DEF Spec

\* A display_ call that waits for a full queue (ui_commander.cpp's sends, without a
\* timeout) waits for a UI task that can go on: nobody waits on everybody.
THEOREM SendersAreServed == Spec => []SenderIsServed
<1>1. UiInv /\ RunInv => SenderIsServed
  <2> SUFFICES ASSUME UiInv, RunInv, main_pc = "sending", ~Vacant
               PROVE  \/ ui_pc \in {"wait", "draw"} /\ queue # <<>>
                      \/ ui_pc = "handle" /\ (dirty => due)
                      \/ ui_pc = "handle" /\ "ticking" \in held /\ ~due
    BY DEF SenderIsServed
  <2>1. queue # <<>>
    BY UiAssumption DEF UiInv, TypeOK, Vacant
  <2>2. ui_pc \in {"wait", "draw", "handle"} /\ "ticking" \in held
    BY DEF UiInv, TypeOK, RunInv
  <2> QED BY <2>1, <2>2 DEF UiInv, TypeOK
<1> QED BY <1>1, RunInvariance, PTL

\* What a step does while a call waits.
LEMMA SendStep ==
  ASSUME UiInv, RunInv, [Next]_vars, main_pc = "sending", vars' # vars
  PROVE  \/ main_pc' = "client"
         \/ main_pc' = "sending" /\ (Vacant' \/ (~Vacant /\ Ahead' < Ahead))
<1>0. /\ ui_pc \in {"wait", "draw", "handle"} /\ due \in BOOLEAN
      /\ queue \in Seq(Screen) /\ Len(queue) \in Nat /\ Len(queue) <= Depth /\ Depth \in Nat
  BY UiAssumption DEF UiInv, TypeOK, RunInv
<1>1. CASE xQueueSend
  BY <1>1 DEF xQueueSend
<1>2. CASE xQueueReceive
  <2>1. main_pc' = "sending" /\ queue # <<>> /\ queue' = Tail(queue)
    BY <1>2 DEF xQueueReceive, mainVars
  <2>2. Len(queue') = Len(queue) - 1
    BY <1>0, <2>1
  <2> QED BY <1>0, <2>1, <2>2 DEF Vacant
<1>3. CASE wait_and_draw
  <2>1. /\ main_pc' = "sending" /\ queue' = queue /\ due' = due
        /\ ui_pc = "draw" /\ ui_pc' = "handle"
    BY <1>3 DEF wait_and_draw, mainVars
  <2> QED BY <1>0, <2>1 DEF Vacant, Ahead
<1>4. CASE lv_task_handler
  <2>1. /\ main_pc' = "sending" /\ queue' = queue /\ (due' = due \/ due' = FALSE)
        /\ ui_pc = "handle" /\ ui_pc' = "wait"
    BY <1>0, <1>4 DEF lv_task_handler, mainVars
  <2> QED BY <1>0, <2>1 DEF Vacant, Ahead
<1>5. CASE lv_tick_cb
  <2>1. /\ main_pc' = "sending" /\ queue' = queue /\ due' = TRUE /\ ui_pc' = ui_pc
    BY <1>5 DEF lv_tick_cb, mainVars, uiVars
  <2>2. due # TRUE
    <3>1. UNCHANGED <<mainVars, queue, uiVars, drawVars, lit>>
      BY <1>5 DEF lv_tick_cb
    <3>2. due' = due => vars' = vars
      BY <3>1 DEF vars
    <3> QED BY <2>1, <3>2
  <2>3. ~due /\ due'
    BY <1>0, <2>1, <2>2
  <2>4. Ahead' < Ahead
    BY <1>0, <2>1, <2>3 DEF Ahead
  <2> QED BY <2>1, <2>4 DEF Vacant
<1>6. ~(\/ Acquire \/ AcquireFails \/ create_task \/ composer_init \/ cmder_init \/ Reboot
        \/ display_plain \/ display_text \/ display_error \/ display_anything)
  BY DEF Acquire, AcquireFails, create_task, composer_init, cmder_init, Reboot, Resource,
    display_plain, display_text, display_error, display_anything, Send
<1> QED BY <1>1, <1>2, <1>3, <1>4, <1>5, <1>6 DEF Next, MainNext, UiNext

\* Every step while a display_ call waits brings it closer to room in the queue, and no
\* other caller takes the room: what is left of SendReturns is that the tasks are run.
THEOREM SendsAdvance == Spec => SendAdvances
<1>1. UiInv /\ RunInv /\ [Next]_vars =>
        [main_pc = "sending" =>
           \/ main_pc' = "client"
           \/ main_pc' = "sending" /\ (Vacant' \/ (~Vacant /\ Ahead' < Ahead))]_vars
  BY SendStep
<1> QED BY <1>1, RunInvariance, PTL DEF Spec, SendAdvances
=============================================================================
