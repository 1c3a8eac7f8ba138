----------------------------- MODULE UiPipeline -----------------------------
(***************************************************************************)
(* The user interface: display_manager's start-up and its UI task,         *)
(* ui_commander's calls, the queue between them and the widgets that       *)
(* ui_composer_114 keeps.  Two tasks run at the same priority: the one     *)
(* that initialises the display and then asks for screens (app_main, or    *)
(* the flasher), and the UI task.  LVGL may be entered by one task only.   *)
(*                                                                         *)
(* A definition marked "slip" is what a plausible mistake would make of    *)
(* the one after it; nothing uses it but the checks of the properties.     *)
(***************************************************************************)
EXTENDS Naturals, Sequences

CONSTANTS
  Texts,    \* texts a caller gives: subtitles, comments
  NoText,   \* the empty string
  ErrName,  \* what esp_err_to_name answers
  Depth,    \* length of the queue
  Asked     \* items some caller asks for

VARIABLES
  main_pc,     \* the step of init the caller is at, or what it does after it
  held,        \* what display_manager::init has acquired and deinit not freed
  msg,         \* the item a display_ call hands to the queue
  queue,       \* ui_queue
  ui_pc,       \* the UI task
  item,        \* the item it has received
  curr_state,  \* ui_composer_114::curr_state
  widgets,     \* the widgets under base_obj and what they say
  dirty,       \* LVGL has invalid areas (disp->inv_p > 0)
  due,         \* LVGL's refresh timer has run out
  lit          \* what has last been flushed to the panel

mainVars == <<main_pc, held, msg>>
uiVars   == <<ui_pc, item>>
drawVars == <<curr_state, widgets, dirty>>
vars     == <<mainVars, queue, uiVars, drawVars, due, lit>>

Text == Texts \cup {NoText, ErrName}

Shown == [state |-> widgets.title, text |-> widgets.text]

Feed == INSTANCE ScreenFeed WITH
          Room    <- Depth + 1,
          pending <- IF ui_pc = "draw" THEN <<item>> \o queue ELSE queue,
          shown   <- Shown

State  == Feed!State
Screen == Feed!Screen

ASSUME UiAssumption ==
  NoText \notin Texts /\ Depth \in Nat \ {0} /\ Asked \subseteq Screen

Resource == {"panel", "queue", "buf_a", "buf_b", "stack", "lvgl", "timer", "ticking"}

MainPc == Resource \cup {"task", "composer", "cmder", "client", "sending", "failed"}

\* A tree of widgets as recreate_widget leaves it: with a label or a QR code
\* at the bottom, with or without a comment, and nothing written yet.
Tree(with_comment, with_qrcode) ==
  [bottom  |-> IF with_qrcode THEN "qrcode" ELSE "label",
   comment |-> IF with_comment THEN "label" ELSE "none",
   title |-> "EMPTY", text |-> NoText]

NoTree == [Tree(FALSE, FALSE) EXCEPT !.bottom = "none"]

TypeOK ==
  /\ main_pc \in MainPc /\ held \subseteq Resource
  /\ msg \in Screen /\ item \in Screen
  /\ queue \in Seq(Screen) /\ Len(queue) <= Depth
  /\ ui_pc \in {"none", "wait", "draw", "handle"}
  /\ curr_state \in State
  /\ widgets \in [bottom : {"none", "label", "qrcode"}, comment : {"none", "label"},
                   title : State, text : Text]
  /\ dirty \in BOOLEAN /\ due \in BOOLEAN
  /\ lit \in [state : State, text : Text]

Init ==
  /\ main_pc = "panel" /\ held = {} /\ msg = Feed!Nothing
  /\ queue = <<>>
  /\ ui_pc = "none" /\ item = Feed!Nothing
  /\ curr_state = "EMPTY" /\ widgets = NoTree
  /\ dirty = FALSE /\ due = FALSE
  /\ lit = Feed!Nothing

-----------------------------------------------------------------------------
(* display_manager::init, one resource at a time *)

\* slip: the timer is created and never started
TimerNotStarted ==
  [panel |-> "queue", queue |-> "buf_a", buf_a |-> "buf_b", buf_b |-> "stack",
   stack |-> "lvgl", lvgl |-> "timer", timer |-> "task", ticking |-> "task"]

Following ==
  [panel |-> "queue", queue |-> "buf_a", buf_a |-> "buf_b", buf_b |-> "stack",
   stack |-> "lvgl", lvgl |-> "timer", timer |-> "ticking", ticking |-> "task"]

Acquire ==
  /\ main_pc \in Resource
  /\ held' = held \cup {main_pc}
  /\ main_pc' = Following[main_pc]
  /\ UNCHANGED <<msg, queue, uiVars, drawVars, due, lit>>

\* deinit, reached before there is a UI task.  The timer is not armed then:
\* only its start can have failed.
deinit == held \ {"queue", "buf_a", "buf_b", "stack", "timer"}

\* Two of the early returns do not call deinit.
AcquireFails ==
  /\ main_pc \in Resource
  /\ held' = IF main_pc \in {"panel", "buf_a"} THEN held ELSE deinit
  /\ main_pc' = "failed"
  /\ UNCHANGED <<msg, queue, uiVars, drawVars, due, lit>>

\* slip: the UI task's loop starts with the handler
HandlerFirst ==
  /\ main_pc = "task" /\ main_pc' = "composer"
  /\ ui_pc' = "handle"
  /\ UNCHANGED <<held, msg, queue, item, drawVars, due, lit>>

\* The stack is given, so the creation cannot fail; the task is ready to run
\* before the composer has its widgets.
create_task ==
  /\ main_pc = "task" /\ main_pc' = "composer"
  /\ ui_pc' = "wait"
  /\ UNCHANGED <<held, msg, queue, item, drawVars, due, lit>>

\* setup_lvgl has registered the display, so it has a screen to put widgets on.
composer_init ==
  /\ main_pc = "composer" /\ main_pc' = "cmder"
  /\ widgets' = Tree(FALSE, FALSE) /\ dirty' = TRUE
  /\ UNCHANGED <<held, msg, queue, uiVars, curr_state, due, lit>>

\* ui_commander::init takes over the queue, which display_manager::init made.
cmder_init ==
  /\ main_pc = "cmder" /\ "queue" \in held
  /\ main_pc' = "client"
  /\ UNCHANGED <<held, msg, queue, uiVars, drawVars, due, lit>>

\* ESP_ERROR_CHECK aborts after a failed init and the device starts again.
Reboot ==
  /\ main_pc = "failed" /\ main_pc' = "panel"
  /\ held' = {}
  /\ UNCHANGED <<msg, queue, uiVars, drawVars, due, lit>>

-----------------------------------------------------------------------------
(* ui_commander: an item is built, then queued, for as long as it takes *)

Send(s) ==
  /\ s \in Asked
  /\ main_pc = "client" /\ main_pc' = "sending"
  /\ msg' = s
  /\ UNCHANGED <<held, queue, uiVars, drawVars, due, lit>>

\* The item lives on the caller's stack until it has been copied into the queue.
\* display_init, display_chip_erase, display_done, display_usb
display_plain == \E st \in {"INIT", "ERASE", "DONE", "USB"} :
  Send([state |-> st, text |-> NoText])

\* display_flash, display_test
display_text == \E st \in {"FLASH", "TEST"}, t \in Texts \cup {NoText} :
  Send([state |-> st, text |-> t])

\* An error without a comment is shown with its name.
display_error == \E t \in Texts \cup {NoText} :
  Send([state |-> "ERROR", text |-> IF t = NoText THEN ErrName ELSE t])

display_anything == \E s \in Asked : Send(s)

NotWaitedFor == TRUE   \* slip: the queue is not waited for
Vacant == Len(queue) < Depth

xQueueSend ==
  /\ main_pc = "sending" /\ Vacant
  /\ queue' = Append(queue, msg)
  /\ main_pc' = "client"
  /\ msg' = Feed!Nothing
  /\ UNCHANGED <<held, uiVars, drawVars, due, lit>>

-----------------------------------------------------------------------------
(* lv_ui_task *)

xQueueReceive ==
  /\ ui_pc = "wait" /\ queue # <<>>
  /\ item' = Head(queue) /\ queue' = Tail(queue)
  /\ ui_pc' = "draw"
  /\ UNCHANGED <<mainVars, drawVars, due, lit>>

\* What each draw_ function has recreate_widget build.
Recreated(st) == Tree(st \in {"INIT", "TEST", "ERROR"}, st = "ERROR")

\* What each draw_ function writes to: the QR code or a label, and the comment.
Fits(st, tree) ==
  /\ tree.bottom = IF st = "ERROR" THEN "qrcode" ELSE "label"
  /\ st \in {"INIT", "TEST", "ERROR"} => tree.comment = "label"

\* slip: the widgets built for the first screen are taken for the others
CanvasReused == IF curr_state = "EMPTY" THEN Recreated(item.state) ELSE widgets

\* The widgets draw_ writes to: those of the last screen if it had this state.
Canvas == IF curr_state # item.state THEN Recreated(item.state) ELSE widgets

\* An item without a state is taken from the queue and nothing is drawn.
wait_and_draw ==
  /\ ui_pc = "draw" /\ ui_pc' = "handle"
  /\ IF item.state = "EMPTY"
     THEN UNCHANGED drawVars
     ELSE /\ widgets' = [Canvas EXCEPT !.title = item.state,
                           !.text = IF item.state \in Feed!Textual THEN item.text ELSE @]
          /\ curr_state' = item.state
          /\ dirty' = TRUE
  /\ item' = Feed!Nothing
  /\ UNCHANGED <<mainVars, queue, due, lit>>

\* slip: the handler is called once per screen
HandlerOnce ==
  /\ ui_pc = "handle" /\ ui_pc' = "wait"
  /\ lit' = IF dirty /\ due THEN Shown ELSE lit
  /\ dirty' = (dirty /\ ~due)
  /\ due' = (due /\ ~dirty)
  /\ UNCHANGED <<mainVars, queue, item, curr_state, widgets>>

\* The loop over lv_task_handler: nothing is flushed until the refresh timer
\* has run out, and the loop is left when no area is invalid.
lv_task_handler ==
  /\ ui_pc = "handle" /\ (dirty => due)
  /\ ui_pc' = "wait"
  /\ lit' = IF dirty THEN Shown ELSE lit
  /\ due' = (due /\ ~dirty)
  /\ dirty' = FALSE
  /\ UNCHANGED <<mainVars, queue, item, curr_state, widgets>>

\* The esp_timer that drives LVGL's clock.
lv_tick_cb ==
  /\ "ticking" \in held /\ due' = TRUE
  /\ UNCHANGED <<mainVars, queue, uiVars, drawVars, lit>>

-----------------------------------------------------------------------------

MainNext ==
  \/ Acquire \/ AcquireFails \/ create_task \/ composer_init \/ cmder_init \/ Reboot
  \/ display_plain \/ display_text \/ display_error \/ display_anything \/ xQueueSend

UiNext == xQueueReceive \/ wait_and_draw \/ lv_task_handler

Next == MainNext \/ UiNext \/ lv_tick_cb

Spec == Init /\ [][Next]_vars

\* The scheduler lets both tasks run and the timer ticks.  Whether another
\* screen is asked for is the caller's business.
Fairness == WF_vars(xQueueSend) /\ WF_vars(UiNext) /\ WF_vars(lv_tick_cb)

FairSpec == Spec /\ Fairness

-----------------------------------------------------------------------------
(* Properties *)

\* LVGL is not thread safe: while the caller's task builds the first widgets
\* (display_manager.cpp:80), the UI task created before (line 73) is in none of
\* its functions.
OneInLvgl == main_pc = "composer" => ui_pc \notin {"draw", "handle"}

\* Whatever was shown before, a draw_ function finds the widgets it writes to: a
\* QR code is updated only where there is one, a text is set only on a label, and
\* the comment it needs exists.  The widgets are only rebuilt on a change of state.
WidgetsFit ==
  ui_pc = "draw" /\ item.state # "EMPTY" => Fits(item.state, Canvas)

\* No screen is lost, overtaken or replaced before it has been lit, and none
\* keeps a text of an earlier one.
FeedImplemented == Feed!FeedSpec

\* A display_ call returns, although it waits for the queue without a timeout:
\* what the flasher's handlers count on.
SendReturns == main_pc = "sending" ~> main_pc = "client"

\* A call that waits never waits for good: the queue is full, and the UI task can take
\* from it, draw, flush what is due, or wait for a tick of a timer that runs.
SenderIsServed == main_pc = "sending" /\ ~Vacant =>
  \/ ui_pc \in {"wait", "draw"} /\ queue # <<>>
  \/ ui_pc = "handle" /\ (dirty => due)
  \/ ui_pc = "handle" /\ "ticking" \in held /\ ~due

\* What is left to do until there is room: the turn of lv_ui_task, and a tick.
Ahead == (CASE ui_pc = "wait" -> 1 [] ui_pc = "handle" -> 3 [] ui_pc = "draw" -> 5
            [] OTHER -> 7) + IF due THEN 0 ELSE 1

\* Whatever step is taken while a call waits, it makes room or comes closer to it, and
\* room once made is kept for this call.
SendAdvances == [][main_pc = "sending" =>
  \/ main_pc' = "client"
  \/ main_pc' = "sending" /\ (Vacant' \/ (~Vacant /\ Ahead' < Ahead))]_vars

-----------------------------------------------------------------------------
(* The inductive invariant *)

\* After the start-up the queue is there and the timer runs.
RunInv ==
  /\ main_pc \in {"composer", "cmder", "client", "sending"} => ui_pc # "none"
  /\ main_pc \in {"task", "composer", "cmder", "client", "sending"} =>
       {"queue", "ticking"} \subseteq held
  /\ main_pc \in {"buf_a", "buf_b", "stack", "lvgl", "timer", "ticking"} => "queue" \in held

\* Until the caller has the queue the UI task waits and nothing has been shown.
StartInv ==
  main_pc \in Resource \cup {"task", "composer", "cmder", "failed"} =>
    /\ queue = <<>> /\ curr_state = "EMPTY" /\ lit = Feed!Nothing
    /\ ui_pc = IF main_pc \in {"composer", "cmder"} THEN "wait" ELSE "none"

\* The widgets are those of curr_state, and keep no text it has no place for.
WidgetInv ==
  /\ widgets.title = curr_state
  /\ curr_state # "EMPTY" => Fits(curr_state, widgets)
  /\ curr_state \notin Feed!Textual => widgets.text = NoText

\* What is shown is lit, but for the time the handler has areas to flush.
LitInv == ui_pc # "handle" \/ ~dirty => lit = Shown

UiInv == TypeOK /\ StartInv /\ WidgetInv /\ LitInv
=============================================================================
