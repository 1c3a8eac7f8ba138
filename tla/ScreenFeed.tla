----------------------------- MODULE ScreenFeed -----------------------------
(***************************************************************************)
(* What the user interface promises its callers, without the start-up, the *)
(* widgets or the display library: the screens handed over are shown one   *)
(* after the other, none is lost, and each is lit on the panel before the  *)
(* next one is drawn.                                                      *)
(***************************************************************************)
EXTENDS Naturals, Sequences

CONSTANTS Text, NoText, Room

VARIABLES pending, shown, lit

feedVars == <<pending, shown, lit>>

State   == {"EMPTY", "INIT", "ERASE", "FLASH", "TEST", "ERROR", "DONE", "USB"}
Textual == {"INIT", "FLASH", "TEST", "ERROR"}
Screen  == [state : State, text : Text]

\* What a screen leaves to be seen: some have no place for a text.
Seen(s) ==
  [state |-> s.state, text |-> IF s.state \in Textual THEN s.text ELSE NoText]

Nothing == [state |-> "EMPTY", text |-> NoText]

FeedInit == pending = <<>> /\ shown = Nothing /\ lit = Nothing

Ask == \E s \in Screen :
  /\ Len(pending) < Room
  /\ pending' = Append(pending, s)
  /\ UNCHANGED <<shown, lit>>

Show ==
  /\ pending # <<>> /\ lit = shown
  /\ pending' = Tail(pending)
  /\ shown' = IF Head(pending).state = "EMPTY" THEN shown ELSE Seen(Head(pending))
  /\ UNCHANGED lit

Light == lit # shown /\ lit' = shown /\ UNCHANGED <<pending, shown>>

FeedSpec ==
  /\ FeedInit /\ [][Ask \/ Show \/ Light]_feedVars
  /\ WF_feedVars(Show) /\ WF_feedVars(Light)
=============================================================================
