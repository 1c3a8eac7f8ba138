---------------------------- MODULE MCUiPipeline ----------------------------
(***************************************************************************)
(* The user interface with the screens that differ in what they need: a    *)
(* comment, a label, a QR code and a comment, nothing, and no state.       *)
(***************************************************************************)
EXTENDS UiPipeline

MCTexts == {"text"}

Item(st, t) == [state |-> st, text |-> t]

\* Screens with every kind of widgets, and texts that come and go.
MCAsked ==
  {Item("INIT", NoText), Item("ERASE", NoText), Item("FLASH", "text"), Item("FLASH", NoText),
   Item("ERROR", ErrName), Item("EMPTY", "text")}
=============================================================================
