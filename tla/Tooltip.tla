------------------------------ MODULE Tooltip -------------------------------
(***************************************************************************)
(* The tooltip plugin of the bootstrap.js that bookinfo's product page     *)
(* ships: an element's tip is shown while the mouse is over it, it has the *)
(* focus or it was clicked, after delays and CSS transitions which the     *)
(* user does not wait for.  Where the tip is put is left out.  All state   *)
(* is in the record tip: an operator maps it to what a function of the     *)
(* plugin makes of it.                                                     *)
(***************************************************************************)
EXTENDS Naturals, SequencesExt

CONSTANTS MaxPending    \* bound: as many handlers wait at an event

Triggers == {"click", "hover", "focus"}

(* The options trigger, delay and animation; the last counts only in a     *)
(* browser with transitions.                                               *)
TipOptions == [trigger : SUBSET Triggers \ {{}},
               showDelay : BOOLEAN, hideDelay : BOOLEAN, animation : BOOLEAN]

VARIABLES tipOptions, tip

tipVars == <<tipOptions, tip>>

TipInit ==
  /\ tipOptions \in TipOptions
  /\ tip = [inState |-> {},
            hoverState |-> "null",
            timeout |-> "none",       \* or what it will do
            in |-> FALSE,             \* the class in of the tip
            fade |-> FALSE,           \* the class fade of the tip
            attached |-> FALSE,       \* the tip is in the document
            described |-> FALSE,      \* aria-describedby of the element
            waiting |-> <<>>,         \* handlers of the tip's transition end
            destroyed |-> FALSE,
            raced |-> FALSE]          \* history: entered while it was hiding

-----------------------------------------------------------------------------
(* complete() of hide.                                                     *)
HideCompleted(s) == [s EXCEPT !.attached = @ /\ s.hoverState = "in",
                              !.described = FALSE]

(* ... and what destroy adds to it.                                        *)
Destroyed(s) == [HideCompleted(s) EXCEPT !.attached = FALSE, !.in = FALSE,
                                         !.fade = FALSE, !.destroyed = TRUE]

(* hide(); without a transition it comes at once to what is done of s.     *)
HideTip(s, name, done) ==
  [IF s.fade THEN [s EXCEPT !.waiting = Append(@, name)] ELSE done
     EXCEPT !.in = FALSE, !.hoverState = "null"]

(* leave(), once inState is told.                                          *)
Leave(s) ==
  IF s.inState # {} THEN s
  ELSE IF tipOptions.hideDelay
  THEN [s EXCEPT !.hoverState = "out", !.timeout = "hide"]
  ELSE LET t == [s EXCEPT !.hoverState = "out", !.timeout = "none"]
       IN  HideTip(t, "hidden", HideCompleted(t))

(* Slip: a tip that was left while it came up is not left again.           *)
ShowCompletedOnly(s) == [s EXCEPT !.hoverState = "null"]

(* complete() of show.                                                     *)
ShowCompleted(s) ==
  LET t == [s EXCEPT !.hoverState = "null"]
  IN  IF s.hoverState = "out" THEN Leave(t) ELSE t

(* show() of a tip that is enabled and has a title.                        *)
ShowTip(s) ==
  LET t == [s EXCEPT !.in = TRUE, !.fade = tipOptions.animation,
                     !.attached = TRUE, !.described = TRUE]
  IN  IF t.fade THEN [t EXCEPT !.waiting = Append(@, "shown")]
      ELSE ShowCompleted(t)

GoesAway(s) == \E i \in DOMAIN s.waiting :
                 s.waiting[i] \in {"hidden", "destroyed"}

(* enter(), once inState is told.                                          *)
Enter(s) ==
  IF s.in \/ s.hoverState = "in" THEN [s EXCEPT !.hoverState = "in"]
  ELSE LET t == [s EXCEPT !.hoverState = "in", !.raced = GoesAway(s)]
       IN  IF tipOptions.showDelay THEN [t EXCEPT !.timeout = "show"]
           ELSE ShowTip([t EXCEPT !.timeout = "none"])

-----------------------------------------------------------------------------
BecomesTip(s) == tip' = s /\ tipOptions' = tipOptions

Listens(trigger) == /\ trigger \in tipOptions.trigger /\ ~tip.destroyed
                    /\ Len(tip.waiting) <= MaxPending

(* mouseenter and focusin, mouseleave and focusout.                        *)
EventIn(trigger) ==
  /\ Listens(trigger) /\ trigger \notin tip.inState
  /\ BecomesTip(Enter([tip EXCEPT !.inState = @ \cup {trigger}]))

EventOut(trigger) ==
  /\ Listens(trigger) /\ trigger \in tip.inState
  /\ BecomesTip(Leave([tip EXCEPT !.inState = @ \ {trigger}]))

(* toggle() on a click.                                                    *)
ClickElement ==
  /\ Listens("click")
  /\ LET s == [tip EXCEPT !.inState = IF "click" \in @ THEN @ \ {"click"}
                                      ELSE @ \cup {"click"}]
     IN  BecomesTip(IF s.inState # {} THEN Enter(s) ELSE Leave(s))

TimeoutFires ==
  /\ tip.timeout # "none"
  /\ LET s == [tip EXCEPT !.timeout = "none"]
     IN  BecomesTip(CASE tip.timeout = "show" /\ s.hoverState = "in" ->
                           ShowTip(s)
                      [] tip.timeout = "hide" /\ s.hoverState = "out" ->
                           HideTip(s, "hidden", HideCompleted(s))
                      [] OTHER -> s)

(* The end of the tip's transition runs all that waits for it.             *)
RunTip(s, name) == CASE name = "shown" -> ShowCompleted(s)
                     [] name = "hidden" -> HideCompleted(s)
                     [] name = "destroyed" -> Destroyed(s)

TipTransitionEnds ==
  /\ tip.waiting # <<>>
  /\ BecomesTip(FoldLeft(RunTip, [tip EXCEPT !.waiting = <<>>], tip.waiting))

(* .tooltip('destroy') by a script of the page.                            *)
Destroy == /\ ~tip.destroyed /\ Len(tip.waiting) <= MaxPending
           /\ LET s == [tip EXCEPT !.timeout = "none"]
              IN  BecomesTip(HideTip(s, "destroyed", Destroyed(s)))

TipNext == \/ \E trigger \in {"hover", "focus"} :
                EventIn(trigger) \/ EventOut(trigger)
           \/ ClickElement
           \/ TimeoutFires
           \/ TipTransitionEnds
           \/ Destroy

-----------------------------------------------------------------------------
TipTypeOK ==
  /\ tipOptions \in TipOptions
  /\ tip \in [inState : SUBSET tipOptions.trigger,
              hoverState : {"null", "in", "out"},
              timeout : {"none", "show", "hide"},
              in : BOOLEAN, fade : BOOLEAN, attached : BOOLEAN,
              described : BOOLEAN, destroyed : BOOLEAN, raced : BOOLEAN,
              waiting : Seq({"shown", "hidden", "destroyed"})]

(* However quickly the events came, when no timer and no transition is     *)
(* left no tip is shown without a reason, and aria-describedby names none  *)
(* that is gone.  Unless the last reason came while a tip was still going  *)
(* away, the tip is there, shown and named exactly while there is one.     *)
SettledTip ==
  (tip.timeout = "none" /\ tip.waiting = <<>>) =>
    LET reason == ~tip.destroyed /\ tip.inState # {}
    IN  /\ tip.in /\ ~tip.destroyed => reason
        /\ tip.described => tip.attached
        /\ ~tip.raced => /\ tip.in = reason
                         /\ tip.attached = reason
                         /\ tip.described = reason
=============================================================================
