------------------------------- MODULE Modal --------------------------------
(***************************************************************************)
(* The login dialog of bookinfo's product page: the modal plugin of the    *)
(* bootstrap.js it ships, as the page uses it.  Opening and closing take   *)
(* up to four steps that wait for CSS transitions, and the user clicks and *)
(* types in between.  All state is in the record page: an operator maps it *)
(* to what a function of the plugin makes of it.                           *)
(***************************************************************************)
EXTENDS Naturals, SequencesExt

CONSTANTS Openers,    \* elements with data-toggle="modal"
          MaxShows    \* bound on how often the dialog is opened

ASSUME OpenersAssumption == Openers \cap {"body", "dialog", "none"} = {}

(* Data attributes of the dialog, its class fade, its tabindex (without    *)
(* one only what is in it takes the focus), and whether the page is long   *)
(* enough for a scroll bar.                                                *)
Options == [backdrop : {"true", "static", "false"}, keyboard : BOOLEAN,
            fade : BOOLEAN, tabindex : BOOLEAN, scrollbar : BOOLEAN]

Focus == Openers \cup {"body", "dialog"}

(* One-shot handlers of a transition's end: the element they are on, and   *)
(* the ticks of 150 ms until emulateTransitionEnd triggers it.             *)
TheElement == <<"element", 0>>
TheDialog == <<"dialog", 0>>
TheBackdrop(number) == <<"backdrop", number>>

Pending == [on : {"element", "dialog", "backdrop"} \X Nat,
            callback : {"reveal", "shown", "hideModal", "remove", "hidden"},
            ticks : 0 .. 2]

VARIABLES options, page

modalVars == <<options, page>>

ModalInit ==
  /\ options \in Options
  /\ page = [isShown |-> FALSE,
             displayed |-> FALSE,      \* .show() and .hide()
             modalOpen |-> FALSE,      \* the class of the body
             backdrop |-> 0,           \* this.$backdrop, 0 for null
             overlays |-> {},          \* backdrops in the document
             created |-> 0,            \* backdrops created so far
             padding |-> 0,            \* of the body, in scroll bars
             originalBodyPad |-> 0,
             guard |-> FALSE,          \* the focusin handler
             clickHandlers |-> 0,      \* those that backdrop() has added
             ignoreBackdropClick |-> FALSE,
             focus |-> "body",
             armed |-> "none",         \* who waits for show.bs.modal
             restorer |-> "none",      \* who waits for hidden.bs.modal
             pending |-> <<>>,         \* handlers that wait for a transition
             shows |-> 0,
             rushed |-> FALSE]         \* history: shown before it was hidden

-----------------------------------------------------------------------------
(* A hidden element cannot take the focus.                                 *)
FocusDialog(s) == IF s.displayed THEN [s EXCEPT !.focus = "dialog"] ELSE s

FocusElement(s) == IF options.tabindex THEN FocusDialog(s) ELSE s

(* The mouse is pressed where nothing but the dialog could take the focus. *)
Press(s) == FocusElement([s EXCEPT !.focus = "body"])

(* enforceFocus brings the focus back to the dialog.                       *)
FocusOn(s, target) == IF s.guard THEN FocusElement([s EXCEPT !.focus = target])
                      ELSE [s EXCEPT !.focus = target]

(* .one('bsTransitionEnd', ...).emulateTransitionEnd(...); without CSS      *)
(* transitions the callback runs at once, and what it makes of s is done.  *)
Await(s, element, name, ticks, done) ==
  IF options.fade
  THEN [s EXCEPT !.pending =
          Append(@, [on |-> element, callback |-> name, ticks |-> ticks])]
  ELSE done

(* The page's handler of shown.bs.modal moves on to #username, which is in *)
(* the dialog.                                                             *)
Shown(s) == FocusDialog(s)

(* What show() does once the backdrop is there.                            *)
Reveal(s) == LET t == [s EXCEPT !.displayed = TRUE, !.guard = TRUE]
             IN  Await(t, TheDialog, "shown", 2, Shown(t))

(* The handlers that wait, and whether the element is theirs; and the page *)
(* without those of the element.                                           *)
Queue(s, element) ==
  [i \in DOMAIN s.pending |->
     [handler |-> s.pending[i], due |-> s.pending[i].on = element]]

Keep(s, e) == IF e.due THEN s ELSE [s EXCEPT !.pending = Append(@, e.handler)]

Without(s, element) ==
  FoldLeft(Keep, [s EXCEPT !.pending = <<>>], Queue(s, element))

(* Slip: this.$backdrop is not set to null.                                *)
RemoveBackdropOnly(s) ==
  Without([s EXCEPT !.overlays = @ \ {s.backdrop}], TheBackdrop(s.backdrop))

(* .remove() takes the handlers with it.                                   *)
RemoveBackdrop(s) ==
  Without([s EXCEPT !.overlays = @ \ {s.backdrop}, !.backdrop = 0],
          TheBackdrop(s.backdrop))

AddBackdrop(s) ==
  LET new == s.created + 1
  IN  [s EXCEPT !.created = new, !.overlays = @ \cup {new}, !.backdrop = new,
                !.clickHandlers = @ + 1]

(* backdrop(callback): isShown decides what becomes of the backdrop, here  *)
(* if nothing is waited for ...                                            *)
BackdropAtOnce(s) ==
  IF s.isShown /\ options.backdrop # "false" THEN AddBackdrop(s)
  ELSE IF ~s.isShown /\ s.backdrop # 0 THEN RemoveBackdrop(s)
  ELSE s

(* ... and here with its transition; done is what the callback makes of    *)
(* BackdropAtOnce(s).                                                      *)
Backdrop(s, name, done) ==
  IF s.isShown /\ options.backdrop # "false"
  THEN Await(AddBackdrop(s), TheBackdrop(s.created + 1), name, 1, done)
  ELSE IF ~s.isShown /\ s.backdrop # 0
  THEN Await(s, TheBackdrop(s.backdrop), "remove", 1, done)
  ELSE done

(* Slip: the padding is left for the next time.                            *)
HiddenStillPadded(s) ==
  LET t == [s EXCEPT !.modalOpen = FALSE, !.restorer = "none"]
  IN  IF s.restorer = "none" THEN t ELSE FocusOn(t, s.restorer)

(* The end of hideModal; hidden.bs.modal returns the focus to the opener   *)
(* (to the last of them, if there are several).                            *)
Hidden(s) ==
  LET t == [s EXCEPT !.modalOpen = FALSE, !.padding = s.originalBodyPad,
                     !.restorer = "none"]
  IN  IF s.restorer = "none" THEN t ELSE FocusOn(t, s.restorer)

(* Slip: hideModal leaves the backdrop to hide().                          *)
HideModalOnly(s) ==
  Hidden([s EXCEPT !.displayed = FALSE,
                   !.focus = IF @ = "dialog" THEN "body" ELSE @])

HideModal(s) ==
  LET t == [s EXCEPT !.displayed = FALSE,
                     !.focus = IF @ = "dialog" THEN "body" ELSE @]
  IN  Backdrop(t, "hidden", Hidden(BackdropAtOnce(t)))

(* hide() has begun and its callbacks have not all run.                    *)
Hiding(s) == \E i \in DOMAIN s.pending :
               s.pending[i].callback \in {"hideModal", "remove"}

(* setScrollbar: modal-open takes the scroll bar away, so it is not there  *)
(* to be made up for while a dialog is still being hidden.                 *)
SetScrollbar(s) ==
  [s EXCEPT !.originalBodyPad = s.padding,
            !.padding = IF options.scrollbar /\ ~s.modalOpen THEN @ + 1 ELSE @]

(* The handler of show.bs.modal registers the focus restorer.              *)
ShowEvent(s) == IF s.armed = "none" THEN s
                ELSE [s EXCEPT !.restorer = s.armed, !.armed = "none"]

Show(s) ==
  LET t == [SetScrollbar(ShowEvent(s)) EXCEPT
              !.isShown = TRUE, !.modalOpen = TRUE, !.shows = @ + 1,
              !.rushed = @ \/ Hiding(s)]
  IN  Backdrop(t, "reveal", Reveal(BackdropAtOnce(t)))

Hide(s) ==
  IF ~s.isShown THEN s
  ELSE LET t == [s EXCEPT !.isShown = FALSE, !.guard = FALSE,
                          !.clickHandlers = 0]
       IN  Await(t, TheElement, "hideModal", 2, HideModal(t))

ToggleDialog(s) == IF s.isShown THEN Hide(s) ELSE Show(s)

-----------------------------------------------------------------------------
Run(s, w) == CASE w.callback = "reveal" -> Reveal(s)
               [] w.callback = "shown" -> Shown(s)
               [] w.callback = "hideModal" -> HideModal(s)
               [] w.callback = "remove" -> Hidden(RemoveBackdrop(s))
               [] w.callback = "hidden" -> Hidden(s)

(* A function, for TLC to evaluate s once.                                 *)
RunDue(s, e) == LET after == [t \in {s} |-> Run(t, e.handler)]
                IN  IF e.due THEN after[s] ELSE s

(* The browser's own event comes when a transition ends that is on show;   *)
(* else the timer triggers it.                                             *)
MayEnd(w) == w.ticks = 0 \/ w.on[1] = "backdrop" \/ page.displayed

(* The end of a transition runs all that waits on its element.             *)
TransitionEnd ==
  \E i \in DOMAIN page.pending :
    /\ MayEnd(page.pending[i])
    /\ LET element == page.pending[i].on
       IN  page' = FoldLeft(RunDue, Without(page, element), Queue(page, element))
    /\ options' = options

Sooner(w) == [w EXCEPT !.ticks = w.ticks - 1]

Tick == /\ page.pending # <<>>
        /\ \A i \in DOMAIN page.pending : page.pending[i].ticks > 0
        /\ page' = [page EXCEPT !.pending =
                      [i \in DOMAIN page.pending |-> Sooner(page.pending[i])]]
        /\ options' = options

(* The bound: no further opening once one came too soon.                   *)
MayShow == page.shows < MaxShows /\ ~page.rushed

(* The data-api: a click, if nothing covers the page, or the Enter key,    *)
(* wherever the focus is.                                                  *)
ClickOpener(o) ==
  /\ page.focus = o \/ (page.overlays = {} /\ ~page.displayed)
  /\ page.isShown \/ MayShow
  /\ page' = ToggleDialog([page EXCEPT !.focus = o, !.armed = o])
  /\ options' = options

(* The handlers of clicks and keys are there while isShown; the user can   *)
(* reach them when the dialog is displayed.                                *)
Dismiss == /\ page.isShown /\ page.displayed
           /\ page' = Hide(FocusDialog(page))
           /\ options' = options

Escape == /\ options.keyboard /\ page.isShown /\ page.focus = "dialog"
          /\ page' = Hide(page)
          /\ options' = options

(* Mouse down in the dialog and up outside: the click is not for the       *)
(* backdrop.                                                               *)
DragOut == /\ page.isShown /\ page.displayed
           /\ page' = [Press(page) EXCEPT !.ignoreBackdropClick = TRUE]
           /\ options' = options

BackdropHandler(s, i) ==
  IF s.ignoreBackdropClick THEN [s EXCEPT !.ignoreBackdropClick = FALSE]
  ELSE IF options.backdrop = "static" THEN FocusElement(s) ELSE Hide(s)

(* A click outside the dialog runs each handler that backdrop() has added. *)
ClickBackdrop ==
  /\ page.displayed /\ page.clickHandlers > 0
  /\ page' = FoldLeft(BackdropHandler, Press(page),
                      [i \in 1 .. page.clickHandlers |-> i])
  /\ options' = options

(* Tab, to an opener or into the dialog.                                   *)
Tab(target) == /\ page' = IF target = "dialog" THEN FocusDialog(page)
                          ELSE FocusOn(page, target)
               /\ options' = options

ModalNext == \/ \E o \in Openers : ClickOpener(o)
             \/ Dismiss
             \/ Escape
             \/ DragOut
             \/ ClickBackdrop
             \/ \E t \in Openers \cup {"dialog"} : Tab(t)
             \/ TransitionEnd
             \/ Tick

(* Timers fire, and transitions end.                                       *)
ModalFairness == WF_modalVars(TransitionEnd) /\ WF_modalVars(Tick)

ModalSpec == ModalInit /\ [][ModalNext]_modalVars /\ ModalFairness

-----------------------------------------------------------------------------
(* Every field of the page holds a value of its type; this.$backdrop is an *)
(* element of the document.                                                *)
ModalTypeOK ==
  /\ options \in Options
  /\ page \in [isShown : BOOLEAN, displayed : BOOLEAN, modalOpen : BOOLEAN,
               backdrop : Nat, overlays : SUBSET Nat, created : Nat,
               padding : Nat, originalBodyPad : Nat, guard : BOOLEAN,
               clickHandlers : Nat, ignoreBackdropClick : BOOLEAN, focus : Focus,
               armed : Openers \cup {"none"}, restorer : Openers \cup {"none"},
               pending : Seq(Pending), shows : Nat, rushed : BOOLEAN]
  /\ page.overlays \subseteq 1 .. page.created
  /\ page.backdrop \in page.overlays \cup {0}

(* When no transition is left, the page is as the dialog's state says:     *)
(* open, with one backdrop of its own and the focus guarded; or closed,    *)
(* with nothing over the page, its scrolling and its padding as before,    *)
(* and the focus with an opener.  Only opening the dialog again before it  *)
(* was hidden can break this, and that needs transitions.                  *)
SettledPage ==
  (page.pending = <<>> /\ ~page.rushed) =>
    IF page.isShown
    THEN /\ page.displayed /\ page.modalOpen /\ page.guard
         /\ page.overlays =
              IF options.backdrop = "false" THEN {} ELSE {page.backdrop}
    ELSE /\ ~page.displayed /\ page.overlays = {} /\ ~page.modalOpen
         /\ page.padding = 0
         /\ page.shows > 0 => page.focus \in Openers

(* A dialog that was closed uncovers the page in the end, unless it is     *)
(* opened again.                                                           *)
PageUncovered ==
  ~page.isShown ~> (\/ ~page.displayed /\ page.overlays = {}
                    \/ page.isShown \/ page.rushed)
=============================================================================
