-------------------------------- MODULE Tabs --------------------------------
(***************************************************************************)
(* The tab plugin of the bootstrap.js that bookinfo's product page ships:  *)
(* one list of tabs and the panes they show.  A pane that fades goes after *)
(* a CSS transition, and the user clicks in between.  A tab's aria-expanded*)
(* goes with its class active; tabs in a dropdown menu are left out.  All  *)
(* state is in the record tabs: an operator maps it to what a function of  *)
(* the plugin makes of it.                                                 *)
(***************************************************************************)
EXTENDS Naturals, SequencesExt

CONSTANTS TabIds,       \* the tabs, and each one's pane
          MaxFades      \* bound: as many handlers wait at a click

VARIABLES fading,       \* $.support.transition
          tabs

tabsVars == <<fading, tabs>>

(* next of a call of activate.                                             *)
Activation == [from : SUBSET TabIds, to : TabIds, transition : BOOLEAN]

TabsInit ==
  /\ fading \in BOOLEAN
  /\ \E start \in {{}} \cup {{t} : t \in TabIds}, fade \in {{}, TabIds} :
       tabs = [active |-> start,          \* tabs with the class active
               panes |-> start,           \* panes with the class active,
               in |-> start \cap fade,    \* the class in
               fade |-> fade,             \* and the class fade
               waiting |-> <<>>,          \* next, for the end of a transition
               raced |-> FALSE]           \* history: the last click came
                                          \* during a transition

-----------------------------------------------------------------------------
(* Slip: the pane that was shown stays.                                    *)
NextPaneOnly(s, n) ==
  [s EXCEPT !.panes = @ \cup {n.to},
            !.in = IF n.transition THEN @ \cup {n.to} ELSE @,
            !.fade = IF n.transition THEN @ ELSE @ \ {n.to}]

NextPane(s, n) ==
  [s EXCEPT !.panes = (@ \ n.from) \cup {n.to},
            !.in = IF n.transition THEN @ \cup {n.to} ELSE @,
            !.fade = IF n.transition THEN @ ELSE @ \ {n.to}]

(* activate() for the panes: next waits for the end of those that are      *)
(* active.  It runs once for each of them, which changes nothing.          *)
ActivatePane(s, t) ==
  LET n == [from |-> s.panes, to |-> t, transition |-> fading /\ s.fade # {}]
      begun == IF n.from # {} /\ n.transition
               THEN [s EXCEPT !.waiting = Append(@, n)] ELSE NextPane(s, n)
  IN  [begun EXCEPT !.in = @ \ n.from]

(* show() of a tab.                                                        *)
ClickTab(t) ==
  /\ t \notin tabs.active /\ Len(tabs.waiting) <= MaxFades
  /\ tabs' = ActivatePane([tabs EXCEPT !.active = {t},
                                       !.raced = tabs.waiting # <<>>], t)
  /\ fading' = fading

(* The end of the transition runs all that waits: while anything waits, the*)
(* same panes are active.                                                  *)
FadeEnds ==
  /\ tabs.waiting # <<>>
  /\ tabs' = FoldLeft(NextPane, [tabs EXCEPT !.waiting = <<>>], tabs.waiting)
  /\ fading' = fading

TabsNext == (\E t \in TabIds : ClickTab(t)) \/ FadeEnds

-----------------------------------------------------------------------------
TabsTypeOK ==
  /\ fading \in BOOLEAN
  /\ tabs \in [active : SUBSET TabIds, panes : SUBSET TabIds,
               in : SUBSET TabIds, fade : SUBSET TabIds,
               waiting : Seq(Activation), raced : BOOLEAN]
  /\ \A i \in DOMAIN tabs.waiting : tabs.waiting[i].from = tabs.panes

(* When no transition is left, the pane of the last tab that was clicked   *)
(* is there and visible, however quickly the clicks came.  It is the only  *)
(* one unless that click came during a transition.                         *)
SettledTabs ==
  tabs.waiting = <<>> =>
    /\ tabs.active \subseteq tabs.panes
    /\ tabs.active \cap tabs.fade \subseteq tabs.in
    /\ ~tabs.raced => tabs.panes = tabs.active
=============================================================================
