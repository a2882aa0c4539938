------------------------------ MODULE Collapse ------------------------------
(***************************************************************************)
(* The collapse plugin of the bootstrap.js that bookinfo's product page    *)
(* ships: panels that a click on their trigger opens and closes, alone or  *)
(* in a group of which one is open at a time (data-parent).  Opening and   *)
(* closing take a CSS transition, and the user clicks in between.  All     *)
(* state is in the record group: an operator maps it to what a function of *)
(* the plugin makes of it.                                                 *)
(***************************************************************************)
EXTENDS Naturals, SequencesExt

CONSTANTS PanelCount,
          MaxWaiting    \* bound: as many transitions wait at a click

ASSUME PanelsAssumption == PanelCount \in Nat

(* The panels, numbered in the order of the document.                      *)
Panels == 1 .. PanelCount
InOrder == [p \in Panels |-> p]

(* A panel's class, its aria-expanded, and its Collapse instance, if any:  *)
(* created without or with data-parent.                                    *)
Panel == [class : {"collapse", "collapsing", "in"}, expanded : BOOLEAN,
          data : {"none", "alone", "grouped"}, transitioning : BOOLEAN]

(* A handler of the end of the panel's transition; own, if the instance    *)
(* that waits is still the panel's.                                        *)
Completion == [panel : Panels, callback : {"shown", "hidden"}, own : BOOLEAN]

VARIABLES parent,         \* the triggers have a data-parent
          transition,     \* $.support.transition
          group

collapseVars == <<parent, transition, group>>

CollapseInit ==
  /\ parent \in BOOLEAN /\ transition \in BOOLEAN
  /\ \E open \in SUBSET Panels :
       /\ parent => \A p, q \in open : p = q
       /\ group = [panels |-> [p \in Panels |->
                     [class |-> IF p \in open THEN "in" ELSE "collapse",
                      expanded |-> p \in open, data |-> "none",
                      transitioning |-> FALSE]],
                   waiting |-> <<>>,
                   mistold |-> {},     \* history: panels told of too early
                   raced |-> FALSE]    \* history: a panel lost its instance
                                       \* while it was opening

-----------------------------------------------------------------------------
Complete(s, w) ==
  [s EXCEPT !.panels[w.panel] =
     [@ EXCEPT !.class = IF w.callback = "shown" THEN "in" ELSE "collapse",
               !.transitioning = s.panels[w.panel].transitioning /\ ~w.own]]

StartTransition(s, p, name) ==
  LET t == [s EXCEPT !.panels[p] = [@ EXCEPT !.class = "collapsing",
                                             !.expanded = (name = "shown"),
                                             !.transitioning = TRUE],
                     !.mistold = @ \ {p}]
      w == [panel |-> p, callback |-> name, own |-> TRUE]
  IN  IF transition THEN [t EXCEPT !.waiting = Append(@, w)] ELSE Complete(t, w)

HidePanel(s, p) ==
  IF s.panels[p].transitioning \/ s.panels[p].class # "in" THEN s
  ELSE StartTransition(s, p, "hidden")

(* addAriaAndCollapsedClass: a panel that is on its way counts as closed.  *)
Tell(s, told) ==
  LET tell(p) == [s.panels[p] EXCEPT !.expanded = (s.panels[p].class = "in")]
  IN  [s EXCEPT
         !.panels = [p \in Panels |-> IF p \in told THEN tell(p) ELSE s.panels[p]],
         !.mistold = @ \cup {p \in told : s.panels[p].class = "collapsing"}]

Create(s, p, kind) ==
  Tell([s EXCEPT !.panels[p].data = kind],
       IF kind = "grouped" THEN Panels ELSE {p})

(* What Plugin.call(actives, 'hide') does with a panel of the group; one   *)
(* that is closed is not among them.                                       *)
HideActive(s, p) ==
  IF s.panels[p].class = "collapse" THEN s
  ELSE HidePanel(IF s.panels[p].data = "none" THEN Create(s, p, "alone") ELSE s, p)

(* .data('bs.collapse', null)                                              *)
Forget(s, forgotten) ==
  LET forget(p) == [s.panels[p] EXCEPT !.data = "none", !.transitioning = FALSE]
      disown(w) == [w EXCEPT !.own = w.own /\ w.panel \notin forgotten]
  IN  [s EXCEPT
         !.panels = [p \in Panels |-> IF p \in forgotten THEN forget(p)
                                      ELSE s.panels[p]],
         !.waiting = [i \in DOMAIN s.waiting |-> disown(s.waiting[i])],
         !.raced = @ \/ \E i \in DOMAIN s.waiting :
                           /\ s.waiting[i].panel \in forgotten
                           /\ s.waiting[i].callback = "shown"]

Actives(s, kind) == IF kind = "grouped"
                    THEN {p \in Panels : s.panels[p].class # "collapse"} ELSE {}

HideActives(s, kind) ==
  IF kind = "grouped" THEN FoldLeft(HideActive, s, InOrder) ELSE s

(* Slip: a panel of the group that is on its way does not matter.          *)
ShowPanelAnyway(s, p, kind, fresh) ==
  IF s.panels[p].class = "in" \/ (~fresh /\ s.panels[p].transitioning) THEN s
  ELSE StartTransition([HideActives(s, kind) EXCEPT !.panels[p].data = kind], p, "shown")

(* show of an instance of that kind.  A fresh one, which its constructor   *)
(* toggles, is not in the data of its panel yet.                           *)
ShowPanel(s, p, kind, fresh) ==
  LET actives == Actives(s, kind)
      first == CHOOSE a \in actives : \A b \in actives : a <= b
      unknown == s.panels[first].data = "none" \/ (fresh /\ first = p)
      hidden == HideActives(s, kind)
      known == IF unknown THEN Forget(hidden, actives) ELSE hidden
  IN  IF s.panels[p].class = "in" \/ (~fresh /\ s.panels[p].transitioning)
      THEN s
      ELSE IF actives = {} THEN StartTransition(s, p, "shown")
      ELSE IF ~unknown /\ s.panels[first].transitioning THEN s
      ELSE StartTransition([known EXCEPT !.panels[p].data = kind], p, "shown")

Kind == IF parent THEN "grouped" ELSE "alone"

(* A click: toggle, by a new instance if the panel has none.               *)
Click(p) ==
  LET known == group.panels[p].data # "none"
      s == IF known THEN group ELSE Create(group, p, Kind)
  IN  /\ Len(group.waiting) <= MaxWaiting
      /\ group' = IF s.panels[p].class = "in" THEN HidePanel(s, p)
                  ELSE ShowPanel(s, p, s.panels[p].data, ~known)
      /\ UNCHANGED <<parent, transition>>

(* Transitions all take 350 ms, so they end in the order they began.  The  *)
(* end of a panel's transition runs all that waits for it; others wait on. *)
EndsAt(s, w) ==
  IF w.panel # Head(group.waiting).panel THEN [s EXCEPT !.waiting = Append(@, w)]
  ELSE Complete(s, w)

CollapseEnd ==
  /\ group.waiting # <<>>
  /\ group' = FoldLeft(EndsAt, [group EXCEPT !.waiting = <<>>], group.waiting)
  /\ UNCHANGED <<parent, transition>>

CollapseNext == (\E p \in Panels : Click(p)) \/ CollapseEnd

CollapseSpec == CollapseInit /\ [][CollapseNext]_collapseVars

-----------------------------------------------------------------------------
CollapseTypeOK ==
  /\ parent \in BOOLEAN /\ transition \in BOOLEAN
  /\ group \in [panels : [Panels -> Panel], waiting : Seq(Completion),
                mistold : SUBSET Panels, raced : BOOLEAN]

(* When no transition is left, every panel is open or closed, of a group   *)
(* at most one is open, and assistive technology is told which, however    *)
(* quickly the clicks came; unless a panel of the group was on its way     *)
(* when another one was clicked for the first time.                        *)
SettledPanels ==
  group.waiting = <<>> =>
    /\ \A p \in Panels :
         /\ group.panels[p].class # "collapsing"
         /\ p \notin group.mistold =>
              group.panels[p].expanded = (group.panels[p].class = "in")
    /\ (parent /\ ~group.raced) => \A p, q \in Panels :
         (group.panels[p].class = "in" /\ group.panels[q].class = "in") => p = q
=============================================================================
