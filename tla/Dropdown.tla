------------------------------ MODULE Dropdown ------------------------------
(***************************************************************************)
(* The dropdown plugin of the bootstrap.js that bookinfo's product page    *)
(* ships: menus under a toggle each, driven by clicks, the keyboard and    *)
(* calls of dropdown('toggle').  A right click, a click in a form and the  *)
(* Escape key on a closed menu change nothing and are left out, as is a    *)
(* menu in a navigation bar.  All state is in the record menus.            *)
(***************************************************************************)
EXTENDS Integers, FiniteSets

CONSTANTS MenuIds,      \* the toggles, and each one's menu
          MaxItems      \* bound on the items of a menu

ASSUME MaxItemsAssumption == MaxItems \in Nat

Keys == {"up", "down", "space", "escape"}

VARIABLES touch,        \* 'ontouchstart' in document.documentElement
          disabled,     \* toggles with the class disabled
          items,        \* how many items of each menu can be reached
          menus

menuVars == <<touch, disabled, items, menus>>

(* The focus is on the item of an index, or on the toggle, whose index in  *)
(* $items is -1; Nowhere when it is in none of the menus.                    *)
Position == MenuIds \X (-1 .. MaxItems - 1)
Nowhere == <<>>

DropdownInit ==
  /\ touch \in BOOLEAN /\ disabled \in SUBSET MenuIds
  /\ items \in [MenuIds -> 0 .. MaxItems]
  /\ menus = [open |-> {}, expanded |-> {},  \* the class, and aria-expanded
              backdrops |-> {},  \* toggles that one was put after
              focus |-> Nowhere,
              bare |-> FALSE]    \* history: a click in an input of the open
                                 \* menu took its backdrop

-----------------------------------------------------------------------------
(* clearMenus, after a click in an input of the menus in spared.           *)
ClearMenus(s, spared) ==
  [s EXCEPT !.backdrops = {}, !.open = @ \cap spared,
            !.expanded = @ \ (s.open \ spared)]

OpenMenu(s, m) ==
  [s EXCEPT !.backdrops = IF touch THEN @ \cup {m} ELSE @,
            !.focus = <<m, -1>>, !.bare = FALSE,
            !.expanded = @ \cup {m}, !.open = @ \cup {m}]

(* Slip: the menus that are open are not cleared first.                    *)
ToggleMenuOnly(s, m) ==
  IF m \in s.open THEN ClearMenus(s, {}) ELSE OpenMenu(s, m)

(* toggle of a toggle that is not disabled.                                *)
ToggleMenu(s, m) ==
  LET cleared == ClearMenus(s, {})
  IN  IF m \in s.open THEN cleared ELSE OpenMenu(cleared, m)

(* The index of an item that an arrow key, or space, moves the focus to.   *)
Moved(index, key, n) ==
  LET to == CASE key = "up" /\ index > 0 -> index - 1
              [] key = "down" /\ index < n - 1 -> index + 1
              [] OTHER -> index
  IN  IF to = -1 THEN 0 ELSE to

MenuBecomes(s) == menus' = s /\ UNCHANGED <<touch, disabled, items>>

(* A click, if no backdrop is in the way, or the Enter key.  From a toggle *)
(* that is disabled it goes on to the document.                            *)
ClickToggle(m) ==
  /\ menus.backdrops = {} \/ menus.focus = <<m, -1>>
  /\ MenuBecomes(IF m \in disabled THEN ClearMenus(menus, {})
                 ELSE ToggleMenu(menus, m))

CallToggle(m) == m \notin disabled /\ MenuBecomes(ToggleMenu(menus, m))

ClickItem(m) ==
  /\ m \in menus.open
  /\ \E i \in 0 .. items[m] - 1 :
       MenuBecomes(ClearMenus([menus EXCEPT !.focus = <<m, i>>], {}))

ClickInput(m) ==
  /\ m \in menus.open
  /\ MenuBecomes(ClearMenus([menus EXCEPT !.focus = Nowhere, !.bare = touch], {m}))

(* On a touch screen clicks on the page do not reach the document, those   *)
(* on the backdrop do.                                                     *)
ClickPage ==
  /\ ~touch \/ menus.backdrops # {}
  /\ MenuBecomes(ClearMenus([menus EXCEPT !.focus = Nowhere], {}))

KeepsOpen(m, i, key) ==
  IF items[m] = 0 THEN menus
  ELSE [menus EXCEPT !.focus = <<m, Moved(i, key, items[m])>>]

(* keydown on a toggle, or in a menu that is shown.  The click by which    *)
(* Escape closes it is one on the menu when the focus was in there: it     *)
(* gets to the document.                                                   *)
MenuKeydown(key) ==
  \E m \in MenuIds, i \in -1 .. MaxItems - 1 :
    /\ menus.focus = <<m, i>>
    /\ IF i = -1 THEN m \notin disabled ELSE m \in menus.open
    /\ \/ /\ m \notin menus.open /\ key # "escape"
          /\ MenuBecomes(ToggleMenu(menus, m))
       \/ /\ m \in menus.open /\ key = "escape"
          /\ LET at == [menus EXCEPT !.focus = <<m, -1>>]
             IN  MenuBecomes(IF i = -1 THEN ToggleMenu(at, m) ELSE ClearMenus(at, {}))
       \/ /\ m \in menus.open /\ key # "escape"
          /\ MenuBecomes(KeepsOpen(m, i, key))

(* The tab key takes the focus to a toggle.                                *)
TabTo(m) == MenuBecomes([menus EXCEPT !.focus = <<m, -1>>])

DropdownNext == \/ \E m \in MenuIds : \/ ClickToggle(m) \/ CallToggle(m)
                                     \/ ClickItem(m) \/ ClickInput(m)
                                     \/ TabTo(m)
                \/ ClickPage
                \/ \E key \in Keys : MenuKeydown(key)

-----------------------------------------------------------------------------
DropdownTypeOK ==
  /\ touch \in BOOLEAN /\ disabled \subseteq MenuIds
  /\ items \in [MenuIds -> 0 .. MaxItems]
  /\ menus \in [open : SUBSET MenuIds, expanded : SUBSET MenuIds,
                backdrops : SUBSET MenuIds, focus : Position \cup {Nowhere},
                bare : BOOLEAN]
  /\ menus.focus # Nowhere => menus.focus[2] < items[menus.focus[1]]

(* One menu at most is open, and assistive technology is told which.  On a *)
(* touch screen a backdrop closes it, until a click in an input of the menu*)
(* takes the backdrop away; none is left without its menu.                 *)
SettledMenus ==
  /\ Cardinality(menus.open) <= 1
  /\ menus.expanded = menus.open
  /\ menus.backdrops \subseteq menus.open
  /\ touch /\ ~menus.bare => menus.backdrops = menus.open
=============================================================================
