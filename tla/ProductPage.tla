---------------------------- MODULE ProductPage -----------------------------
(***************************************************************************)
(* bookinfo's product page with the plugins of the bootstrap.js it ships.  *)
(* The plugins share nothing but transition's end, and handlers run one at *)
(* a time: a step of the page is a step of one plugin.                     *)
(***************************************************************************)
EXTENDS Modal, Collapse, Carousel, Tooltip, Tabs, Dropdown

pageVars == <<modalVars, collapseVars, carouselVars, tipVars, tabsVars, menuVars>>

PageInit == /\ ModalInit /\ CollapseInit /\ CarouselInit
            /\ TipInit /\ TabsInit /\ DropdownInit

ModalStep ==
  /\ ModalNext
  /\ UNCHANGED <<collapseVars, carouselVars, tipVars, tabsVars, menuVars>>

CollapseStep ==
  /\ CollapseNext
  /\ UNCHANGED <<modalVars, carouselVars, tipVars, tabsVars, menuVars>>

CarouselStep ==
  /\ CarouselNext
  /\ UNCHANGED <<modalVars, collapseVars, tipVars, tabsVars, menuVars>>

TipStep ==
  /\ TipNext
  /\ UNCHANGED <<modalVars, collapseVars, carouselVars, tabsVars, menuVars>>

TabsStep ==
  /\ TabsNext
  /\ UNCHANGED <<modalVars, collapseVars, carouselVars, tipVars, menuVars>>

DropdownStep ==
  /\ DropdownNext
  /\ UNCHANGED <<modalVars, collapseVars, carouselVars, tipVars, tabsVars>>

PageNext == \/ ModalStep \/ CollapseStep \/ CarouselStep
            \/ TipStep \/ TabsStep \/ DropdownStep

PageSpec == PageInit /\ [][PageNext]_pageVars /\ ModalFairness

(* The state of every plugin has its type.  Of the dialog it is more than  *)
(* that: this.$backdrop is an element of the document or null.             *)
PageTypeOK == /\ ModalTypeOK /\ CollapseTypeOK /\ CarouselTypeOK /\ TipTypeOK
              /\ TabsTypeOK /\ DropdownTypeOK

(* What a click closes and what it opens: when no transition is left, the  *)
(* panels, the panes of the tabs and the menus are as the clicks and keys  *)
(* asked, and as assistive technology is told.                             *)
SettledPanes == SettledPanels /\ SettledTabs /\ SettledMenus
=============================================================================
