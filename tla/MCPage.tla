------------------------------- MODULE MCPage -------------------------------
(* The product page for TLC.  Its plugins share nothing but transition's   *)
(* end, so one of them at a time is used; the others rest.                 *)
EXTENDS ProductPage

VARIABLE plugin

(* Of the dialog's options at most one differs from those of the page.     *)
Usual == [backdrop |-> "true", keyboard |-> TRUE, fade |-> TRUE,
          tabindex |-> FALSE, scrollbar |-> TRUE]
Unusual == {f \in DOMAIN Usual : options[f] # Usual[f]}

(* PageInit, of each plugin only one state if it is not the one in use.    *)
Init == /\ plugin \in {"modal", "collapse", "carousel", "tooltip", "tabs", "dropdown"}
        /\ ModalInit
        /\ IF plugin = "modal" THEN \A f, g \in Unusual : f = g ELSE Unusual = {}
        /\ CollapseInit
        /\ plugin # "collapse" =>
             group.panels[1].class = "in" /\ parent /\ transition
        /\ CarouselInit
        /\ plugin # "carousel" => \A f \in DOMAIN settings : ~settings[f]
        /\ TipInit
        /\ plugin # "tooltip" =>
             tipOptions = [trigger |-> {"hover"}, showDelay |-> FALSE,
                           hideDelay |-> FALSE, animation |-> TRUE]
        /\ TabsInit
        /\ plugin # "tabs" => fading /\ tabs.active = {} /\ tabs.fade = {}
        /\ DropdownInit
        /\ plugin # "dropdown" => ~touch /\ disabled = {} /\ items = [m \in MenuIds |-> 0]

Next == /\ \/ plugin = "modal" /\ ModalStep
           \/ plugin = "collapse" /\ CollapseStep
           \/ plugin = "carousel" /\ CarouselStep
           \/ plugin = "tooltip" /\ TipStep
           \/ plugin = "tabs" /\ TabsStep
           \/ plugin = "dropdown" /\ DropdownStep
        /\ plugin' = plugin

vars == <<plugin, pageVars>>

Spec == Init /\ [][Next]_vars /\ ModalFairness
=============================================================================
