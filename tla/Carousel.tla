------------------------------ MODULE Carousel ------------------------------
(***************************************************************************)
(* The carousel plugin of the bootstrap.js that bookinfo's product page    *)
(* ships.  Slides change by a timer, by arrows, keys and indicators; a     *)
(* change takes a CSS transition, and an indicator that is clicked during  *)
(* one waits for its slid event.  All state is in the record slides: an    *)
(* operator maps it to what a function of the plugin makes of it.          *)
(***************************************************************************)
EXTENDS Integers, SequencesExt

CONSTANTS Items,        \* how many slides there are, from 0
          MaxJumps      \* bound: as many indicators wait at a click, and
                        \* as many slid events when a slide ends

ASSUME SlidesAssumption == Items \in Nat \ {0} /\ MaxJumps \in Nat

Slide == 0 .. Items - 1

(* data-ride, data-interval, pause: 'hover', wrap and the class slide of a *)
(* browser with transitions.                                               *)
Settings == [ride : BOOLEAN, interval : BOOLEAN, pauseOnHover : BOOLEAN,
             wrap : BOOLEAN, slide : BOOLEAN]

VARIABLES settings, slides

carouselVars == <<settings, slides>>

Page == [made |-> FALSE,        \* there is a Carousel instance
         cycles |-> FALSE,      \* its options.interval
         paused |-> FALSE,
         sliding |-> FALSE,
         interval |-> FALSE,    \* the timer runs
         active |-> {0},        \* slides with the class active
         coming |-> {},         \* slides with the class next or prev
         indicator |-> 0,
         moving |-> <<>>,       \* handlers that wait for a transition
         slid |-> 0,            \* slid events behind a setTimeout
         jumps |-> <<>>,        \* calls of to() that wait for slid
         mouse |-> FALSE,       \* the mouse is over the carousel
         asked |-> FALSE]       \* history: told to cycle under the mouse

-----------------------------------------------------------------------------
(* pause() and cycle(), called without an event.                           *)
Pause(s) == [s EXCEPT !.paused = TRUE, !.interval = FALSE]
Cycle(s) == [s EXCEPT !.paused = FALSE, !.interval = s.cycles]

(* The same as handlers of the mouse.                                      *)
PauseOn(s) == [s EXCEPT !.interval = FALSE]
CycleOn(s) == [s EXCEPT !.interval = s.cycles /\ ~s.paused]

Current(s) == CHOOSE n \in s.active : \A k \in s.active : n <= k

ItemForDirection(s, type) ==
  LET n == Current(s)
      willWrap == \/ type = "prev" /\ n = 0
                  \/ type = "next" /\ n = Items - 1
  IN  IF willWrap /\ ~settings.wrap THEN n
      ELSE (n + IF type = "prev" THEN -1 ELSE 1) % Items

(* slide(), which pauses a running timer and starts it over.  Without a    *)
(* transition it has ended when it returns, so nothing ever waits for slid.*)
SlideTo(s, n) ==
  LET begun == [IF s.interval THEN Pause(s) ELSE s EXCEPT
                  !.sliding = TRUE, !.indicator = n]
      moved == IF settings.slide
               THEN [begun EXCEPT !.coming = @ \cup {n},
                       !.moving = Append(@, [from |-> s.active, to |-> n])]
               ELSE [begun EXCEPT !.active = {n}, !.sliding = FALSE]
  IN  IF n \in s.active THEN [s EXCEPT !.sliding = FALSE]
      ELSE IF s.interval THEN Cycle(moved) ELSE moved

(* next() and prev().                                                      *)
Turn(s, type) == IF s.sliding THEN s ELSE SlideTo(s, ItemForDirection(s, type))

(* Slip: to() does not wait for the end of a slide.                        *)
ToAtOnce(s, n) ==
  IF n = Current(s) THEN [Cycle(Pause(s)) EXCEPT !.asked = s.mouse]
  ELSE SlideTo(s, n)

To(s, n) ==
  IF s.sliding THEN [s EXCEPT !.jumps = Append(@, n)]
  ELSE IF n = Current(s) THEN [Cycle(Pause(s)) EXCEPT !.asked = s.mouse]
  ELSE SlideTo(s, n)

(* A transition ends on the slide of the first who waits; others wait on.  *)
Ended(s, m) ==
  IF m.from # Head(slides.moving).from THEN [s EXCEPT !.moving = Append(@, m)]
  ELSE [s EXCEPT !.active = (@ \ m.from) \cup {m.to}, !.coming = @ \ {m.to},
                 !.sliding = FALSE, !.slid = @ + 1]

(* Plugin creates the instance on the first call.                          *)
Make(s, interval) ==
  IF s.made THEN s ELSE [s EXCEPT !.made = TRUE, !.cycles = interval]

-----------------------------------------------------------------------------
(* When the page has loaded, a carousel with data-ride cycles.             *)
CarouselInit ==
  /\ settings \in Settings
  /\ slides = IF settings.ride /\ settings.interval
              THEN Cycle(Pause(Make(Page, TRUE)))
              ELSE IF settings.ride THEN Make(Page, FALSE) ELSE Page

Becomes(s) == slides' = s /\ settings' = settings

(* [data-slide]: the arrows.                                               *)
ClickArrow(type) == Becomes(Turn(Make(slides, settings.interval), type))

(* [data-slide-to]: an instance that it creates does not cycle.            *)
ClickIndicator(n) == /\ Len(slides.jumps) <= MaxJumps
                     /\ Becomes(To(Make(slides, FALSE), n))

Keydown(type) == slides.made /\ Becomes(Turn(slides, type))

TimerFires == slides.interval /\ Becomes(Turn(slides, "next"))

SlideEnds ==
  /\ slides.moving # <<>> /\ slides.slid <= MaxJumps
  /\ Becomes(FoldLeft(Ended, [slides EXCEPT !.moving = <<>>], slides.moving))

(* slid.bs.carousel: to() again for all who have waited.                   *)
SlidEvent ==
  /\ slides.slid > 0
  /\ Becomes(FoldLeft(To, [slides EXCEPT !.slid = @ - 1, !.jumps = <<>>],
                      slides.jumps))

MouseEnters ==
  /\ ~slides.mouse
  /\ LET s == [slides EXCEPT !.mouse = TRUE, !.asked = FALSE]
     IN  Becomes(IF s.made /\ settings.pauseOnHover THEN PauseOn(s) ELSE s)

MouseLeaves ==
  /\ slides.mouse
  /\ LET s == [slides EXCEPT !.mouse = FALSE]
     IN  Becomes(IF s.made /\ settings.pauseOnHover THEN CycleOn(s) ELSE s)

(* A script of the page: .carousel('pause') and .carousel('cycle').        *)
CallPause == slides.made /\ Becomes(Pause(slides))
CallCycle == /\ slides.made
             /\ Becomes([Cycle(slides) EXCEPT !.asked = slides.mouse])

CarouselNext == \/ \E type \in {"next", "prev"} :
                     ClickArrow(type) \/ Keydown(type)
                \/ \E n \in Slide : ClickIndicator(n)
                \/ TimerFires
                \/ SlideEnds
                \/ SlidEvent
                \/ MouseEnters
                \/ MouseLeaves
                \/ CallPause
                \/ CallCycle

-----------------------------------------------------------------------------
CarouselTypeOK ==
  /\ settings \in Settings
  /\ slides \in [made : BOOLEAN, cycles : BOOLEAN, paused : BOOLEAN,
                 sliding : BOOLEAN, interval : BOOLEAN,
                 active : SUBSET Slide, coming : SUBSET Slide,
                 indicator : Slide,
                 moving : Seq([from : SUBSET Slide, to : Slide]),
                 slid : Nat, jumps : Seq(Slide),
                 mouse : BOOLEAN, asked : BOOLEAN]

(* However clicks, keys, the timer and transition ends mix: when no slide  *)
(* is moving, one is shown, its indicator is the marked one, and the       *)
(* carousel takes orders again; an indicator that was clicked waits only   *)
(* for a slide to end or its event; and under the mouse the slides stand,  *)
(* unless they were told to cycle there.                                   *)
SettledSlides ==
  /\ slides.moving = <<>> => /\ slides.active = {slides.indicator}
                             /\ slides.coming = {} /\ ~slides.sliding
  /\ slides.jumps # <<>> => slides.moving # <<>> \/ slides.slid > 0
  /\ (slides.mouse /\ slides.interval /\ settings.pauseOnHover) => slides.asked
=============================================================================
