------------------------------ MODULE Payment -------------------------------
(***************************************************************************)
(* Charge of the payment service (paymentservice/charge.js and server.js). *)
(* The current month and the current year come from two Dates, and a new   *)
(* year may begin between them.                                            *)
(***************************************************************************)
EXTENDS Integers

CONSTANTS Cards,      \* type, whether the number is valid, month and year
          Moments,    \* [year, month] at the outset
          MaxTicks    \* bound on the months that pass

(* The page offers the twelve months of the calendar for a card.           *)
ASSUME PaymentAssumption ==
  /\ \A c \in Cards : c.year \in Int /\ c.month \in 1 .. 12
  /\ Moments \subseteq [year : Int, month : 1 .. 12]

VARIABLES clock, ticks, card,
          currentMonth,   \* what charge has read of the clock, 0 before
          charging,       \* "idle", "checked", "month_read" or "answered"
          answer,         \* "none", "transaction" or the error
          calledAt        \* history: the clock when charge was called

paymentVars ==
  <<clock, ticks, card, currentMonth, charging, answer, calledAt>>

PaymentInit == /\ clock \in Moments
               /\ ticks = 0
               /\ card \in Cards
               /\ currentMonth = 0
               /\ charging = "idle"
               /\ answer = "none"
               /\ calledAt = clock

NextMonth(t) == IF t.month = 12 THEN [year |-> t.year + 1, month |-> 1]
                                ELSE [t EXCEPT !.month = @ + 1]

Tick == /\ ticks < MaxTicks
        /\ ticks' = ticks + 1
        /\ clock' = NextMonth(clock)
        /\ UNCHANGED <<card, currentMonth, charging, answer, calledAt>>

(* ChargeServiceHandler hands the error to the caller.                     *)
Answered(with) == charging' = "answered" /\ answer' = with

(* The checks of the card's number.                                        *)
CheckCard ==
  /\ charging = "idle"
  /\ calledAt' = clock
  /\ \/ ~card.valid /\ Answered("InvalidCreditCard")
     \/ /\ card.valid /\ card.type \notin {"visa", "mastercard"}
        /\ Answered("UnacceptedCreditCard")
     \/ /\ card.valid /\ card.type \in {"visa", "mastercard"}
        /\ charging' = "checked" /\ answer' = answer
  /\ UNCHANGED <<clock, ticks, card, currentMonth>>

(* Slip: getMonth counts from 0.                                           *)
ReadMonthFromZero ==
  /\ charging = "checked" /\ charging' = "month_read"
  /\ currentMonth' = clock.month - 1
  /\ UNCHANGED <<clock, ticks, card, answer, calledAt>>

ReadMonth == /\ charging = "checked" /\ charging' = "month_read"
             /\ currentMonth' = clock.month
             /\ UNCHANGED <<clock, ticks, card, answer, calledAt>>

Expired(currentYear) ==
  currentYear * 12 + currentMonth > card.year * 12 + card.month

(* The year is read, and the card accepted or refused.                     *)
JudgeExpiry ==
  /\ charging = "month_read"
  /\ Answered(IF Expired(clock.year) THEN "ExpiredCreditCard" ELSE "transaction")
  /\ UNCHANGED <<clock, ticks, card, currentMonth, calledAt>>

ChargeNext == CheckCard \/ ReadMonth \/ JudgeExpiry

-----------------------------------------------------------------------------
(* The last month a card is good for is over.                              *)
Over(t) == card.year < t.year \/ (card.year = t.year /\ card.month < t.month)

(* No card is charged that had expired when the charge was asked for, in   *)
(* December as in any month; one is refused as expired that has not only   *)
(* if a new year began while charge was running.                           *)
ExpiryJudged ==
  /\ answer = "transaction" => ~Over(calledAt)
  /\ answer = "ExpiredCreditCard" => Over(clock) \/ calledAt.year < clock.year
=============================================================================
