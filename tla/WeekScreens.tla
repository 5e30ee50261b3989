------------------------------ MODULE WeekScreens ------------------------------
(***************************************************************************)
(* The control center's screens over one week's recommendation: the tab    *)
(* that has this week's generated, and the detail screen of it, with its   *)
(* cached copy, its polling and its commands.  The row is moved by what    *)
(* the api promises of a generation (see Recommendations), and by other    *)
(* operators.                                                              *)
(***************************************************************************)
EXTENDS Naturals

CONSTANTS
  MaxRevisions,          \* bound on the generations of the week
  MaxDropped             \* bound on the answers that are lost

VARIABLES
  ranking,               \* the row: its status, its generation and that of its items
  thisWeek,              \* whether the row's week is the current one
  stuck,                 \* whether the generation under way will never end
  copy,                  \* the operator's cached copy of the row
  poll,                  \* a refetch of the copy: none, asked for, or the row it read
  press,                 \* the command the operator sent, with its answer
  acted,                 \* history: somebody else's command changed what is shown
  dropped

weekVars == <<ranking, thisWeek, stuck, copy, poll, press, acted, dropped>>

\* IN_PROGRESS, and AUTO_PROGRESS_RECOMMENDATION_STATUSES of the screens.
InProgress == {"generating", "regenerating"}
NoPoll == [pc |-> "none"]
Asked == [pc |-> "asked"]
NoPress == [op |-> "none"]
NoAnswer == [status |-> "none", generation |-> 0]
Conflict == [status |-> "conflict", generation |-> 0]

\* recommendationActionsFor.
RecommendationActionsFor(status) ==
  {op \in {"approve", "revise"} : status = "pending_review"}
  \union {op \in {"generate"} : status = "generation_failed"}

\* The tab's button has this week's generated, whatever there is of it; the detail screen
\* has what the copy allows.
Offered(status) ==
  RecommendationActionsFor(status) \union {op \in {"generate"} : thisWeek}

\* generate: a week that has nothing, that failed, or whose generation takes too long.
Generates ==
  \/ ranking.status \in {"none", "generation_failed"}
  \/ ranking.status \in InProgress /\ stuck

Accepts(op) ==
  CASE op = "generate" -> Generates
    [] op \in {"approve", "revise"} -> ranking.status = "pending_review"

-------------------------------------------------------------------------------
(* The row *)

\* A generation ends, or will never end.
JobEnds ==
  /\ ranking.status \in InProgress /\ ~ stuck
  /\ \/ ranking' = [ranking EXCEPT !.status = "pending_review", !.items = ranking.generation]
     \/ ranking' = [ranking EXCEPT !.status = "generation_failed"]
  /\ UNCHANGED <<thisWeek, stuck, copy, poll, press, acted, dropped>>

JobDies ==
  /\ ranking.status \in InProgress /\ ~ stuck
  /\ stuck' = TRUE
  /\ UNCHANGED <<ranking, thisWeek, copy, poll, press, acted, dropped>>

WeekPasses ==
  /\ thisWeek /\ ranking.status # "none"
  /\ thisWeek' = FALSE
  /\ UNCHANGED <<ranking, stuck, copy, poll, press, acted, dropped>>

-------------------------------------------------------------------------------
(* The screens *)

\* A button, confirmed; "looked" is the generation of the items on the screen.
Press ==
  /\ press = NoPress
  /\ \E op \in Offered(copy.status) :
       press' = [op |-> op, looked |-> copy.items, answer |-> NoAnswer]
  /\ UNCHANGED <<ranking, thisWeek, stuck, copy, poll, acted, dropped>>

\* A revision goes straight on to regenerate.
Carries(op) ==
  /\ op = "revise" => ranking.generation < MaxRevisions
  /\ ranking' =
       CASE op = "approve" -> [ranking EXCEPT !.status = "approved"]
         [] op = "revise" -> [ranking EXCEPT !.status = "regenerating", !.generation = @ + 1]
         [] op = "generate" ->
              [ranking EXCEPT !.status = "generating",
                              !.generation = IF ranking.status = "none" THEN 1 ELSE @]
  /\ stuck' = FALSE

\* The api takes the row as it is now.
Apply ==
  /\ press # NoPress /\ press.answer = NoAnswer
  /\ IF Accepts(press.op)
       THEN /\ Carries(press.op)
            /\ press' = [press EXCEPT !.answer = [status |-> ranking'.status,
                                                  generation |-> ranking'.generation]]
       ELSE /\ press' = [press EXCEPT !.answer = Conflict]
            /\ UNCHANGED <<ranking, stuck>>
  /\ UNCHANGED <<thisWeek, copy, poll, acted, dropped>>

\* Another operator, on a screen that is up to date.
OthersAct ==
  /\ \E op \in Offered(ranking.status) : Accepts(op) /\ Carries(op)
  /\ acted' = TRUE
  /\ UNCHANGED <<thisWeek, copy, poll, press, dropped>>

\* The faulty version for the mutant checks: a refetch that began before is let go on.
AfterAnswer_KeepsPoll == IF poll = NoPoll THEN Asked ELSE poll

\* Either way the copy is invalidated: a refetch under way is dropped, another begins.
AfterAnswer == Asked

\* applyRecommendationResult: the answer replaces the row, the items stay those that the
\* screen has; a conflict only invalidates.
Answer ==
  /\ press # NoPress /\ press.answer # NoAnswer
  /\ copy' = IF press.answer = Conflict THEN copy
             ELSE [copy EXCEPT !.status = press.answer.status,
                               !.generation = press.answer.generation]
  /\ poll' = AfterAnswer
  /\ press' = NoPress
  /\ UNCHANGED <<ranking, thisWeek, stuck, acted, dropped>>

\* The answer is lost: a message, and everything stays as it is.
LoseAnswer ==
  /\ press # NoPress /\ dropped < MaxDropped
  /\ dropped' = dropped + 1 /\ press' = NoPress
  /\ acted' = TRUE
  /\ UNCHANGED <<ranking, thisWeek, stuck, copy, poll>>

\* Every ten seconds while the copy is in progress.
Poll ==
  /\ poll = NoPoll /\ copy.status \in InProgress
  /\ poll' = Asked
  /\ UNCHANGED <<ranking, thisWeek, stuck, copy, press, acted, dropped>>

\* The operator opens the screen again.
Reopen ==
  /\ poll = NoPoll /\ press = NoPress
  /\ poll' = Asked
  /\ UNCHANGED <<ranking, thisWeek, stuck, copy, press, acted, dropped>>

\* getReview reads the row once; the contents of its items do not matter here.
Read ==
  /\ poll = Asked
  /\ poll' = [pc |-> "read", row |-> ranking]
  /\ UNCHANGED <<ranking, thisWeek, stuck, copy, press, acted, dropped>>

Show ==
  /\ poll.pc = "read"
  /\ copy' = poll.row
  /\ poll' = NoPoll
  /\ acted' = (acted /\ ~ (press = NoPress /\ poll.row = ranking))
  /\ UNCHANGED <<ranking, thisWeek, stuck, press, dropped>>

WeekInit ==
  /\ ranking = [status |-> "none", generation |-> 0, items |-> 0]
  /\ thisWeek = TRUE /\ stuck = FALSE /\ copy = ranking
  /\ poll = NoPoll /\ press = NoPress
  /\ acted = FALSE /\ dropped = 0

WeekNext ==
  \/ JobEnds \/ JobDies \/ WeekPasses \/ OthersAct
  \/ Press \/ Apply \/ Answer \/ LoseAnswer
  \/ Poll \/ Reopen \/ Read \/ Show

-------------------------------------------------------------------------------
(* Properties *)

\* A ranking is approved by somebody who has its items on the screen, unless another
\* operator acted meanwhile or an answer was lost.
ApprovesWhatIsShown ==
  [][press.op = "approve" /\ press.answer = NoAnswer
       /\ press'.op = "approve" /\ press'.answer \notin {NoAnswer, Conflict}
       => press.looked = ranking.items \/ acted]_weekVars

\* Whatever becomes of its generation, a recommendation can be brought forward with a
\* button that the api accepts, until it is approved; but for a generation that hangs
\* until its week has passed, which only the tab of that week could have restarted.
WeekGoesOn ==
  thisWeek \/ ~ stuck =>
    \/ ranking.status = "approved"
    \/ ranking.status \in InProgress /\ ~ stuck
    \/ \E op \in Offered(ranking.status) : Accepts(op)
===============================================================================
