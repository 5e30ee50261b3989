-------------------------------- MODULE LiveForm --------------------------------
(***************************************************************************)
(* The form that creates a live session in the control center              *)
(* (app/(app)/(tabs)/live.tsx, features/live/validation.ts), and the       *)
(* request's schema and handler (live.schemas.ts, live-sessions.service    *)
(* create).  The four fields of a product card are one value: nothing      *)
(* filled in, all well, or something wrong.                                *)
(***************************************************************************)
EXTENDS Naturals, Sequences

CONSTANTS
  MaxCards,              \* MAX_PRODUCT_CARDS_PER_SESSION
  MaxEdits,              \* bound on the edits
  MaxSubmits             \* bound on the times the button is pressed

VARIABLES
  entry,                 \* the fields: [type, title, at, cards]
  complaints,            \* CreateLiveSessionErrors: [title, at, cards]
  submission,            \* the request under way, or None
  fresh,                 \* the complaints are those of this form, nothing was edited since
  edits, submits

formVars == <<entry, complaints, submission, fresh, edits, submits>>

\* Times as one may type them: as toISOString writes them, one that only Date.parse takes,
\* and one that is no time.
Time == {"empty", "iso", "local", "never"}
Card == {"blank", "good", "bad"}
Type == {"news", "emergency", "live_commerce"}
None == [type |-> "none", title |-> "empty", at |-> "empty", cards |-> <<>>]
NoComplaints == [title |-> FALSE, at |-> FALSE, cards |-> {}]

FormTypeOK ==
  /\ entry.type \in Type /\ entry.at \in Time /\ Len(entry.cards) <= MaxCards
  /\ complaints.cards \subseteq 1 .. MaxCards
  /\ edits \in 0 .. MaxEdits /\ submits \in 0 .. MaxSubmits /\ fresh \in BOOLEAN

FormInit ==
  /\ entry = [type |-> "news", title |-> "empty", at |-> "empty", cards |-> <<>>]
  /\ complaints = NoComplaints /\ submission = None
  /\ fresh = FALSE /\ edits = 0 /\ submits = 0

-------------------------------------------------------------------------------
(* The fields, which stay open while a request is under way *)

Edit(value) ==
  /\ edits < MaxEdits /\ edits' = edits + 1
  /\ entry' = value /\ value # entry
  /\ fresh' = FALSE
  /\ UNCHANGED <<complaints, submission, submits>>

EditFields ==
  \/ \E t \in Type : Edit([entry EXCEPT !.type = t])
  \/ \E t \in {"empty", "title"} : Edit([entry EXCEPT !.title = t])
  \/ entry.type # "emergency" /\ \E a \in Time : Edit([entry EXCEPT !.at = a])

\* ProductCardsField: filter((_, i) => i !== index)
Without(cards, i) == SubSeq(cards, 1, i - 1) \o SubSeq(cards, i + 1, Len(cards))

EditCards ==
  /\ entry.type = "live_commerce"
  /\ \/ Len(entry.cards) < MaxCards /\ Edit([entry EXCEPT !.cards = Append(@, "blank")])
     \/ \E i \in DOMAIN entry.cards : \/ \E c \in Card : Edit([entry EXCEPT !.cards[i] = c])
                                      \/ Edit([entry EXCEPT !.cards = Without(@, i)])

-------------------------------------------------------------------------------
(* Submission *)

\* What the button hands over: no time for an emergency, no cards but for live commerce.
Input ==
  [entry EXCEPT !.at = IF entry.type = "emergency" THEN "empty" ELSE @,
                !.cards = IF entry.type = "live_commerce" THEN @ ELSE <<>>]

Filled(input) ==
  LET of[i \in 0 .. Len(input.cards)] ==
        IF i = 0 THEN <<>>
        ELSE IF input.cards[i] # "blank" THEN Append(of[i - 1], input.cards[i]) ELSE of[i - 1]
  IN  of[Len(input.cards)]

TimeIsWrong(input) == input.type # "emergency" /\ input.at \in {"empty", "never"}

\* validateCreateLiveSession: cards are complained of by their place among the filled ones.
Validate(input) ==
  [title |-> input.title = "empty",
   at |-> TimeIsWrong(input),
   cards |-> {i \in DOMAIN Filled(input) : Filled(input)[i] = "bad"}]

Submit ==
  /\ submission = None /\ submits < MaxSubmits /\ submits' = submits + 1
  /\ IF Validate(Input) # NoComplaints
     THEN complaints' = Validate(Input) /\ fresh' = TRUE /\ UNCHANGED submission
     ELSE /\ complaints' = NoComplaints /\ fresh' = FALSE
          /\ submission' = [Input EXCEPT !.cards = Filled(Input)]
  /\ UNCHANGED <<entry, edits>>

\* zCreateLiveSession, whose datetime() takes the ISO form only, and create()'s rule that
\* an emergency, and nothing else, goes without a time.
Accepts(r) ==
  /\ r.title # "empty" /\ Len(r.cards) <= MaxCards
  /\ \A i \in DOMAIN r.cards : r.cards[i] = "good"
  /\ r.at \in {"empty", "iso"} /\ (r.type = "emergency" <=> r.at = "empty")

Complain == complaints' = [complaints EXCEPT !.title = TRUE] /\ UNCHANGED entry

\* The form is emptied when the session was created, whatever it holds by then; an answer
\* that is lost reads like a refusal.
Answer ==
  /\ submission # None /\ submission' = None
  /\ IF Accepts(submission)
     THEN \/ complaints' = complaints
             /\ entry' = [entry EXCEPT !.title = "empty", !.at = "empty", !.cards = <<>>]
          \/ Complain
     ELSE Complain
  /\ UNCHANGED <<edits, submits, fresh>>

FormNext == EditFields \/ EditCards \/ Submit \/ Answer

-------------------------------------------------------------------------------
(* Properties *)

\* What the form lets through, the service takes, but for a time that only Date.parse reads;
\* and the cards left over from another type are not sent along.
SubmittedIsAccepted ==
  submission # None =>
    /\ submission.at # "local" => Accepts(submission)
    /\ submission.cards # <<>> => submission.type = "live_commerce"

\* A press of the button that sends nothing leaves a complaint in sight, and, unless blank
\* cards come before it, at a card that is wrong.
RefusalIsShown ==
  fresh =>
    /\ \/ complaints.title
       \/ complaints.at /\ entry.type # "emergency"
       \/ entry.type = "live_commerce" /\ \E i \in complaints.cards : i \in DOMAIN entry.cards
    /\ \A i \in complaints.cards :
         /\ i \in DOMAIN entry.cards
         /\ (\A k \in 1 .. i : entry.cards[k] # "blank") => entry.cards[i] = "bad"
===============================================================================
