--------------------------- MODULE ContentScreens ---------------------------
(* A screen over one content, the owner's or a center operator's: it has a  *)
(* cached copy of the row, offers the commands the copy allows, asks for a  *)
(* confirmation, and learns of the outcome from the answer, from a refresh, *)
(* or not at all; meanwhile the system and other people move the content.   *)
EXTENDS Naturals, ContentStatus

CONSTANTS
  MaxGeneration, \* bound on regenerations
  MaxLost        \* answers lost in the network

VARIABLES
  role,      \* whose screen it is: "owner" or "center"
  row,       \* the content's status and generation
  shown,     \* the screen's copy of them
  refresh,   \* of the copy: none, asked for, or the row it read
  dialog,    \* the command the user was asked to confirm, and the generation shown then
  command,   \* the command that was sent, with its answer
  overtaken, \* somebody else's command or a lost answer made the copy old
  lost

screenVars == <<role, row, shown, refresh, dialog, command, overtaken, lost>>

Role == {"owner", "center"}
Row == [status : Status, generation : 1..MaxGeneration]
None == [op |-> "none"]
NoRefresh == [status |-> "none", generation |-> 0]
Asked == [status |-> "asked", generation |-> 0]

------------------------------------------------------------------------------
(* What the screens offer.                                                  *)
SystemDriven == {"uploading", "uploaded", "processing", "analyzing", "preview_generating",
                 "reporter_approved", "regenerating", "publishing"}

\* Edges of the map that no code of their own drives.
Unimplemented == {<<"analysis_failed", "preview_generating">>, <<"published", "archived">>}

\* The statuses that move by themselves: those with a way out that is implemented.
AutoProgress ==
  {s \in SystemDriven : \E to \in CONTENT_STATUS_TRANSITIONS[s] : <<s, to>> \notin Unimplemented}

Dedicated(status) ==
  \/ status \in FailureStatus
  \/ status \in {"awaiting_center_review", "center_approved", "revision_requested", "uploading"}

ManualTargets(status) ==
  IF \/ Dedicated(status) \/ status \in AutoProgress
     \/ CONTENT_STATUS_TRANSITIONS[status] \cap AutoProgress # {}
  THEN {} ELSE CONTENT_STATUS_TRANSITIONS[status]

CenterActions(status) ==
  {op \in {"approve", "requestRevision", "reject"} : status = "awaiting_center_review"}
  \union {op \in {"retry"} : status \in FailureStatus}
  \union {op \in {"distribute"} : status = "center_approved"}
  \union {op \in {"regenerate"} : status = "revision_requested"}
  \union {op \in {"recover"} : status = "uploading"}
  \union {op \in {"archive"} : "archived" \in ManualTargets(status)}
  \union {op \in {"cancel"} : "canceled" \in ManualTargets(status)}

ReporterActions(status) ==
  {op \in {"approve", "requestRevision", "reject"} : status = "awaiting_reporter_review"}
  \union {op \in {"retry"} : status = "upload_failed"}
  \union {op \in {"startUpload"} : status = "draft"}
  \union {op \in {"regenerate"} : CanTransitionContent(status, "regenerating")}
  \union {op \in {"cancel"} : CanTransitionContent(status, "canceled")}

Offered(who, status) == IF who = "center" THEN CenterActions(status) ELSE ReporterActions(status)

(* What the api accepts, and where it leads.                                *)
Targets(op, status) ==
  CASE op = "approve" -> IF status = "awaiting_center_review" THEN {"center_approved"}
                         ELSE {AfterReporterApproval(p) : p \in ReviewPolicies}
    [] op = "requestRevision" -> {"revision_requested"}
    [] op = "reject" -> {"rejected"}
    [] op = "cancel" -> {"canceled"}
    [] op = "regenerate" -> {"regenerating"}
    [] op = "retry" -> IF status \in FailureStatus THEN {CONTENT_RETRY_TARGET[status]} ELSE {}
    [] op = "distribute" -> IF status = "center_approved" THEN {"publishing"} ELSE {}
    [] op = "archive" -> {"archived"}
    [] op = "recover" -> {"upload_failed"}
    [] op = "startUpload" -> {"uploading"}

Reviewer(status) == IF status = "awaiting_center_review" THEN "center" ELSE "owner"

Accepts(who, op, status) ==
  /\ op \in {"approve", "requestRevision", "reject"} => who = Reviewer(status)
  /\ op = "retry" => who = "center" \/ status = "upload_failed"
  /\ op \in {"distribute", "archive"} => who = "center"
  /\ Targets(op, status) # {}
  /\ \/ op = "approve" /\ status \in {"awaiting_reporter_review", "awaiting_center_review"}
     \/ op # "approve" /\ \A to \in Targets(op, status) : CanTransitionContent(status, to)

------------------------------------------------------------------------------
ScreenInit ==
  /\ role \in Role
  /\ row = [status |-> "draft", generation |-> 1] /\ shown = row
  /\ refresh = NoRefresh /\ dialog = None /\ command = None /\ overtaken = FALSE
  /\ lost = 0

Moved(to) ==
  /\ to = "regenerating" => row.generation < MaxGeneration
  /\ row' = [status |-> to,
             generation |-> IF to = "regenerating" THEN row.generation + 1 ELSE row.generation]

\* The pipeline and the distribution move the content on; the owner's uploader too.
SystemMoves ==
  /\ row.status \in AutoProgress
  /\ \E to \in CONTENT_STATUS_TRANSITIONS[row.status] \ {"canceled"} : Moved(to)
  /\ UNCHANGED <<role, shown, refresh, dialog, command, overtaken, lost>>

\* Somebody else gives a command, from a screen of their own.
OthersMove ==
  /\ \E who \in Role : \E op \in Offered(who, row.status) :
       Accepts(who, op, row.status) /\ \E to \in Targets(op, row.status) : Moved(to)
  /\ overtaken' = TRUE
  /\ UNCHANGED <<role, shown, refresh, dialog, command, lost>>

------------------------------------------------------------------------------
Asks == refresh' = Asked /\ UNCHANGED <<role, row, shown, dialog, command, overtaken, lost>>

\* While the screen shows a status that moves by itself it asks again every 15 seconds.
Poll == refresh = NoRefresh /\ shown.status \in AutoProgress /\ Asks

\* The user comes back to the screen.
Revisit == refresh = NoRefresh /\ shown # row /\ Asks

Read ==
  /\ refresh = Asked /\ refresh' = row
  /\ UNCHANGED <<role, row, shown, dialog, command, overtaken, lost>>

Deliver ==
  /\ refresh \notin {NoRefresh, Asked}
  /\ shown' = refresh /\ refresh' = NoRefresh
  /\ overtaken' = (overtaken /\ ~(dialog = None /\ command = None /\ refresh = row))
  /\ UNCHANGED <<role, row, dialog, command, lost>>

Decision == {"approve", "requestRevision", "reject"}

\* A command that is offered while none is under way: the confirmation opens, or for a
\* decision that needs a note the sheet it is written on.
Sheet == {"requestRevision", "reject"}

Ask(offered) ==
  /\ dialog = None /\ command = None
  /\ \E op \in offered :
       dialog' = [op |-> op, looked |-> IF op \in Decision THEN shown.generation ELSE 1]
  /\ UNCHANGED <<role, row, shown, refresh, command, overtaken, lost>>

\* The center's screen, the owner's preview, and the owner's detail screen.
CenterAsks == role = "center" /\ Ask(CenterActions(shown.status))
OwnerReviews == role = "owner" /\ Ask(ReporterActions(shown.status) \cap Decision)
OwnerAsks == role = "owner" /\ Ask(ReporterActions(shown.status) \ Decision)

\* What was confirmed is sent, though the screen may have changed meanwhile.
Sent == [op |-> dialog.op, looked |-> dialog.looked, answer |-> NoRefresh]

Confirm(who) ==
  /\ role = who /\ dialog # None /\ dialog.op \notin Sheet
  /\ dialog' = None
  /\ command' \in {None, Sent}
  /\ UNCHANGED <<role, row, shown, refresh, overtaken, lost>>

\* A sheet is closed by the user or by the answer; until then it keeps its text.
Submit(who) ==
  /\ role = who /\ command = None /\ dialog # None /\ dialog.op \in Sheet
  /\ \/ dialog' = None /\ UNCHANGED command
     \/ command' = Sent /\ UNCHANGED dialog
  /\ UNCHANGED <<role, row, shown, refresh, overtaken, lost>>

CenterConfirms == Confirm("center")
CenterSubmits == Submit("center")
OwnerConfirms == Confirm("owner")
OwnerSubmits == Submit("owner")

Refused == [status |-> "conflict", generation |-> 0]

\* The api looks at the content as it is now, not at what was on the screen.
Apply ==
  /\ command # None /\ command.answer = NoRefresh
  /\ \/ /\ Accepts(role, command.op, row.status)
        /\ \E to \in Targets(command.op, row.status) : Moved(to)
        /\ command' = [command EXCEPT !.answer = row']
     \/ /\ ~Accepts(role, command.op, row.status)
        /\ command' = [command EXCEPT !.answer = Refused]
        /\ UNCHANGED row
  /\ UNCHANGED <<role, shown, refresh, dialog, overtaken, lost>>

\* The faulty version for the mutant checks: a refresh that began before the answer is let go on.
Answer_KeepsRefresh ==
  /\ command # None /\ command.answer # NoRefresh
  /\ shown' = IF command.answer = Refused THEN shown ELSE command.answer
  /\ refresh' = (IF refresh = NoRefresh THEN Asked ELSE refresh)
  /\ command' = None /\ dialog' = None
  /\ UNCHANGED <<role, row, overtaken, lost>>

\* The answer updates the copy, or tells that it is old; either way the copy is
\* invalidated: a refresh under way is dropped, another begins.
Answer ==
  /\ command # None /\ command.answer # NoRefresh
  /\ shown' = IF command.answer = Refused THEN shown ELSE command.answer
  /\ refresh' = Asked /\ command' = None /\ dialog' = None
  /\ UNCHANGED <<role, row, overtaken, lost>>

\* The answer is lost, or the command was: the screen, and an open sheet, stay as they are.
LoseAnswer ==
  /\ command # None /\ lost < MaxLost /\ lost' = lost + 1
  /\ command' = None /\ overtaken' = TRUE
  /\ UNCHANGED <<role, row, shown, refresh, dialog>>

ScreenNext ==
  \/ SystemMoves \/ OthersMove \/ Poll \/ Revisit \/ Read \/ Deliver
  \/ CenterAsks \/ OwnerReviews \/ OwnerAsks
  \/ CenterConfirms \/ CenterSubmits \/ OwnerConfirms \/ OwnerSubmits
  \/ Apply \/ Answer \/ LoseAnswer

------------------------------------------------------------------------------
ScreenTypeOK ==
  /\ row \in Row /\ shown \in Row /\ refresh \in Row \union {NoRefresh, Asked}
  /\ dialog # None => dialog.looked \in 1..MaxGeneration
  /\ command # None => command.answer \in Row \union {NoRefresh, Refused}
  /\ lost \in 0..MaxLost

\* The tables of the apps and the guards of the api agree: no screen that is up to date
\* offers what the api refuses.
OfferedIsAccepted ==
  \A who \in Role : \A op \in Offered(who, row.status) : Accepts(who, op, row.status)

\* No content is left where nothing moves it and nobody is offered a way on.
NobodyIsStuck ==
  row.status \in TerminalStatus \union AutoProgress
    \/ \E who \in Role : Offered(who, row.status) # {}

\* A decision is taken on the cut its reviewer looked at, unless somebody else acted
\* meanwhile or an answer was lost.
Accepted(new) == command # None /\ command.answer = NoRefresh /\ new # None /\ new.answer \in Row
DecidedIsWhatWasSeen ==
  [][Accepted(command') /\ command.op \in Decision
       => command.looked = row.generation \/ overtaken]_screenVars

\* A screen that shows a moving status catches up again and again.
ScreenCatchesUp == []<>(shown.status \notin AutoProgress \/ shown = row)
=============================================================================
