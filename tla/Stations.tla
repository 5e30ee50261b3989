-------------------------------- MODULE Stations --------------------------------
(***************************************************************************)
(* One village station and the control center's screen of it, opened by    *)
(* several admins: its creation, its life cycle (planned, operating,       *)
(* dormant) and the editing of what is said of it.                         *)
(***************************************************************************)
EXTENDS Naturals

CONSTANTS
  Admin,
  MaxWrites              \* bound on what is written to the row

VARIABLES
  station,               \* the row; its status is "none" before it is created
  trail,                 \* the latest entry of its audit log
  writes,                \* how often the row was written: the clock of this module
  list,                  \* the row on an admin's screen, and when it was read
                 \* the transition an admin is asked to confirm
  sheet,                 \* the form an admin has open
  mutation,              \* the request of an admin
  fetch,                 \* the refetch of an admin's list
  answered               \* when the latest answer an admin got was made

stationVars == <<station, trail, writes, list, sheet, mutation, fetch, answered>>

Status == {"planned", "operating", "dormant"}
Intro == {"text", ""}  \* one of the optional fields; the required ones are always sent

Idle == [pc |-> "idle"]

\* STATION_STATUS_TRANSITIONS.
Transitions == {<<"planned", "operating">>, <<"operating", "dormant">>, <<"dormant", "operating">>}

\* PAIR_ACTION: the steps that have a label.
PairAction == {<<"dormant", "operating">>, <<"planned", "operating">>, <<"operating", "dormant">>}

\* availableStationTransitions: a button for each step that the shared table and the
\* labels know.
Offered(status) == {to \in Status : <<status, to>> \in Transitions \cap PairAction}

-------------------------------------------------------------------------------
(* The screen *)

\* A button of the row and its question, answered with yes; all are disabled while a
\* transition is under way.  The list may change while the question is open, which is
\* as if the button had been pressed on a list that is behind.
RunTransition(a) ==
  /\ sheet[a] = "closed" /\ mutation[a].pc = "idle"
  /\ \E to \in Offered(list[a].status) :
       mutation' = [mutation EXCEPT ![a] = [pc |-> "transition", to |-> to]]
  /\ UNCHANGED <<station, trail, writes, list, sheet, fetch, answered>>

\* The sheet for a new station, or for the row that is shown.
OpenSheet(a) ==
  /\ sheet[a] = "closed"
  /\ sheet' = [sheet EXCEPT ![a] = IF list[a].status = "none" THEN "create" ELSE "update"]
  /\ UNCHANGED <<station, trail, writes, list, mutation, fetch, answered>>

\* Save, with what the form holds by then: seeded from the row when the sheet was opened
\* and again whenever the screen is drawn anew, then typed over.
Submit(a) ==
  /\ sheet[a] # "closed" /\ mutation[a].pc = "idle"
  /\ \E intro \in Intro :
       mutation' = [mutation EXCEPT ![a] = [pc |-> sheet[a], intro |-> intro]]
  /\ UNCHANGED <<station, trail, writes, list, sheet, fetch, answered>>

Cancel(a) ==
  /\ sheet[a] # "closed" /\ mutation[a].pc = "idle"
  /\ sheet' = [sheet EXCEPT ![a] = "closed"]
  /\ UNCHANGED <<station, trail, writes, list, mutation, fetch, answered>>

-------------------------------------------------------------------------------
(* The api *)

\* "form" tells an answer to the sheet from one to a button.
Answer(a, what) ==
  mutation' = [mutation EXCEPT ![a] =
    [pc |-> what, at |-> writes', form |-> mutation[a].pc \in {"create", "update"}]]

\* transition, up to the check of the row it has loaded.
LoadTransition(a) ==
  /\ mutation[a].pc = "transition" /\ UNCHANGED writes
  /\ IF <<station.status, mutation[a].to>> \in Transitions
       THEN mutation' = [mutation EXCEPT ![a] =
              [pc |-> "checked", from |-> station.status, to |-> mutation[a].to]]
       ELSE Answer(a, "conflict")
  /\ UNCHANGED <<station, trail, list, sheet, fetch, answered>>

\* updateMany where the status is still the one that was checked.
TransitionWrites(a) == station.status = mutation[a].from

\* A station that rests says since when.
DormantSince(to) == IF to = "dormant" THEN writes + 1 ELSE 0

CommitTransition(a) ==
  /\ mutation[a].pc = "checked"
  /\ IF TransitionWrites(a)
       THEN /\ writes < MaxWrites /\ writes' = writes + 1
            /\ station' = [station EXCEPT !.status = mutation[a].to,
                                          !.since = DormantSince(mutation[a].to)]
            /\ trail' = [to |-> mutation[a].to, at |-> writes']
            /\ Answer(a, "ok")
       ELSE UNCHANGED <<station, trail, writes>> /\ Answer(a, "conflict")
  /\ UNCHANGED <<list, sheet, fetch, answered>>

\* create: the code of a station is unique.
CreateStation(a) ==
  /\ mutation[a].pc = "create"
  /\ IF station.status # "none"
       THEN UNCHANGED <<station, trail, writes>> /\ Answer(a, "duplicate")
       ELSE /\ writes < MaxWrites /\ writes' = writes + 1
            /\ station' = [status |-> "planned", since |-> 0, intro |-> mutation[a].intro]
            /\ Answer(a, "ok") /\ UNCHANGED trail
  /\ UNCHANGED <<list, sheet, fetch, answered>>

\* collectOptional: a blank field is left out of the request, and out of the update.
OptionalField(a) == IF mutation[a].intro = "" THEN station.intro ELSE mutation[a].intro

\* update: the fields of the form, whatever the row says by now.
UpdateStation(a) ==
  /\ mutation[a].pc = "update"
  /\ writes < MaxWrites /\ writes' = writes + 1
  /\ station' = [station EXCEPT !.intro = OptionalField(a)]
  /\ Answer(a, "ok")
  /\ UNCHANGED <<trail, list, sheet, fetch, answered>>

-------------------------------------------------------------------------------
(* What the screen learns *)

\* applyStationResult, handleStationConflict.
Invalidates(what) == what \in {"ok", "conflict"}

\* The answer arrives: the list is fetched again, a fetch under way starts over.
Answered(a) ==
  /\ mutation[a].pc \in {"ok", "conflict", "duplicate"}
  /\ fetch' = IF Invalidates(mutation[a].pc)
                THEN [fetch EXCEPT ![a] = [pc |-> "asked"]] ELSE fetch
  /\ answered' = IF mutation[a].pc = "duplicate" THEN answered
                 ELSE [answered EXCEPT ![a] = mutation[a].at]
  /\ sheet' = IF mutation[a].form /\ mutation[a].pc = "ok"
                THEN [sheet EXCEPT ![a] = "closed"] ELSE sheet
  /\ mutation' = [mutation EXCEPT ![a] = Idle]
  /\ UNCHANGED <<station, trail, writes, list>>

\* The answer is lost; nothing is fetched again.
AnswerLost(a) ==
  /\ mutation[a].pc \in {"ok", "conflict", "duplicate"}
  /\ mutation' = [mutation EXCEPT ![a] = Idle]
  /\ UNCHANGED <<station, trail, writes, list, sheet, fetch, answered>>

Row == [status |-> station.status, at |-> writes]

ReadList(a) ==
  /\ fetch[a].pc = "asked"
  /\ fetch' = [fetch EXCEPT ![a] = [pc |-> "read", row |-> Row]]
  /\ UNCHANGED <<station, trail, writes, list, sheet, mutation, answered>>

ShowList(a) ==
  /\ fetch[a].pc = "read"
  /\ list' = [list EXCEPT ![a] = fetch[a].row]
  /\ fetch' = [fetch EXCEPT ![a] = Idle]
  /\ UNCHANGED <<station, trail, writes, sheet, mutation, answered>>

-------------------------------------------------------------------------------

StationInit ==
  /\ station \in {[status |-> "none", since |-> 0, intro |-> ""],
                  [status |-> "operating", since |-> 0, intro |-> "text"]}
  /\ trail = [to |-> IF station.status = "none" THEN "planned" ELSE "operating", at |-> 0]
  /\ writes = 0
  /\ list = [a \in Admin |-> Row]
  /\ sheet = [a \in Admin |-> "closed"] /\ mutation = [a \in Admin |-> Idle]
  /\ fetch = [a \in Admin |-> Idle] /\ answered = [a \in Admin |-> 0]

StationNext ==
  \E a \in Admin :
    \/ RunTransition(a) \/ OpenSheet(a) \/ Submit(a) \/ Cancel(a)
    \/ LoadTransition(a) \/ CommitTransition(a) \/ CreateStation(a) \/ UpdateStation(a)
    \/ Answered(a) \/ AnswerLost(a) \/ ReadList(a) \/ ShowList(a)

-------------------------------------------------------------------------------
(* Properties *)

\* However the operators' steps and edits interleave, the row, its log and the date
\* of its rest tell one story: the status is the one the log ended with, and a station
\* that rests does so since that entry, and only then.
TrailTellsTheStatus ==
  station.status # "none" =>
    /\ trail.to = station.status
    /\ station.since = IF station.status = "dormant" THEN trail.at ELSE 0

\* A screen at rest is no older than the answers it got, refusals included.
StationScreenSettles ==
  \A a \in Admin : mutation[a].pc = "idle" /\ fetch[a].pc = "idle" => list[a].at >= answered[a]

\* Nobody's edit, not even one from a form that was opened before the text was
\* written, takes an optional field away.
IntroStays == [][station.intro # "" => station'.intro # ""]_station

\* Every entry of the log is a step the station took: of two operators who suspend it,
\* one is refused, and the date of its rest is not moved.
EntriesMove == [][trail' # trail => station'.status # station.status]_stationVars
===============================================================================
