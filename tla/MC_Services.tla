---------------------------- MODULE MC_Services ----------------------------
(* Parts of the service that share no state, side by side, so that a         *)
(* behaviour moves one of them: a broadcast (the session with its collector, *)
(* the announcer's prompter, the viewers' chat), the public copies of a      *)
(* content, the feed, a short link, the writing of a draft, a station, the   *)
(* screens of a week.                                                        *)
EXTENDS Naturals

CONSTANTS
  Operator, MaxComments, CommentBatch, MaxPollFailures, MaxRestarts,
  Collected, PrompterBatch, MaxJoins,
  Viewer, MaxMessages, ChatRecentLimit, MaxConnects,
  Heights, Bucket, Nowhere, MaxDeploys,
  Contents, Limit, LastMoment,
  LastTick, CacheTtl, StaleTtl, RevalidateTtl, NotFoundTtl, PresignTtl, ShortestTtl,
  Editor, MaxScenes, MaxSaves, MaxUnanswered,
  Admin, MaxWrites, MaxRevisions, MaxDropped

\* A page of the feed has a row at least; a bucket has a name.
ASSUME LibraryAssumption == Contents \in Nat /\ Limit \in Nat \ {0} /\ Nowhere \notin Bucket

\* Times to live are seconds, and a signature lives as long as the shortest redirect.
ASSUME LifetimeAssumption ==
  /\ {CacheTtl, StaleTtl, NotFoundTtl, PresignTtl} \subseteq Nat
  /\ {RevalidateTtl, ShortestTtl} \subseteq Nat \ {0}
  /\ ShortestTtl <= PresignTtl

\* The scenes that a form opened late may have are counted.
ASSUME ScenesAssumption == MaxScenes \in Nat

VARIABLES
  focus,
  liveStatus, liveLog, shown, command, armed, ticks, comment, pushes, pollFailures, restarts,
  recorded, prompted, pushing, linked, inRoom, inbox, joining, screen, ready, passed, joins,
  onAir, chat, connected, room, presence, tasks, events, page, overtaken, late, connects,
  contentStatus, settings, objects, record, syncing, removing, edge, trouble, deploys,
  moment, publishedAt, archived, cursor, seen, reading, before,
  tick, linkStatus, since, watchBase, apiUp, cached, served,
  wizard, drafts, unanswered, row, form, request, saves,
  station, trail, writes, list, sheet, mutation, fetch, answered,
  ranking, thisWeek, stuck, copy, poll, press, acted, dropped

Session == INSTANCE LiveSession
Prompter == INSTANCE LivePrompter WITH overtaken <- passed
Chat == INSTANCE LiveChat
Copies == INSTANCE PublicMedia WITH Ready <- <<"1080p", "720p">>
Reader == INSTANCE PublicReading
Drafts == INSTANCE ContentDrafts
Station == INSTANCE Stations
Week == INSTANCE WeekScreens

sessionVars == <<liveStatus, liveLog, shown, command, armed, ticks, comment, pushes,
                 pollFailures, restarts>>
prompterVars == <<recorded, prompted, pushing, linked, inRoom, inbox, joining, screen, ready,
                  passed, joins>>
chatVars == <<onAir, chat, connected, room, presence, tasks, events, page, overtaken, late,
              connects>>
broadcastVars == <<sessionVars, prompterVars, chatVars>>
copyVars == <<contentStatus, settings, objects, record, syncing, removing, edge, trouble, deploys>>
readerVars == <<moment, publishedAt, archived, cursor, seen, reading, before>>
linkVars == <<tick, linkStatus, since, watchBase, apiUp, cached, served>>
libraryVars == <<copyVars, readerVars, linkVars>>
draftVars == <<wizard, drafts, unanswered, row, form, request, saves>>
stationVars == <<station, trail, writes, list, sheet, mutation, fetch, answered>>
weekVars == <<ranking, thisWeek, stuck, copy, poll, press, acted, dropped>>
centerVars == <<stationVars, weekVars>>
vars == <<focus, broadcastVars, libraryVars, draftVars, centerVars>>

\* The parts that start in one of several states start in one when they rest.
Init ==
  /\ focus \in {"session", "prompter", "chat", "copies", "reader", "link", "wizard", "draft",
               "station", "week"}
  /\ Session!LiveInit /\ Prompter!PrompterInit /\ Chat!ChatInit
  /\ Copies!PublicInit /\ Reader!FeedInit /\ Reader!GoInit /\ Drafts!DraftInit
  /\ Station!StationInit /\ Week!WeekInit
  /\ focus # "session" => liveStatus = "scheduled"
  /\ focus # "copies" => settings = CHOOSE s \in Copies!Settings : TRUE
  /\ focus # "link" => watchBase
  /\ focus # "station" => station.status = "none"
  /\ focus # "draft" => row.category = "news" /\ row.scenes = <<>>

SessionNext ==
  /\ focus = "session" /\ Session!LiveNext
  /\ UNCHANGED <<focus, prompterVars, chatVars, libraryVars, draftVars, centerVars>>

SessionCollect ==
  /\ focus = "session" /\ Session!Collect
  /\ UNCHANGED <<focus, prompterVars, chatVars, libraryVars, draftVars, centerVars>>

PrompterNext ==
  /\ focus = "prompter" /\ Prompter!PrompterNext
  /\ UNCHANGED <<focus, sessionVars, chatVars, libraryVars, draftVars, centerVars>>

ChatNext ==
  /\ focus = "chat" /\ Chat!ChatNext
  /\ UNCHANGED <<focus, sessionVars, prompterVars, libraryVars, draftVars, centerVars>>

CopiesNext ==
  /\ focus = "copies" /\ Copies!PublicNext
  /\ UNCHANGED <<focus, broadcastVars, readerVars, linkVars, draftVars, centerVars>>

ReaderNext ==
  /\ focus = "reader" /\ Reader!FeedNext
  /\ UNCHANGED <<focus, broadcastVars, copyVars, linkVars, draftVars, centerVars>>

LinkNext ==
  /\ focus = "link" /\ Reader!GoNext
  /\ UNCHANGED <<focus, broadcastVars, copyVars, readerVars, draftVars, centerVars>>

WizardNext ==
  /\ focus = "wizard" /\ Drafts!WizardNext
  /\ UNCHANGED <<focus, broadcastVars, libraryVars, centerVars>>

DraftNext ==
  /\ focus = "draft" /\ Drafts!RowNext
  /\ UNCHANGED <<focus, broadcastVars, libraryVars, centerVars>>

StationNext ==
  /\ focus = "station" /\ Station!StationNext
  /\ UNCHANGED <<focus, broadcastVars, libraryVars, draftVars, weekVars>>

WeekNext ==
  /\ focus = "week" /\ Week!WeekNext
  /\ UNCHANGED <<focus, broadcastVars, libraryVars, draftVars, stationVars>>

Next ==
  \/ SessionNext \/ PrompterNext \/ ChatNext
  \/ CopiesNext \/ ReaderNext \/ LinkNext
  \/ WizardNext \/ DraftNext
  \/ StationNext \/ WeekNext

Spec == Init /\ [][Next]_vars /\ WF_vars(SessionCollect)

\* A broadcast.  Concurrent commands leave a log without gaps; a session on air is in the
\* collector's memory; a comment posted outside reaches the prompters, twice only by a
\* restart, and a settled prompter shows the recent ones.  A settled page of the chat shows
\* all recent messages and no hidden one, and the viewers counted are connected.
BroadcastIsFollowed ==
  /\ [](Session!LiveTypeOK /\ Prompter!PrompterTypeOK /\ Chat!ChatTypeOK)
  /\ [](Session!OnAirIsCollected /\ Session!PushedOnce /\ Prompter!PrompterIsComplete)
  /\ [](Chat!HiddenIsNotShown /\ Chat!PageIsComplete /\ Chat!PresenceIsConnected)
  /\ Session!LiveAuditJoinsUp
  /\ Session!PostedIsPrompted

\* What the public sees is what is published.  A public URL in an answer is that of an object
\* that exists, and what was archived without a failure is gone from buckets and edge; a
\* reader of the feed misses nothing and sees nothing twice; a redirect is not outlived by
\* its signature, wrong answers are not kept, and the preview of an archived content fades.
PublicIsPublished ==
  /\ Copies!PublicTypeOK /\ Copies!ServedIsThere /\ Copies!ArchivedIsPrivate
  /\ Reader!FeedIsComplete /\ Reader!SeenOnce
  /\ Reader!RedirectIsAlive /\ Reader!ErrorsHeal /\ Reader!ArchivedFades

\* What people write is kept, and what they decide is what they see.  A wizard creates one
\* draft, which has the topics of its category, whose captions only a client's request with
\* the empty list takes away, and whose scenes keep their ids unless requests cross; a
\* station, its log and its date of rest tell one story, in which every entry is a step, an
\* answered screen shows no older row and no edit takes an optional field away; a ranking is
\* approved by somebody who sees it, and a week goes on until it is.
WritingIsKept ==
  /\ [](Drafts!OneDraftPerWizard /\ Drafts!TopicsFitCategory)
  /\ Drafts!CaptionsStay /\ Drafts!ScenesKeepTheirIds
  /\ [](Station!TrailTellsTheStatus /\ Station!StationScreenSettles)
  /\ Station!EntriesMove /\ Station!IntroStays
  /\ []Week!WeekGoesOn
  /\ Week!ApprovesWhatIsShown
===============================================================================
