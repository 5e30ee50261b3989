---------------------------- MODULE SubscriberApp ----------------------------
(***************************************************************************)
(* How an installed subscriber web app comes to a new version              *)
(* (public/sw.js, pwa/sw-controller.ts, sw-update-policy.ts): every build  *)
(* registers a service worker of its own, which waits until a viewer       *)
(* accepts it or all tabs are closed, and keeps a shell and assets for     *)
(* times without a network.  When workers activate and whom they control   *)
(* is the browser's (external).                                            *)
(*                                                                         *)
(* And its programme page (/schedule): a week of slots from the code and   *)
(* the address of a broadcast from the build, drawn by the viewer's device *)
(* without the api.  It stays as drawn while it is open.  Time goes by     *)
(* steps of 3 hours of UTC; Jeju is 3 steps ahead of it.                   *)
(***************************************************************************)
EXTENDS Integers, Sequences

CONSTANTS
  Tab,                   \* tabs of one browser
  MaxBuilds,             \* bound on the deployments
  MaxOutages,            \* bound on the times the network goes
  MaxTime,               \* bound on the clock
  Zones,                 \* a device's steps ahead of UTC
  MaxVisits              \* bound on the times the page is opened

VARIABLES
  deployed,              \* the build the server has, alone
  online, outages,
  active, waiting,       \* the builds whose worker is active, waits; 0 for none
  cache,                 \* the caches of each build's worker: [shell, assets]
  tab,                   \* [run, via, cached, status, accepted, events]: see ClosedTab
  skipping,              \* a SKIP_WAITING is on its way
  switched,              \* the tabs under which another tab's viewer switched the worker
  time, firstDay,        \* UTC: steps since it began, on that weekday
  zone,                  \* of the device
  built,                 \* the address in the build: [scheme, path], or none
  air,                   \* the broadcast
  page,                  \* [open, at, notice, failed, rows, next]
  visits

updateVars ==
  <<deployed, online, outages, active, waiting, cache, tab, skipping, switched>>

Build == 1 .. MaxBuilds
NoCache == [shell |-> 0, assets |-> {}]

\* A tab runs a build, or 0; via the worker of a build, or 0; its assets came through that
\* worker; the reducer's status and userAccepted; and the events the browser has for it.
ClosedTab ==
  [run |-> 0, via |-> 0, cached |-> FALSE, status |-> "idle", accepted |-> FALSE,
   events |-> {}]
Open == {t \in Tab : tab[t].run # 0}

UpdateTypeOK ==
  /\ deployed \in Build /\ active \in {0} \cup Build /\ waiting \in {0} \cup Build
  /\ cache \in [Build -> [shell : {0} \cup Build, assets : SUBSET Build]]
  /\ \A t \in Tab : /\ tab[t].run \in {0} \cup Build /\ tab[t].via \in {0} \cup Build
                    /\ tab[t].status \in {"idle", "update-ready", "applying"}
                    /\ tab[t].events \subseteq {"waiting", "controlling"}
  /\ skipping \in BOOLEAN /\ switched \subseteq Tab /\ outages \in 0 .. MaxOutages

UpdateInit ==
  /\ deployed = 1 /\ online = TRUE /\ outages = 0
  /\ active = 0 /\ waiting = 0 /\ cache = [b \in Build |-> NoCache]
  /\ tab = [t \in Tab |-> ClosedTab] /\ skipping = FALSE /\ switched = {}

server == <<deployed, online, outages>>
workers == <<active, waiting, skipping, switched>>

Deploy ==
  /\ deployed < MaxBuilds /\ deployed' = deployed + 1
  /\ UNCHANGED <<online, outages, workers, cache, tab>>

NetworkChanges ==
  /\ online' = ~online
  /\ online => outages < MaxOutages
  /\ outages' = IF online THEN outages + 1 ELSE outages
  /\ UNCHANGED <<deployed, workers, cache, tab>>

-------------------------------------------------------------------------------
(* Requests, through the worker when there is one *)

\* networkFirstShell
Shell == IF online THEN deployed ELSE IF active = 0 THEN 0 ELSE cache[active].shell

\* cacheFirst: what the server does not have any more is not found.
HasAsset(b) == active # 0 /\ b \in cache[active].assets
Fetches(b) == HasAsset(b) \/ (online /\ deployed = b)

\* A page is opened or loaded again: its shell and its entry bundle; nothing comes of it
\* when either is missing, and an old page that is loaded again is gone.
Load(t) ==
  LET b == Shell
      up == b # 0 /\ Fetches(b)
  IN  /\ tab' = [tab EXCEPT ![t] = IF up THEN [ClosedTab EXCEPT !.run = b, !.via = active,
                                                                !.cached = active # 0]
                                   ELSE ClosedTab]
      /\ cache' = IF active = 0 THEN cache
                  ELSE [cache EXCEPT ![active] =
                          [shell |-> IF online THEN b ELSE @.shell,
                           assets |-> IF up THEN @.assets \cup {b} ELSE @.assets]]
      /\ switched' = switched \ {t}
      /\ UNCHANGED <<server, active, waiting, skipping>>

OpenTab(t) == t \notin Open /\ Load(t)

-------------------------------------------------------------------------------
(* The workers *)

\* The caches of other builds go, and every page is claimed.
Activate(b, by) ==
  /\ active' = b /\ waiting' = 0 /\ skipping' = FALSE
  /\ cache' = [d \in Build |-> IF d = b THEN cache[d] ELSE NoCache]
  /\ tab' = [t \in Tab |-> IF t \in Open THEN [tab[t] EXCEPT !.via = b,
                                                              !.events = @ \cup {"controlling"}]
                           ELSE tab[t]]
  /\ switched' = switched \cup (Open \ by)

Newest == IF waiting # 0 THEN waiting ELSE active

\* register: the worker of the page's build is installed if it is not the newest; the
\* first one is active at once, another waits, and the pages hear of it.
Register(t) ==
  /\ t \in Open /\ online /\ deployed = tab[t].run /\ Newest # tab[t].run
  /\ IF active = 0 THEN Activate(tab[t].run, Open)
     ELSE /\ waiting' = tab[t].run
          /\ tab' = [u \in Tab |-> IF u \in Open
                                   THEN [tab[u] EXCEPT !.events = @ \cup {"waiting"}]
                                   ELSE tab[u]]
          /\ UNCHANGED <<active, cache, skipping, switched>>
  /\ UNCHANGED server

\* SKIP_WAITING arrives at the worker that waits, if one does.
SkipWaiting ==
  /\ skipping
  /\ IF waiting = 0 THEN skipping' = FALSE /\ UNCHANGED <<active, waiting, cache, tab, switched>>
     ELSE Activate(waiting, {t \in Open : tab[t].accepted})
  /\ UNCHANGED server

\* A tab is closed; with the last one the worker that waits takes over.
Close(t) ==
  /\ t \in Open
  /\ IF Open = {t} /\ waiting # 0
     THEN /\ active' = waiting /\ waiting' = 0 /\ skipping' = FALSE /\ switched' = {}
          /\ cache' = [d \in Build |-> IF d = waiting THEN cache[d] ELSE NoCache]
     ELSE UNCHANGED <<active, waiting, skipping, cache>> /\ switched' = switched \ {t}
  /\ tab' = [tab EXCEPT ![t] = ClosedTab]
  /\ UNCHANGED server

-------------------------------------------------------------------------------
(* The page: reduceSwUpdate *)

\* A worker waits: the banner shows, unless the page has no worker or is being updated.
OnWaiting(t) ==
  /\ "waiting" \in tab[t].events
  /\ tab' = [tab EXCEPT ![t].events = @ \ {"waiting"},
                        ![t].status = IF tab[t].via = 0 \/ @ = "applying" THEN @
                                      ELSE "update-ready"]
  /\ UNCHANGED <<server, workers, cache>>

\* The banner's button.
Accept(t) ==
  /\ tab[t].status = "update-ready" /\ skipping' = TRUE
  /\ tab' = [tab EXCEPT ![t].status = "applying", ![t].accepted = TRUE]
  /\ UNCHANGED <<server, active, waiting, switched, cache>>

MayReload(t) == tab[t].accepted

\* The worker changed: the page is loaded again if its viewer asked for it.
OnControllerChange(t) ==
  /\ "controlling" \in tab[t].events
  /\ IF MayReload(t) THEN Load(t)
     ELSE /\ tab' = [tab EXCEPT ![t].events = @ \ {"controlling"}]
          /\ UNCHANGED <<server, workers, cache>>

UpdateNext ==
  \/ Deploy \/ NetworkChanges \/ SkipWaiting
  \/ \E t \in Tab : OpenTab(t) \/ Register(t) \/ Close(t)
                    \/ OnWaiting(t) \/ Accept(t) \/ OnControllerChange(t)

-------------------------------------------------------------------------------
(* Properties *)

\* A page that plays is not loaded anew under its viewer: the build
\* on the screen changes only in a tab whose viewer accepted the update (sw-update-policy.ts: no forced reload).
NoForcedReload ==
  [][\A t \in Open : tab'[t].run \in {0, tab[t].run} \/ tab[t].accepted]_updateVars

\* A page whose assets came through the worker finds them there, online or not and
\* whatever was deployed since, until a viewer switches the worker (sw.js: a new worker
\* waits, because the old assets go with the old worker).
KeepsItsAssets ==
  \A t \in Open : tab[t].cached /\ t \notin switched /\ ~tab[t].accepted
    => HasAsset(tab[t].run)

\* An update that was accepted is on its way: the message, the activation or the event that
\* loads the page again, unless another tab had switched the worker before.
AcceptedIsApplied ==
  \A t \in Open : tab[t].accepted /\ t \notin switched
    => skipping \/ "controlling" \in tab[t].events

-------------------------------------------------------------------------------
(* The programme page *)

scheduleVars == <<time, firstDay, zone, built, air, page, visits>>

StepsInDay == 8
DaysInWeek == 7

\* WEEKLY_SCHEDULE: broadcasts on Saturday and Sunday.
Weekly == [k \in 1 .. DaysInWeek |->
           [weekday |-> k - 1, kind |-> IF k - 1 \in {0, 6} THEN "live" ELSE "vod"]]

NoAddress == [scheme |-> "none", path |-> "none"]
Address ==
  {[scheme |-> "https:", path |-> ".m3u8"], [scheme |-> "http:", path |-> ".m3u8"],
   [scheme |-> "https:", path |-> "/watch"]}
NoNext == [weekday |-> -1, ahead |-> -1]
NoPage ==
  [open |-> FALSE, at |-> 0, notice |-> NoAddress, failed |-> FALSE, rows |-> <<>>, next |-> NoNext]

ScheduleTypeOK ==
  /\ time \in 0 .. MaxTime /\ firstDay \in 0 .. DaysInWeek - 1 /\ zone \in Zones
  /\ built \in Address \cup {NoAddress} /\ air \in {"before", "on", "over"}
  /\ page.notice \in Address \cup {NoAddress}

ScheduleInit ==
  /\ time = 0 /\ firstDay \in 0 .. DaysInWeek - 1 /\ zone \in Zones
  /\ built = NoAddress /\ air = "before" /\ page = NoPage /\ visits = 0

\* kstWeekday
KstWeekday(t) == (firstDay + (t + 3) \div StepsInDay) % DaysInWeek

On(weekday, kinds) == {k \in DOMAIN Weekly : Weekly[k].weekday = weekday /\ Weekly[k].kind \in kinds}

\* scheduleFromToday: the slots of seven days, today's first.
FromToday(t) ==
  LET Of(ahead) == On((KstWeekday(t) + ahead) % DaysInWeek, {"live", "vod"})
      Day(k) == (CHOOSE j \in Of(k) : TRUE) - 1
      rows[n \in 0 .. DaysInWeek] ==
        IF n = 0 THEN <<>>
        ELSE IF Of(n - 1) = {} THEN rows[n - 1] ELSE Append(rows[n - 1], Day(n - 1))
  IN rows[DaysInWeek]

\* nextLive: the first day from today with a broadcast.
NextLive(t) ==
  LET days == {d \in 0 .. DaysInWeek - 1 : On((KstWeekday(t) + d) % DaysInWeek, {"live"}) # {}}
      first == CHOOSE d \in days : \A e \in days : d <= e
  IN IF days = {} THEN NoNext
     ELSE [weekday |-> (KstWeekday(t) + first) % DaysInWeek, ahead |-> first]

\* parsePublishedLiveNotice
Parsed(a) == IF a.scheme = "https:" /\ a.path = ".m3u8" THEN a ELSE NoAddress

\* ScheduleScreen
OpenProgramme ==
  /\ visits < MaxVisits /\ visits' = visits + 1
  /\ page' = [open |-> TRUE, at |-> time, notice |-> Parsed(built), failed |-> FALSE,
              rows |-> FromToday(time), next |-> NextLive(time)]
  /\ UNCHANGED <<time, firstDay, zone, built, air>>

\* LiveNowCard: the player gives up, and is tried again.
Fails ==
  /\ page.open /\ page.notice # NoAddress /\ ~page.failed
  /\ page' = [page EXCEPT !.failed = TRUE]
  /\ UNCHANGED <<time, firstDay, zone, built, air, visits>>

Retry ==
  /\ page.failed
  /\ page' = [page EXCEPT !.failed = FALSE]
  /\ UNCHANGED <<time, firstDay, zone, built, air, visits>>

\* The center puts an address into a build when it goes on air, rightly or not, and removes it.
Publish ==
  /\ built' \in (IF air = "on" THEN Address ELSE {NoAddress}) /\ built' # built
  /\ UNCHANGED <<time, firstDay, zone, air, page, visits>>

Air ==
  /\ \/ air = "before" /\ air' = "on"
     \/ air = "on" /\ air' = "over"
  /\ UNCHANGED <<time, firstDay, zone, built, page, visits>>

Pass ==
  /\ time < MaxTime /\ time' = time + 1
  /\ UNCHANGED <<firstDay, zone, built, air, page, visits>>

ScheduleNext == OpenProgramme \/ Fails \/ Retry \/ Publish \/ Air \/ Pass

-----------------------------------------------------------------------------
\* Jeju's day at a time: the days whose midnight, 3 steps before UTC's, has passed.
JejuDay(t) ==
  firstDay + (CHOOSE n \in 0 .. MaxTime : n * StepsInDay <= t + 3 /\ t + 3 < (n + 1) * StepsInDay)

\* Wherever the device is, the page drawn leads with Jeju's day and goes once round the week.
WeekStartsToday ==
  page.open => /\ Len(page.rows) = DaysInWeek
               /\ \A k \in 1 .. DaysInWeek : page.rows[k] = (JejuDay(page.at) + k - 1) % DaysInWeek

\* The broadcast it announces is the first to come, today's included.
NextLiveIsSoonest ==
  page.open =>
    /\ page.next.weekday = (JejuDay(page.at) + page.next.ahead) % DaysInWeek
    /\ page.next.weekday \in {0, 6}
    /\ \A d \in 0 .. page.next.ahead - 1 : (JejuDay(page.at) + d) % DaysInWeek \notin {0, 6}

\* A player is drawn for a stream a browser plays from a page under https, and for nothing else.
PlaysOnlyStreams ==
  page.open /\ page.notice # NoAddress
    => page.notice = [scheme |-> "https:", path |-> ".m3u8"]
===============================================================================
