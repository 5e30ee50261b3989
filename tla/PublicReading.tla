---------------------------- MODULE PublicReading ----------------------------
(***************************************************************************)
(* What the public reads from the api. A reader pages through the feed     *)
(* (FeedService.list with its cursor, feed.cursor.ts) while contents are   *)
(* published and archived. A visitor follows the short link of one content *)
(* (go-link.service.ts) behind an edge that keeps answers as their         *)
(* Cache-Control allows: the page with the preview and the redirect of its *)
(* thumbnail to a signed URL, while the content is published and archived, *)
(* the api goes down and the destination is set.                           *)
(***************************************************************************)
EXTENDS Naturals, Sequences, SequencesExt, FiniteSets

-------------------------------------------------------------------------------
(* The feed *)

CONSTANTS
  Contents,              \* the contents are 1 .. Contents, by their id
  Limit,                 \* the page size
  LastMoment             \* bound on the clock, in the unit of published_at

VARIABLES
  moment,
  publishedAt,           \* 0 is null
  archived,
  cursor,                \* the reader's cursor, <<>> for the first page
  seen,                  \* the items it got, in order
  reading,               \* "no", "pages" or "end"
  before                 \* what was public when it began

feedVars == <<moment, publishedAt, archived, cursor, seen, reading, before>>

Public == {c \in 1 .. Contents : publishedAt[c] # 0} \ archived

\* ORDER BY published_at DESC, id DESC; several contents may share a moment.
Above(c, d) ==
  \/ publishedAt[c] > publishedAt[d]
  \/ publishedAt[c] = publishedAt[d] /\ c > d

\* What the keyset condition of the query admits.
Behind(c) ==
  \/ cursor = <<>>
  \/ publishedAt[c] < cursor[1]
  \/ publishedAt[c] = cursor[1] /\ c < cursor[2]

Matching == {c \in Public : Behind(c)}

\* The uppermost rows, in order; they are all, or as many as the page takes.
IsPage(page) ==
  /\ \A i, j \in DOMAIN page : i < j => Above(page[i], page[j])
  /\ \A i \in DOMAIN page, c \in Matching \ ToSet(page) : Above(page[i], c)
  /\ Len(page) < Limit => ToSet(page) = Matching

\* take: limit + 1, of which the last only says that there is more.
ReadPage ==
  /\ reading # "end"
  /\ \E size \in 0 .. Limit : \E page \in [1 .. size -> Matching] :
     LET hasMore == ToSet(page) # Matching IN
     /\ IsPage(page)
     /\ seen' = seen \o page
     /\ reading' = IF hasMore THEN "pages" ELSE "end"
     /\ cursor' = IF hasMore THEN <<publishedAt[page[Limit]], page[Limit]>> ELSE cursor
  /\ before' = IF reading = "no" THEN Public ELSE before
  /\ UNCHANGED <<moment, publishedAt, archived>>

\* applyHop stamps the moment; several contents may be published in it.
PublishContent ==
  /\ \E c \in 1 .. Contents : publishedAt[c] = 0 /\ publishedAt' = [publishedAt EXCEPT ![c] = moment]
  /\ UNCHANGED <<moment, archived, cursor, seen, reading, before>>

ArchiveContent ==
  /\ \E c \in Public : archived' = archived \union {c}
  /\ UNCHANGED <<moment, publishedAt, cursor, seen, reading, before>>

Pass ==
  /\ moment < LastMoment
  /\ moment' = moment + 1
  /\ UNCHANGED <<publishedAt, archived, cursor, seen, reading, before>>

FeedInit ==
  /\ moment = 1 /\ publishedAt = [c \in 1 .. Contents |-> 0] /\ archived = {}
  /\ cursor = <<>> /\ seen = <<>> /\ reading = "no" /\ before = {}

FeedNext == ReadPage \/ PublishContent \/ ArchiveContent \/ Pass

-------------------------------------------------------------------------------
(* The short link *)

CONSTANTS
  LastTick,              \* bound on the clock
  CacheTtl,              \* GO_LINK_CACHE_TTL_SEC
  StaleTtl,              \* GO_LINK_STALE_TTL_SEC
  RevalidateTtl,         \* STALE_WHILE_REVALIDATE_SEC
  NotFoundTtl,           \* NOT_FOUND_CACHE_SEC
  PresignTtl,            \* DOWNLOAD_URL_TTL_SEC
  ShortestTtl            \* the 30 seconds a redirect is kept at least

VARIABLES
  tick,
  linkStatus,            \* of the content: "review", "published" or "archived"
  since,                 \* when it got that status
  watchBase,             \* whether WEB_WATCH_BASE_URL is set
  apiUp,
  cached,                \* what the edge holds for "page" and "thumb"
  served                 \* the latest answer to a visitor

goVars == <<tick, linkStatus, since, watchBase, apiUp, cached, served>>

\* An answer with the directives of its header; "at" is when the api made it.
Response(body, ttl, revalidate, stale) ==
  [body |-> body, at |-> tick, ttl |-> ttl, revalidate |-> revalidate, stale |-> stale]
Nothing == [body |-> "none", at |-> 0, ttl |-> 0, revalidate |-> 0, stale |-> 0]

NotFound == Response("notFound", NotFoundTtl, 0, 0)

\* renderSharePage: it leads to the destination, or says that there is none.
Body == IF watchBase THEN "linked" ELSE "unlinked"

\* A page without a destination is not to be stored.
SharePage ==
  IF watchBase THEN Response(Body, CacheTtl, RevalidateTtl, StaleTtl)
  ELSE Response(Body, 0, 0, 0)

\* renderContentShare: only a published content has a page.
RenderContentShare == IF linkStatus = "published" THEN SharePage ELSE NotFound

\* Half the life of the signature, the page's time at most.
RedirectTtl ==
  LET half == PresignTtl \div 2
      kept == IF CacheTtl < half THEN CacheTtl ELSE half
  IN IF kept < ShortestTtl THEN ShortestTtl ELSE kept

\* resolveThumbnail, when there is a thumbnail and it can be signed.
ResolveThumbnail ==
  IF linkStatus = "published" THEN Response("redirect", RedirectTtl, 0, 0) ELSE NotFound

Origin(what) == IF what = "page" THEN RenderContentShare ELSE ResolveThumbnail

\* What the edge may answer without the api's answer.
Fresh(r) == tick < r.at + r.ttl
Stale(r) == ~ Fresh(r) /\ IF apiUp THEN tick < r.at + r.ttl + r.revalidate
                                   ELSE tick < r.at + r.ttl + r.stale

Visit(what) ==
  LET kept == cached[what] IN
  /\ \/ /\ kept # Nothing /\ (Fresh(kept) \/ Stale(kept))
        /\ served' = [what |-> what, response |-> kept, when |-> tick, late |-> ~ apiUp]
     \/ /\ apiUp /\ (kept = Nothing \/ ~ Fresh(kept))
        /\ served' = [what |-> what, response |-> Origin(what), when |-> tick, late |-> FALSE]
  \* A stale answer is revalidated behind the visitor's back.
  /\ cached' = IF apiUp /\ (kept = Nothing \/ ~ Fresh(kept))
                 THEN [cached EXCEPT ![what] = Origin(what)] ELSE cached
  /\ UNCHANGED <<tick, linkStatus, since, watchBase, apiUp>>

Move ==
  /\ \/ linkStatus = "review" /\ linkStatus' = "published"
     \/ linkStatus = "published" /\ linkStatus' = "archived"
  /\ since' = tick
  /\ UNCHANGED <<tick, watchBase, apiUp, cached, served>>

SetDestination ==
  /\ ~ watchBase /\ watchBase' = TRUE
  /\ UNCHANGED <<tick, linkStatus, since, apiUp, cached, served>>

ApiToggles ==
  /\ apiUp' = ~ apiUp
  /\ UNCHANGED <<tick, linkStatus, since, watchBase, cached, served>>

TimePasses ==
  /\ tick < LastTick
  /\ tick' = tick + 1
  /\ UNCHANGED <<linkStatus, since, watchBase, apiUp, cached, served>>

GoInit ==
  /\ tick = 0 /\ linkStatus = "review" /\ since = 0 /\ watchBase \in BOOLEAN /\ apiUp = TRUE
  /\ cached = [what \in {"page", "thumb"} |-> Nothing]
  /\ served = [what |-> "page", response |-> Nothing, when |-> 0, late |-> FALSE]

GoNext ==
  \/ Visit("page") \/ Visit("thumb")
  \/ Move \/ SetDestination \/ ApiToggles \/ TimePasses

-------------------------------------------------------------------------------
(* Properties *)

\* A reader that has come to the end has seen whatever was public when it began
\* and still is, although contents came and went and shared a moment.
FeedIsComplete == reading = "end" => before \ archived \subseteq ToSet(seen)

\* It never sees an item twice, although items are published above its cursor.
SeenOnce == IsInjective(seen)

\* A redirect the edge hands out still leads to a signature that is valid.
RedirectIsAlive ==
  served.response.body = "redirect" => served.when < served.response.at + PresignTtl

\* What was wrong when it was made is soon gone: a page without a destination is
\* never handed out again, and a link that was not yet public is dead for at most
\* the time its refusal is kept.
ErrorsHeal ==
  /\ served.response.body = "unlinked" => served.when = served.response.at
  /\ served.response.body = "notFound" /\ linkStatus = "published" /\ served.when > since
       => served.when < since + NotFoundTtl

\* While the api answers, the preview of an archived content lives no longer than
\* the edge's fresh time and the time it may revalidate.
ArchivedFades ==
  served.response.body = "linked" /\ linkStatus = "archived" /\ served.when >= since /\ ~ served.late
    => served.when < since + CacheTtl + RevalidateTtl
===============================================================================
