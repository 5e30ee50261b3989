-------------------------------- MODULE Boards --------------------------------
(***************************************************************************)
(* The lists of contents (newest first) and of residents' uploads (oldest  *)
(* first): pages by offset from the api, kept by the client under the      *)
(* filter they were asked with, joined on the screen.  The reporter's list *)
(* and the control centre's board are one screen with other filters.       *)
(*                                                                         *)
(* How the query library starts, replaces and ends a fetch is external.  A *)
(* page is received when the next one is read; the last one is in `Land`.  *)
(***************************************************************************)
EXTENDS Naturals, FiniteSets, Sequences

CONSTANTS
  MaxRows, PageSize,     \* rows there may be, and of a page
  MaxChanges,            \* bound on what others do to the rows
  MaxAsks,               \* bound on what the reader does
  MaxBreaks              \* bound on failed fetches and lost answers

\* A row lacks its captions, waits for a decision, is decided: it moves in this order.
Bare == 0
Waiting == 1
Decided == 2
All == 3

VARIABLES
  newest,                \* the contents' list, or the residents' queue
  items,                 \* the i-th row: what it came as, and what it is now
  chip,                  \* the filter chosen
  cached,                \* by filter: what is kept
  fetch,                 \* by filter: what is being fetched
  decision,              \* the reader's own: [row, pc]
  known,                 \* the rows the reader was told are decided
  changes, asks, breaks

boardVars == <<newest, items, chip, cached, fetch, decision, known, changes, asks, breaks>>

Row == 1 .. MaxRows
Chip == {Bare, Waiting, Decided, All}
Chips == IF newest THEN {Bare, Waiting, All} ELSE {Waiting, Decided}

\* `there`, `left`: the filter's rows when the first page was read, and whether one has left since.
NoPages == [pages |-> <<>>, there |-> {}, left |-> FALSE]
\* `stale`: invalidated; `passed`: kept in place of the refetch that the invalidation was to bring.
NoData == [list |-> NoPages, failed |-> FALSE, stale |-> FALSE, passed |-> FALSE]
\* `late`: the list was invalidated when the fetch had pages to leave in place.
NoFetch == [task |-> "none", upTo |-> 0, list |-> NoPages, late |-> FALSE]

BoardTypeOK ==
  /\ newest \in BOOLEAN /\ Len(items) <= MaxRows /\ chip \in Chips
  /\ \A i \in 1 .. Len(items) : items[i].came <= items[i].now /\ items[i].now \in Bare .. Decided
  /\ \A c \in Chip : /\ fetch[c].task \in {"none", "whole", "next"}
                     /\ \A k \in 1 .. Len(cached[c].list.pages) :
                          Len(cached[c].list.pages[k].rows) <= PageSize
  /\ decision.pc \in {"none", "done", "conflict", "over"}
  /\ known \subseteq Row

BoardInit ==
  /\ newest \in BOOLEAN
  /\ items = [i \in 1 .. MaxRows - 1 |-> [came |-> Waiting, now |-> Waiting]]
  /\ chip = (IF newest THEN All ELSE Waiting)
  /\ cached = [c \in Chip |-> NoData]
  /\ fetch = [c \in Chip |-> IF c = chip THEN [NoFetch EXCEPT !.task = "whole", !.upTo = 1]
                                         ELSE NoFetch]
  /\ decision = [row |-> 0, pc |-> "none"] /\ known = {}
  /\ changes = 0 /\ asks = 0 /\ breaks = 0

\* list(), listQueue(): the filter's rows in order, and the page that skips the ones before it.
In(c, i) == c \in {All, items[i].now}
Listed(c) ==
  LET all == [k \in 1 .. Len(items) |-> IF newest THEN Len(items) + 1 - k ELSE k]
      of[k \in 0 .. Len(items)] ==
        IF k = 0 THEN <<>>
        ELSE IF In(c, all[k]) THEN Append(of[k - 1], all[k]) ELSE of[k - 1]
  IN  of[Len(items)]

PageOf(c, k) ==
  LET s == Listed(c)
      last == IF k * PageSize < Len(s) THEN k * PageSize ELSE Len(s)
  IN [rows |-> SubSeq(s, (k - 1) * PageSize + 1, last), total |-> Len(s)]

\* getNextPageParam
More(pages) == Len(pages) * PageSize < pages[Len(pages)].total

\* The key under which a filter's pages are kept: each of its parts is in it.
KeyOf(c) == c

Kept == cached[KeyOf(chip)]
Pages == Kept.list.pages
Shown == UNION {{Pages[k].rows[n] : n \in 1 .. Len(Pages[k].rows)} : k \in 1 .. Len(Pages)}
OnScreen == Pages # <<>> /\ ~Kept.failed

Whole(key) ==
  [NoFetch EXCEPT !.task = "whole",
                  !.upTo = IF cached[key].list.pages = <<>> THEN 1 ELSE Len(cached[key].list.pages)]

Ask == asks < MaxAsks /\ asks' = asks + 1

\* A chip is pressed: its pages are fetched unless they are there, valid and young.
Choose(c) ==
  /\ c \in Chips \ {chip} /\ Ask
  /\ chip' = c
  /\ LET k == KeyOf(c) IN
       \E old \in BOOLEAN :
         fetch' = IF fetch[k].task = "none" /\ (old \/ cached[k].stale \/ cached[k].list.pages = <<>>)
                  THEN [fetch EXCEPT ![k] = Whole(k)] ELSE fetch
  /\ UNCHANGED <<newest, items, cached, decision, known, changes, breaks>>

\* onEndReached: the next page; a refetch under way is dropped for it.
Scroll ==
  /\ OnScreen /\ More(Pages) /\ fetch[KeyOf(chip)].task # "next" /\ Ask
  /\ fetch' = [fetch EXCEPT ![KeyOf(chip)] = [NoFetch EXCEPT !.task = "next", !.upTo = 1]]
  /\ cached' = [cached EXCEPT ![KeyOf(chip)].passed = @ \/ Kept.stale]
  /\ UNCHANGED <<newest, items, chip, decision, known, changes, breaks>>

\* The list is pulled down, or the error view's button pressed.
Refresh ==
  /\ OnScreen \/ Kept.failed
  /\ Ask
  /\ fetch' = [fetch EXCEPT ![KeyOf(chip)] = Whole(KeyOf(chip))]
  /\ UNCHANGED <<newest, items, chip, cached, decision, known, changes, breaks>>

\* The api reads the rows of one page.
ReadAll(f) ==
  Len(f.list.pages) = f.upTo
    \/ (f.task = "whole" /\ f.list.pages # <<>> /\ ~More(f.list.pages))
Read(c) ==
  LET f == fetch[c]
      at == Len(f.list.pages) + (IF f.task = "next" THEN Len(cached[c].list.pages) ELSE 0) + 1
      first == f.list.pages = <<>>
  IN /\ f.task # "none" /\ ~ReadAll(f)
     /\ fetch' = [fetch EXCEPT ![c].list =
                    [pages |-> Append(@.pages, PageOf(c, at)),
                     there |-> IF first THEN {i \in 1 .. Len(items) : In(c, i)} ELSE @.there,
                     left |-> IF first THEN FALSE ELSE @.left]]
     /\ UNCHANGED <<newest, items, chip, cached, decision, known, changes, asks, breaks>>

\* What was fetched takes its place, and counts as valid.
Land(c) ==
  LET f == fetch[c]
      kept == cached[c]
  IN
  /\ f.task # "none" /\ ReadAll(f)
  /\ fetch' = [fetch EXCEPT ![c] = NoFetch]
  /\ cached' = [cached EXCEPT ![c] =
       [list |-> IF f.task = "whole" THEN f.list
                 ELSE [kept.list EXCEPT !.pages = @ \o f.list.pages],
        failed |-> FALSE, stale |-> FALSE,
        passed |-> f.late \/ (f.task = "next" /\ kept.passed)]]
  /\ UNCHANGED <<newest, items, chip, decision, known, changes, asks, breaks>>

\* The retries are used up: the screen shows the error, what was kept stays.
Break(c) ==
  /\ fetch[c].task # "none" /\ breaks < MaxBreaks /\ breaks' = breaks + 1
  /\ fetch' = [fetch EXCEPT ![c] = NoFetch]
  /\ cached' = [cached EXCEPT ![c].failed = TRUE]
  /\ UNCHANGED <<newest, items, chip, decision, known, changes, asks>>

\* Others post rows, and move them on.
Post ==
  /\ Len(items) < MaxRows /\ changes < MaxChanges /\ changes' = changes + 1
  /\ \E s \in {Bare, Waiting} :
       /\ newest \/ s = Waiting
       /\ items' = Append(items, [came |-> s, now |-> s])
  /\ UNCHANGED <<newest, chip, cached, fetch, decision, known, asks, breaks>>

\* The row leaves the filter it was in.
Advance(i) ==
  LET c == items[i].now IN
  /\ items' = [items EXCEPT ![i].now = @ + 1]
  /\ cached' = [cached EXCEPT ![c].list.left = TRUE]

Others(i) ==
  /\ items[i].now < Decided /\ changes < MaxChanges /\ changes' = changes + 1
  /\ Advance(i)
  /\ fetch' = [fetch EXCEPT ![items[i].now].list.left = TRUE]
  /\ UNCHANGED <<newest, chip, decision, known, asks, breaks>>

\* The reader opens a row of the list and decides; another may have been first.
Decide(i) ==
  /\ OnScreen /\ i \in Shown /\ decision.pc = "none"
  /\ IF items[i].now = Waiting
     THEN /\ decision' = [row |-> i, pc |-> "done"]
          /\ Advance(i)
          /\ fetch' = [fetch EXCEPT ![Waiting].list.left = TRUE]
     ELSE decision' = [row |-> i, pc |-> "conflict"] /\ UNCHANGED <<items, cached, fetch>>
  /\ UNCHANGED <<newest, chip, known, changes, asks, breaks>>

\* What a fetch is to leave in place holds pages from before now.
Earlier(c) == fetch[c].task = "next" \/ fetch[c].list.pages # <<>>

\* The mutations' end: every list is invalidated, the one in front fetched anew.
\* The faulty version for the mutant checks: the lists are marked, none is fetched.
Invalidate_MarksOnly ==
  /\ cached' = [c \in Chip |-> [cached[c] EXCEPT !.stale = cached[c].list.pages # <<>>]]
  /\ UNCHANGED fetch
Invalidate ==
  /\ cached' = [c \in Chip |-> [cached[c] EXCEPT !.stale = cached[c].list.pages # <<>>]]
  /\ fetch' = [c \in Chip |-> IF c = KeyOf(chip) THEN Whole(c)
                              ELSE [fetch[c] EXCEPT !.late = Earlier(c)]]

\* A conflict over a content invalidates its detail only; one over an upload, the queue.
Answered ==
  /\ decision.pc \in {"done", "conflict"}
  /\ decision' = [decision EXCEPT !.pc = "over"]
  /\ \/ /\ decision.pc = "conflict" /\ newest
        /\ UNCHANGED <<cached, fetch, known>>
     \/ /\ decision.pc = "done" \/ ~newest
        /\ known' = known \cup {decision.row}
        /\ Invalidate
  /\ UNCHANGED <<newest, items, chip, changes, asks, breaks>>

AnswerLost ==
  /\ decision.pc \in {"done", "conflict"} /\ breaks < MaxBreaks /\ breaks' = breaks + 1
  /\ decision' = [decision EXCEPT !.pc = "over"]
  /\ UNCHANGED <<newest, items, chip, cached, fetch, known, changes, asks>>

BoardNext ==
  \/ \E c \in Chip : Choose(c) \/ Read(c) \/ Land(c) \/ Break(c)
  \/ \E i \in 1 .. Len(items) : Others(i) \/ Decide(i)
  \/ Scroll \/ Refresh \/ Post \/ Answered \/ AnswerLost

\* A list read to its end shows every row that was there when its first page was read, whatever
\* was posted meanwhile, unless a row has left the filter since and moved the others up.
NothingIsSkipped ==
  OnScreen /\ Len(Pages) * PageSize >= Pages[Len(Pages)].total /\ ~Kept.list.left
    => Kept.list.there \subseteq Shown

\* The rows under a chip are, or were, of its kind: no filter shows another's pages.
FilterIsKept ==
  OnScreen /\ chip # All
    => \A i \in Shown : items[i].came <= chip /\ chip <= items[i].now

\* What the reader was told is decided is no longer in the list of what waits, once the refetch is
\* over; a scroll that took the refetch's place, and a fetch that outlived the decision unseen,
\* are the exceptions.
DecidedLeavesTheList ==
  OnScreen /\ chip = Waiting /\ fetch[chip].task = "none" /\ ~Kept.passed
    => Shown \cap known = {}
=============================================================================
