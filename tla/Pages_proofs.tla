----------------------------- MODULE Pages_proofs -----------------------------
(***************************************************************************)
(* Theorems about the pages of MC_Clients: a resident's page, the lists,   *)
(* the form of a live session, the control center in a browser; and what   *)
(* a visitor meets: the probe of a deployment, the pages of a broadcast,   *)
(* of a video and of the programme, the updates of the web app.  Part by   *)
(* part, an inductive invariant, that it holds at first, that the part's   *)
(* steps keep it and what it implies.                                      *)
(***************************************************************************)
EXTENDS MC_Clients, FiniteSetTheorems, SequenceTheorems, WellFoundedInduction, TLAPS

-------------------------------------------------------------------------------
(* Least numbers, and values that follow each other *)

LEMMA LeastIndex ==
  ASSUME NEW T \in SUBSET Nat, T # {}
  PROVE  \E m \in T : \A k \in T : m <= k
<1>1. \E x \in T : \A y \in T : ~ (<<y, x>> \in OpToRel(<, Nat))
  BY NatLessThanWellFounded, WFMin
<1>2. PICK x \in T : \A y \in T : ~ (<<y, x>> \in OpToRel(<, Nat))
  BY <1>1
<1>3. ASSUME NEW y \in T PROVE x <= y
  <2>1. y \in Nat /\ x \in Nat
    OBVIOUS
  <2>2. ~ (y < x)
    BY <1>2, <2>1 DEF OpToRel
  <2> QED
    BY <2>1, <2>2
<1> QED
  BY <1>3

\* What a step after another makes of a first value.
Follows(f, first, step, n) ==
  /\ f = [i \in 0 .. n |-> f[i]] /\ f[0] = first
  /\ \A i \in 1 .. n : f[i] = step[i][f[i - 1]]

LEMMA FollowsExist ==
  ASSUME NEW first, NEW step, NEW n \in Nat
  PROVE  \E f : Follows(f, first, step, n)
<1> DEFINE T == {m \in Nat : ~ \E f : Follows(f, first, step, m)}
<1>1. CASE T = {}
  BY <1>1
<1>2. CASE T # {}
  <2>1. PICK m \in T : \A k \in T : m <= k
    BY <1>2, LeastIndex
  <2>2. m # 0
    <3>1. Follows([i \in 0 .. 0 |-> first], first, step, 0)
      BY DEF Follows
    <3> QED
      BY <2>1, <3>1
  <2>3. m \in Nat /\ m - 1 \in Nat /\ m - 1 \notin T
    BY <2>1, <2>2
  <2>4. PICK f : Follows(f, first, step, m - 1)
    BY <2>3
  <2> DEFINE g == [i \in 0 .. m |-> IF i < m THEN f[i] ELSE step[m][f[m - 1]]]
  <2>5. Follows(g, first, step, m)
    <3>1. g = [i \in 0 .. m |-> g[i]]
      OBVIOUS
    <3>2. g[0] = first
      BY <2>3, <2>2, <2>4 DEF Follows
    <3>3. ASSUME NEW i \in 1 .. m PROVE g[i] = step[i][g[i - 1]]
      <4>0. i - 1 \in 0 .. m /\ i - 1 < m /\ g[i - 1] = f[i - 1]
        BY <2>3
      <4>1. CASE i < m
        <5>1. i \in 1 .. m - 1 /\ g[i] = f[i]
          BY <2>3, <4>1
        <5>2. f[i] = step[i][f[i - 1]]
          BY <2>4, <5>1 DEF Follows
        <5> QED
          BY <4>0, <5>1, <5>2
      <4>2. CASE i = m
        BY <4>0, <4>2, <2>3
      <4> QED
        BY <4>1, <4>2, <2>3
    <3> HIDE DEF g
    <3> QED
      BY <3>1, <3>2, <3>3 DEF Follows
  <2> QED
    BY <2>1, <2>5
<1> QED
  BY <1>1, <1>2

\* When each step stays in a set, what follows is there.
LEMMA FollowersFit ==
  ASSUME NEW V, NEW first \in V, NEW n \in Nat, NEW step, NEW f, Follows(f, first, step, n),
         \A i \in 1 .. n : \A v \in V : step[i][v] \in V
  PROVE  \A i \in 0 .. n : f[i] \in V
<1> DEFINE T == {i \in 0 .. n : f[i] \notin V}
<1>1. CASE T = {}
  BY <1>1
<1>2. CASE T # {}
  <2>1. T \in SUBSET Nat
    OBVIOUS
  <2>2. PICK m \in T : \A k \in T : m <= k
    BY <1>2, <2>1, LeastIndex
  <2>3. m # 0
    BY <2>2 DEF Follows
  <2>4. m \in 1 .. n /\ m - 1 \in 0 .. n /\ m - 1 \notin T
    BY <2>2, <2>3
  <2>5. f[m - 1] \in V /\ f[m] = step[m][f[m - 1]]
    BY <2>4 DEF Follows
  <2> QED
    BY <2>2, <2>4, <2>5
<1> QED
  BY <1>1, <1>2

-------------------------------------------------------------------------------
(* A resident's page *)

Going == {"create", "put", "complete"}

Files == Page!File \union {Page!NoFile}

Ticket ==
  [pc : {"none", "create", "put", "complete", "over"}, file : Files,
   shown : BOOLEAN, stopped : BOOLEAN]

Drawing ==
  [file : Files, has : BOOLEAN, refused : BOOLEAN, done : BOOLEAN,
   error : BOOLEAN, busy : BOOLEAN]

PageTyped ==
  /\ link \in [known : BOOLEAN, lapsed : BOOLEAN, left : 0 .. MaxUploads]
  /\ sends \in 0 .. MaxSends /\ received \subseteq stored /\ stored \subseteq 1 .. sends
  /\ view \in Page!View /\ failure \in {"none", "network", "404", "429"}
  /\ read \in [pc : {"none", "sent", "read"}, fresh : BOOLEAN,
               answer : {"none", "404", "expired", "exhausted", "ready"}]
  /\ form \in Drawing
  /\ picked \in Files
  /\ upload \in [Page!Run -> Ticket]
  /\ behind \in BOOLEAN

\* A ticket under way holds a slot of the link.
Held == {r \in Page!Run : upload[r].pc \in {"put", "complete"}}
SlotsFit == link.left + Cardinality(Held) <= MaxUploads

\* The form is busy with at most one upload; one that was stopped goes no further.
RunsFit ==
  /\ \A r \in Page!Run :
       /\ upload[r].pc = "none" <=> r > sends
       /\ upload[r].pc # "none" => view # "none"
       /\ upload[r].pc \in {"put", "complete"} => ~upload[r].stopped
       /\ upload[r].pc = "complete" => r \in stored
       /\ r \in received => upload[r].pc = "over" /\ ~upload[r].stopped
       /\ upload[r].shown /\ upload[r].pc \in Going => form.busy
  /\ \A r, s \in Page!Run :
       upload[r].shown /\ upload[r].pc \in Going /\ upload[s].shown /\ upload[s].pc \in Going
         => r = s

FormFits ==
  /\ form.has => Page!Acceptable(form.file)
  /\ form.refused => ~Page!Acceptable(picked)

\* What the server said, and the page made of it, is still so.
AnswersFit ==
  /\ read.pc = "read" => /\ read.fresh /\ read.answer # "none"
                         /\ read.answer = "404" => ~link.known
                         /\ read.answer = "expired" => link.lapsed
  /\ view = "expired" => link.lapsed
  /\ failure = "404" => ~link.known
  /\ behind => read.pc # "none" \/ failure # "none"

PageInv == PageTyped /\ SlotsFit /\ RunsFit /\ FormFits /\ AnswersFit

LEMMA FieldsChange ==
  ASSUME NEW f \in Drawing, NEW a \in BOOLEAN, NEW b \in BOOLEAN, NEW file \in Files
  PROVE  /\ [f EXCEPT !.has = a, !.refused = b, !.file = file] \in Drawing
         /\ [f EXCEPT !.done = b, !.has = a, !.file = file] \in Drawing
<1>1. [f EXCEPT !.has = a] \in Drawing
  BY DEF Drawing
<1>2. PICK g \in Drawing : g = [f EXCEPT !.has = a, !.refused = b]
  BY <1>1 DEF Drawing
<1>3. PICK h \in Drawing : h = [f EXCEPT !.done = b, !.has = a]
  BY DEF Drawing
<1>4. [g EXCEPT !.file = file] \in Drawing /\ [h EXCEPT !.file = file] \in Drawing
  BY <1>2, <1>3 DEF Drawing
<1> QED
  BY <1>2, <1>3, <1>4

LEMMA NothingDrawn == Page!NoForm \in Drawing /\ Page!NoRun \in Ticket
<1>1. PICK file \in Files : file = Page!NoFile
  BY DEF Files
<1> QED
  BY <1>1 DEF Page!NoForm, Page!NoRun, Drawing, Ticket

LEMMA PageBegins == ASSUME Page!ResidentPageInit PROVE PageInv
<1>1. /\ link \in [known : BOOLEAN, lapsed : {FALSE}, left : {MaxUploads}]
      /\ stored = {} /\ received = {}
      /\ view = "none" /\ failure = "none" /\ read = [pc |-> "sent", answer |-> "none", fresh |-> FALSE]
      /\ form = Page!NoForm /\ picked = Page!NoFile
      /\ upload = [r \in Page!Run |-> Page!NoRun] /\ behind = FALSE /\ sends = 0
  BY DEF Page!ResidentPageInit, Page!NoRead
<1>2. PageTyped
  <2>1. upload \in [Page!Run -> Ticket]
    BY <1>1, NothingDrawn
  <2>2. form \in Drawing /\ picked \in Files
    BY <1>1, NothingDrawn DEF Files
  <2>3. link \in [known : BOOLEAN, lapsed : BOOLEAN, left : 0 .. MaxUploads]
    <3>1. MaxUploads \in 0 .. MaxUploads
      BY PageAssumption
    <3> QED
      BY <1>1, <3>1
  <2>4. sends \in 0 .. MaxSends /\ received \subseteq stored /\ stored \subseteq 1 .. sends
    BY <1>1, PageAssumption
  <2> QED
    BY <1>1, <2>1, <2>2, <2>3, <2>4 DEF PageTyped, Page!View
<1>3. Held = {}
  BY <1>1 DEF Held, Page!NoRun
<1>4. SlotsFit
  BY <1>1, <1>3, PageAssumption, FS_EmptySet DEF SlotsFit
<1>5. RunsFit
  BY <1>1, PageAssumption DEF RunsFit, Page!NoRun, Page!Run
<1>6. FormFits
  BY <1>1 DEF FormFits, Page!NoForm
<1>7. AnswersFit
  BY <1>1 DEF AnswersFit
<1> QED
  BY <1>2, <1>4, <1>5, <1>6, <1>7 DEF PageInv

\* A set of tickets is finite, and one more or one less counts as one.
LEMMA HeldCounts ==
  ASSUME PageTyped
  PROVE  /\ Cardinality(Held) \in Nat
         /\ \A r \in Page!Run \ Held : Cardinality(Held \union {r}) = Cardinality(Held) + 1
         /\ \A r \in Held : Cardinality(Held \ {r}) = Cardinality(Held) - 1
<1>1. IsFiniteSet(Page!Run)
  BY PageAssumption, FS_Interval DEF Page!Run
<1>2. IsFiniteSet(Held)
  BY <1>1, FS_Subset DEF Held
<1>3. Cardinality(Held) \in Nat
  BY <1>2, FS_CardinalityType
<1>4. \A r \in Page!Run \ Held : Cardinality(Held \union {r}) = Cardinality(Held) + 1
  BY <1>2, FS_AddElement
<1>5. \A r \in Held : Cardinality(Held \ {r}) = Cardinality(Held) - 1
  BY <1>2, FS_RemoveElement
<1> QED
  BY <1>3, <1>4, <1>5

\* What the page makes of an answer: the form stays as it is, or goes.
LEMMA Drawn ==
  ASSUME PageInv, NEW v, NEW f, Page!Draws(v, f)
  PROVE  /\ form' = form \/ form' = Page!NoForm
         /\ upload' \in [Page!Run -> Ticket]
         /\ \A r \in Page!Run : /\ upload'[r].pc = upload[r].pc
                                /\ upload'[r].stopped = upload[r].stopped
                                /\ upload'[r].shown => upload[r].shown /\ form' = form
<1> USE DEF PageInv, PageTyped, Ticket
<1>1. CASE form' = form /\ upload' = upload
  BY <1>1
<1>2. CASE form' = Page!NoForm /\ upload' = [r \in Page!Run |-> [upload[r] EXCEPT !.shown = FALSE]]
  <2>1. \A r \in Page!Run : upload'[r] = [upload[r] EXCEPT !.shown = FALSE]
    BY <1>2
  <2>2. ASSUME NEW r \in Page!Run
        PROVE  /\ upload'[r].pc = upload[r].pc
               /\ upload'[r].stopped = upload[r].stopped /\ ~upload'[r].shown
               /\ upload'[r] \in Ticket
    <3>1. PICK t \in Ticket : t = upload[r]
      OBVIOUS
    <3> QED
      BY <2>1, <3>1
  <2>3. upload' \in [Page!Run -> Ticket]
    BY <1>2, <2>2
  <2> QED
    BY <1>2, <2>2, <2>3
<1> QED
  BY <1>1, <1>2 DEF Page!Draws

\* The query's steps leave the uploads and their link as they are.
LEMMA DrawnFits ==
  ASSUME PageInv, NEW v, NEW f, Page!Draws(v, f), UNCHANGED <<link, stored, received, picked, sends>>,
         view # "none" => view' # "none"
  PROVE  /\ form' \in Drawing
         /\ upload' \in [Page!Run -> Ticket]
         /\ SlotsFit' /\ RunsFit' /\ FormFits'
<1>1. /\ form' = form \/ form' = Page!NoForm
      /\ upload' \in [Page!Run -> Ticket]
      /\ \A r \in Page!Run : /\ upload'[r].pc = upload[r].pc
                             /\ upload'[r].stopped = upload[r].stopped
                             /\ upload'[r].shown => upload[r].shown /\ form' = form
  BY Drawn
<1>2. form' \in Drawing
  BY <1>1, NothingDrawn DEF PageInv, PageTyped
<1>3. Held' = Held
  BY <1>1 DEF Held
<1>4. SlotsFit'
  BY <1>3 DEF PageInv, SlotsFit
<1>5. RunsFit'
  BY <1>1 DEF PageInv, RunsFit
<1>6. FormFits'
  BY <1>1 DEF PageInv, FormFits, Page!NoForm, Page!Acceptable
<1> QED
  BY <1>1, <1>2, <1>4, <1>5, <1>6

LEMMA PageIsAsked ==
  ASSUME PageInv, Page!AsksAgain \/ Page!Describe \/ Page!Answered \/ Page!Unanswered
  PROVE  PageInv'
<1>1. /\ UNCHANGED <<link, stored, received, picked, sends>>
      /\ behind' \in BOOLEAN /\ view' \in Page!View /\ (view # "none" => view' # "none")
      /\ failure' \in {"none", "network", "404", "429"}
      /\ read' \in [pc : {"none", "sent", "read"}, fresh : BOOLEAN,
                    answer : {"none", "404", "expired", "exhausted", "ready"}]
      /\ AnswersFit'
  <2>1. CASE Page!AsksAgain
    BY <2>1 DEF Page!AsksAgain, Page!Asked, Page!NoRead, Page!server, PageInv, PageTyped, AnswersFit
  <2>2. CASE Page!Describe
    BY <2>2 DEF Page!Describe, Page!server, Page!bounds, PageInv, PageTyped, AnswersFit
  <2>3. CASE Page!Answered
    BY <2>3 DEF Page!Answered, Page!NoRead, Page!server, Page!bounds, PageInv, PageTyped, AnswersFit,
                Page!View
  <2>4. CASE Page!Unanswered
    BY <2>4 DEF Page!Unanswered, Page!NoRead, Page!server, PageInv, PageTyped, AnswersFit
  <2> QED
    BY <2>1, <2>2, <2>3, <2>4
<1>2. /\ form' \in Drawing
      /\ upload' \in [Page!Run -> Ticket]
      /\ SlotsFit' /\ RunsFit' /\ FormFits'
  <2>1. CASE UNCHANGED <<form, upload>>
    <3>1. Held' = Held
      BY <2>1 DEF Held
    <3> QED
      BY <1>1, <2>1, <3>1 DEF PageInv, PageTyped, SlotsFit, RunsFit, FormFits, Page!Acceptable
  <2>2. CASE \E v, f : Page!Draws(v, f)
    BY <1>1, <2>2, DrawnFits
  <2> QED
    BY <2>1, <2>2 DEF Page!AsksAgain, Page!Describe, Page!Answered, Page!Unanswered
<1> QED
  BY <1>1, <1>2 DEF PageInv, PageTyped

\* The resident chooses a file, sends it, or stops it; others use the link.
LEMMA PickIsMade == ASSUME PageInv, Page!Pick PROVE PageInv'
<1>1. /\ ~form.busy /\ UNCHANGED <<link, stored, received, view, failure, read, upload, behind, sends>>
  BY DEF Page!Pick, Page!server, Page!query
<1>2. PICK cleared \in Drawing : /\ cleared = [form EXCEPT !.refused = FALSE, !.error = FALSE, !.done = FALSE]
                                 /\ cleared.has = form.has /\ cleared.file = form.file
                                 /\ ~cleared.refused /\ cleared.busy = form.busy
  <2>1. PICK f \in Drawing : f = form
    BY DEF PageInv, PageTyped
  <2>2. [f EXCEPT !.refused = FALSE, !.error = FALSE, !.done = FALSE] \in Drawing
    BY DEF Drawing
  <2> QED
    BY <2>1, <2>2 DEF Drawing
<1>3. form' \in Drawing /\ picked' \in Files /\ form'.busy = form.busy /\ FormFits'
  <2>1. CASE form' = cleared /\ UNCHANGED picked
    BY <1>2, <2>1 DEF PageInv, PageTyped, FormFits, Page!Acceptable
  <2>2. CASE \E f \in Page!File :
               LET file == Page!ToPickedVideo(f)
                   ok == Page!CheckSelectedVideo(file)
               IN  /\ picked' = file
                   /\ form' = [cleared EXCEPT !.has = ok, !.refused = ~ok,
                                              !.file = IF ok THEN file ELSE Page!NoFile]
    <3>1. PICK f \in Page!File :
               /\ picked' = Page!ToPickedVideo(f)
               /\ form' = [cleared EXCEPT !.has = Page!CheckSelectedVideo(picked'),
                                          !.refused = ~Page!CheckSelectedVideo(picked'),
                                          !.file = IF Page!CheckSelectedVideo(picked') THEN picked'
                                                   ELSE Page!NoFile]
      BY <2>2
    <3>2. picked' \in Page!File
      BY <3>1 DEF Page!ToPickedVideo, Page!File
    <3>3. PICK ok \in BOOLEAN : ok = Page!CheckSelectedVideo(picked')
      BY DEF Page!CheckSelectedVideo
    <3>4. PICK file \in Files : file = IF ok THEN picked' ELSE Page!NoFile
      BY <3>2 DEF Files
    <3>5. form' = [cleared EXCEPT !.has = ok, !.refused = ~ok, !.file = file]
      BY <3>1, <3>3, <3>4
    <3>6. /\ form' \in Drawing /\ form'.busy = cleared.busy /\ form'.file = file
          /\ form'.has = ok
      <4>1. PICK no \in BOOLEAN : no = ~ok
        OBVIOUS
      <4>2. form' = [cleared EXCEPT !.has = ok, !.refused = no, !.file = file]
        BY <3>5, <4>1
      <4>3. form' \in Drawing
        BY <1>2, <4>2, FieldsChange
      <4>4. form'.busy = cleared.busy /\ form'.file = file
        BY <1>2, <4>2 DEF Drawing
      <4>5. form'.has = ok
        BY <1>2, <4>2, Zenon DEF Drawing
      <4> QED
        BY <4>3, <4>4, <4>5
    <3>8. form'.refused <=> ~ok
      BY <1>2, <3>5, Zenon DEF Drawing
    <3>7. ok = Page!Acceptable(picked')
      BY <3>3 DEF Page!CheckSelectedVideo, Page!Acceptable
    <3> QED
      BY <1>2, <3>2, <3>4, <3>6, <3>7, <3>8 DEF FormFits, Files
  <2> QED
    BY <1>2, <2>1, <2>2 DEF Page!Pick
<1>4. Held' = Held
  BY <1>1 DEF Held
<1>5. RunsFit'
  BY <1>1, <1>3 DEF PageInv, RunsFit
<1> QED
  BY <1>1, <1>3, <1>4, <1>5 DEF PageInv, PageTyped, SlotsFit, AnswersFit

\* One upload moves: what becomes of the slots that are held.
LEMMA SlotsMove ==
  ASSUME PageInv, NEW r \in Page!Run, upload' \in [Page!Run -> Ticket],
         \A s \in Page!Run \ {r} : upload'[s] = upload[s]
  PROVE  LET held(t) == t.pc \in {"put", "complete"} IN
         /\ Cardinality(Held) \in Nat
         /\ held(upload[r]) /\ held(upload'[r]) => Cardinality(Held') = Cardinality(Held)
         /\ ~held(upload[r]) /\ held(upload'[r]) => Cardinality(Held') = Cardinality(Held) + 1
         /\ held(upload[r]) /\ ~held(upload'[r]) => Cardinality(Held') = Cardinality(Held) - 1
         /\ ~held(upload[r]) /\ ~held(upload'[r]) => Cardinality(Held') = Cardinality(Held)
<1>1. /\ Cardinality(Held) \in Nat
      /\ \A s \in Page!Run \ Held : Cardinality(Held \union {s}) = Cardinality(Held) + 1
      /\ \A s \in Held : Cardinality(Held \ {s}) = Cardinality(Held) - 1
  BY HeldCounts DEF PageInv
<1>2. (r \in Held) <=> upload[r].pc \in {"put", "complete"}
  BY DEF Held
<1>3. upload'[r].pc \in {"put", "complete"} => Held' = Held \union {r}
  BY DEF Held
<1>4. upload'[r].pc \notin {"put", "complete"} => Held' = Held \ {r}
  BY DEF Held
<1>5. (r \in Held => Held \union {r} = Held) /\ (r \notin Held => Held \ {r} = Held)
  OBVIOUS
<1> QED
  BY <1>1, <1>2, <1>3, <1>4, <1>5

LEMMA SendIsMade == ASSUME PageInv, Page!Send PROVE PageInv'
<1>1. /\ sends < MaxSends /\ sends' = sends + 1 /\ form.has /\ ~form.busy /\ view = "ready"
      /\ UNCHANGED <<link, stored, received, view, failure, read, picked, behind>>
  BY DEF Page!Send, Page!server, Page!query, Page!Gate, Page!ResolveResidentLinkGate
<1>2. sends' \in Page!Run /\ sends \in 0 .. MaxSends
  BY <1>1, PageAssumption DEF PageInv, PageTyped, Page!Run
<1>3. PICK f \in Drawing : f = form
  BY DEF PageInv, PageTyped
<1>4. form' = [f EXCEPT !.error = FALSE, !.busy = TRUE]
  BY <1>3 DEF Page!Send
<1>5. form' \in Drawing /\ form'.busy /\ form'.has = form.has /\ form'.file = form.file
      /\ form'.refused = form.refused
  BY <1>3, <1>4 DEF Drawing
<1>6. PICK t \in Ticket : t = [pc |-> "create", file |-> form.file, shown |-> TRUE, stopped |-> FALSE]
  BY <1>3 DEF Drawing, Ticket
<1>7. upload' = [upload EXCEPT ![sends'] = t] /\ upload \in [Page!Run -> Ticket]
  BY <1>6 DEF Page!Send, PageInv, PageTyped
<1>8. /\ upload' \in [Page!Run -> Ticket] /\ upload'[sends'] = t
      /\ \A s \in Page!Run \ {sends'} : upload'[s] = upload[s]
  BY <1>2, <1>7
<1>9. t.pc = "create" /\ t.shown /\ ~t.stopped
  BY <1>6
<1>10. upload[sends'].pc = "none" /\ sends' \notin stored
  BY <1>1, <1>2 DEF PageInv, RunsFit, PageTyped
<1>11. SlotsFit'
  <2>1. Cardinality(Held') = Cardinality(Held)
    BY <1>2, <1>8, <1>9, <1>10, SlotsMove
  <2> QED
    BY <1>1, <2>1 DEF PageInv, SlotsFit
<1>12. RunsFit'
  <2>1. \A s \in Page!Run : s > sends' <=> s > sends /\ s # sends'
    BY <1>1, <1>2, PageAssumption DEF Page!Run
  <2>2. \A s \in Page!Run : ~(upload[s].shown /\ upload[s].pc \in Going)
    BY <1>1 DEF PageInv, RunsFit
  <2>3. received \subseteq stored
    BY DEF PageInv, PageTyped
  <2>4. ~(sends' > sends')
    BY <1>2 DEF Page!Run
  <2>5. \A s \in Page!Run :
           /\ upload'[s].pc = "none" <=> s > sends'
           /\ upload'[s].pc # "none" => view' # "none"
           /\ upload'[s].pc \in {"put", "complete"} => ~upload'[s].stopped
           /\ upload'[s].pc = "complete" => s \in stored'
           /\ s \in received' => upload'[s].pc = "over" /\ ~upload'[s].stopped
           /\ upload'[s].shown /\ upload'[s].pc \in Going => form'.busy
    <3> SUFFICES ASSUME NEW s \in Page!Run
                 PROVE  /\ upload'[s].pc = "none" <=> s > sends'
                        /\ upload'[s].pc # "none" => view' # "none"
                        /\ upload'[s].pc \in {"put", "complete"} => ~upload'[s].stopped
                        /\ upload'[s].pc = "complete" => s \in stored'
                        /\ s \in received' => upload'[s].pc = "over" /\ ~upload'[s].stopped
                        /\ upload'[s].shown /\ upload'[s].pc \in Going => form'.busy
      OBVIOUS
    <3>1. CASE s = sends'
      BY <1>1, <1>5, <1>8, <1>9, <1>10, <2>3, <2>4, <3>1
    <3>2. CASE s # sends'
      BY <1>1, <1>5, <1>8, <2>1, <3>2 DEF PageInv, RunsFit
    <3> QED
      BY <3>1, <3>2
  <2>6. \A s \in Page!Run : upload'[s].shown /\ upload'[s].pc \in Going => s = sends'
    BY <1>8, <2>2
  <2> QED
    BY <2>5, <2>6 DEF RunsFit
<1>13. PageTyped'
  <2>1. sends' \in 0 .. MaxSends /\ stored \subseteq 1 .. sends'
    BY <1>1, <1>2, PageAssumption DEF Page!Run, PageInv, PageTyped
  <2> QED
    BY <1>1, <1>5, <1>8, <2>1 DEF PageInv, PageTyped
<1> QED
  BY <1>1, <1>5, <1>11, <1>12, <1>13 DEF PageInv, FormFits, AnswersFit, Page!Acceptable

\* An upload ends: what the form says, and what the query does about it.
LEMMA UploadEnds ==
  ASSUME PageInv, NEW r \in Page!Run, NEW done \in BOOLEAN, NEW error \in BOOLEAN,
         upload[r].pc \in Going, Page!End(r, done, error), UNCHANGED <<stored, sends>>,
         received' \subseteq received \union {r},
         r \in received' => r \in received \/ upload[r].pc = "complete",
         link' \in [known : BOOLEAN, lapsed : BOOLEAN, left : 0 .. MaxUploads],
         link'.known = link.known, link'.lapsed = link.lapsed,
         link'.left <= link.left + (IF upload[r].pc = "complete" THEN 1 ELSE 0)
  PROVE  PageInv'
<1> USE DEF PageInv
<1>1. /\ upload' = [upload EXCEPT ![r] = [Page!NoRun EXCEPT !.pc = "over", !.stopped = upload[r].stopped]]
      /\ form' = IF ~upload[r].shown THEN form
                 ELSE [form EXCEPT !.busy = FALSE, !.error = error, !.done = @ \/ done,
                                   !.has = @ /\ ~done, !.file = IF done THEN Page!NoFile ELSE @]
      /\ read' = Page!Asked /\ behind' = TRUE
      /\ UNCHANGED <<view, failure, picked, sends>>
  BY DEF Page!End, Page!Changed
<1>2. upload \in [Page!Run -> Ticket] /\ upload[r] \in Ticket
  BY DEF PageTyped
<1>3. PICK t \in Ticket : t = [Page!NoRun EXCEPT !.pc = "over", !.stopped = upload[r].stopped]
  <2>1. PICK b \in BOOLEAN : b = upload[r].stopped
    BY <1>2 DEF Ticket
  <2>2. [Page!NoRun EXCEPT !.pc = "over", !.stopped = b] \in Ticket
    BY NothingDrawn DEF Ticket
  <2> QED
    BY <2>1, <2>2
<1>4. /\ upload' \in [Page!Run -> Ticket] /\ upload'[r] = t
      /\ \A s \in Page!Run \ {r} : upload'[s] = upload[s]
  BY <1>1, <1>2, <1>3
<1>5. t.pc = "over" /\ t.stopped = upload[r].stopped /\ ~t.shown
  BY <1>3, NothingDrawn DEF Ticket, Page!NoRun
<1>6. SlotsFit'
  <2>1. /\ Cardinality(Held) \in Nat
        /\ upload[r].pc \in {"put", "complete"} => Cardinality(Held') = Cardinality(Held) - 1
        /\ upload[r].pc = "create" => Cardinality(Held') = Cardinality(Held)
    BY <1>4, <1>5, SlotsMove
  <2>2. link.left \in Nat /\ link'.left \in Nat
    BY PageAssumption DEF PageTyped
  <2> QED
    BY <2>1, <2>2, PageAssumption DEF SlotsFit, Going
<1>7. /\ form' \in Drawing
      /\ form'.has => form.has /\ form'.file = form.file
      /\ form'.refused = form.refused
      /\ ~upload[r].shown => form'.busy = form.busy
  <2>1. CASE ~upload[r].shown
    BY <1>1, <2>1 DEF PageTyped
  <2>2. CASE upload[r].shown
    <3>1. PICK f \in Drawing : f = form
      BY DEF PageTyped
    <3>2. PICK d \in BOOLEAN, h \in BOOLEAN, file \in Files :
            /\ d = (f.done \/ done) /\ h = (f.has /\ ~done)
            /\ file = IF done THEN Page!NoFile ELSE f.file
      <4>1. (f.done \/ done) \in BOOLEAN /\ (f.has /\ ~done) \in BOOLEAN
        OBVIOUS
      <4>2. (IF done THEN Page!NoFile ELSE f.file) \in Files
        BY <3>1 DEF Drawing, Files
      <4> QED
        BY <4>1, <4>2
    <3>3. form' = [f EXCEPT !.busy = FALSE, !.error = error, !.done = d, !.has = h, !.file = file]
      BY <1>1, <2>2, <3>1, <3>2
    <3>4. form' \in Drawing
      <4>1. PICK g \in Drawing : g = [f EXCEPT !.busy = FALSE, !.error = error]
        BY <3>1 DEF Drawing
      <4>2. [g EXCEPT !.done = d, !.has = h, !.file = file] \in Drawing
        BY <4>1, FieldsChange
      <4> QED
        BY <3>1, <3>3, <4>1, <4>2 DEF Drawing
    <3>5. form'.has = h /\ form'.file = file /\ form'.refused = f.refused
      BY <3>1, <3>3 DEF Drawing
    <3> QED
      BY <2>2, <3>1, <3>2, <3>4, <3>5
  <2> QED
    BY <2>1, <2>2
<1>8. RunsFit'
  <2>1. ASSUME NEW s \in Page!Run \ {r}, upload[s].shown, upload[s].pc \in Going
        PROVE  ~upload[r].shown /\ form'.busy
    BY <1>7, <2>1 DEF RunsFit
  <2>2. ~(r > sends)
    BY DEF RunsFit, Going
  <2>3. r \in received' => ~upload[r].stopped
    BY DEF RunsFit
  <2>4. view # "none"
    BY DEF RunsFit, Going
  <2>5. \A s \in Page!Run : s \in received' => s = r \/ s \in received
    OBVIOUS
  <2> QED
    BY <1>1, <1>4, <1>5, <2>1, <2>2, <2>3, <2>4, <2>5 DEF RunsFit, Going
<1>9. FormFits'
  BY <1>1, <1>7 DEF FormFits, Page!Acceptable
<1>10. view # "none" /\ read' = [pc |-> "sent", answer |-> "none", fresh |-> FALSE]
  BY <1>1 DEF Page!Asked, Page!NoRead, RunsFit, Going
<1>11. AnswersFit'
  BY <1>1, <1>10 DEF AnswersFit
<1>12. PageTyped'
  <2>1. received' \subseteq stored'
    BY DEF PageTyped, RunsFit
  <2> QED
    BY <1>1, <1>4, <1>7, <1>10, <2>1 DEF PageTyped
<1> QED
  BY <1>6, <1>8, <1>9, <1>11, <1>12

\* An upload goes on to its next request.
LEMMA UploadGoesOn ==
  ASSUME PageInv, NEW r \in Page!Run, NEW pc \in {"put", "complete"}, Page!Goes(r, pc),
         ~upload[r].stopped, upload[r].pc \in {"create", "put"}, UNCHANGED <<stored, received>>,
         pc = "complete" => r \in stored,
         link' \in [known : BOOLEAN, lapsed : BOOLEAN, left : 0 .. MaxUploads],
         link'.known = link.known, link'.lapsed = link.lapsed,
         link'.left = link.left - (IF upload[r].pc = "create" THEN 1 ELSE 0)
  PROVE  PageInv'
<1> USE DEF PageInv
<1>1. /\ upload' = [upload EXCEPT ![r].pc = pc]
      /\ UNCHANGED <<view, failure, read, form, picked, behind, sends>>
  BY DEF Page!Goes, Page!query, Page!bounds
<1>2. upload \in [Page!Run -> Ticket] /\ upload[r] \in Ticket
  BY DEF PageTyped
<1>3. PICK u \in Ticket : u = upload[r]
  BY <1>2
<1>4. PICK t \in Ticket : /\ t = [u EXCEPT !.pc = pc]
                          /\ t.pc = pc /\ t.shown = u.shown /\ t.stopped = u.stopped
  <2>1. PICK t \in Ticket : t = [u EXCEPT !.pc = pc]
    BY DEF Ticket
  <2>2. t.pc = pc /\ t.shown = u.shown /\ t.stopped = u.stopped
    BY <2>1 DEF Ticket
  <2> QED
    BY <2>1, <2>2
<1>5. /\ upload' \in [Page!Run -> Ticket] /\ upload'[r] = t
      /\ \A s \in Page!Run \ {r} : upload'[s] = upload[s]
  BY <1>1, <1>2, <1>3, <1>4
<1>6. SlotsFit'
  <2>1. /\ Cardinality(Held) \in Nat
        /\ upload[r].pc = "put" => Cardinality(Held') = Cardinality(Held)
        /\ upload[r].pc = "create" => Cardinality(Held') = Cardinality(Held) + 1
    BY <1>4, <1>5, SlotsMove
  <2>2. link.left \in Nat /\ link'.left \in Nat
    BY PageAssumption DEF PageTyped
  <2> QED
    BY <2>1, <2>2, PageAssumption DEF SlotsFit
<1>7. RunsFit'
  BY <1>1, <1>3, <1>4, <1>5 DEF RunsFit, Going
<1>8. PageTyped'
  BY <1>1, <1>5 DEF PageTyped
<1> QED
  BY <1>1, <1>6, <1>7, <1>8 DEF FormFits, AnswersFit, Page!Acceptable

LEMMA UploadIsCreated == ASSUME PageInv, NEW r \in Page!Run, Page!Create(r) PROVE PageInv'
<1>1. upload[r].pc = "create" /\ UNCHANGED <<stored, received>>
  BY DEF Page!Create
<1>2. PICK granted \in BOOLEAN :
        /\ granted => link.left > 0
        /\ link' = [link EXCEPT !.left = IF granted THEN @ - 1 ELSE @]
        /\ \/ /\ granted /\ Page!Begins(r) = "put" /\ Page!Goes(r, "put")
           \/ /\ granted /\ Page!Begins(r) = "over" /\ Page!End(r, FALSE, FALSE)
           \/ ~granted /\ Page!End(r, FALSE, TRUE)
           \/ Page!End(r, FALSE, TRUE)
  <2>1. (Page!Open /\ Page!Acceptable(upload[r].file)) \in BOOLEAN
    OBVIOUS
  <2>2. Page!Open => link.left > 0
    BY DEF Page!Open
  <2> QED
    BY <2>1, <2>2 DEF Page!Create
<1>3. PICK l \in [known : BOOLEAN, lapsed : BOOLEAN, left : 0 .. MaxUploads] : l = link
  BY DEF PageInv, PageTyped
<1>4. PICK n \in 0 .. MaxUploads : n = IF granted THEN l.left - 1 ELSE l.left
  BY <1>2, <1>3, PageAssumption
<1>5. link' = [l EXCEPT !.left = n]
  BY <1>2, <1>3, <1>4
<1>6. /\ link' \in [known : BOOLEAN, lapsed : BOOLEAN, left : 0 .. MaxUploads]
      /\ link'.known = link.known /\ link'.lapsed = link.lapsed /\ link'.left = n
  BY <1>3, <1>5
<1>7. sends' = sends
  BY <1>2 DEF Page!Goes, Page!End, Page!bounds
<1>8. CASE granted /\ Page!Begins(r) = "put" /\ Page!Goes(r, "put")
  <2>1. ~upload[r].stopped
    BY <1>8 DEF Page!Begins
  <2> QED
    BY <1>1, <1>3, <1>4, <1>6, <1>8, <2>1, UploadGoesOn
<1>9. CASE Page!End(r, FALSE, FALSE) \/ Page!End(r, FALSE, TRUE)
  <2>1. r \notin received /\ received' = received
    BY <1>1 DEF PageInv, RunsFit
  <2>2. link'.left <= link.left
    BY <1>3, <1>4, <1>6, PageAssumption
  <2>3. /\ upload[r].pc # "complete" /\ link.left \in Nat
        /\ link'.left <= link.left + (IF upload[r].pc = "complete" THEN 1 ELSE 0)
        /\ received' \subseteq received \union {r}
    BY <1>1, <1>3, <2>1, <2>2
  <2> QED
    BY <1>1, <1>6, <1>7, <1>9, <2>1, <2>2, <2>3, UploadEnds DEF Going
<1> QED
  BY <1>2, <1>8, <1>9

LEMMA UploadArrives ==
  ASSUME PageInv, NEW r \in Page!Run, Page!Arrive(r) \/ Page!PutEnds(r) PROVE PageInv'
<1>1. CASE Page!Arrive(r)
  <2>1. /\ upload[r].pc = "put" /\ stored' = stored \union {r}
        /\ UNCHANGED <<link, received, view, failure, read, form, picked, upload, behind, sends>>
    BY <1>1 DEF Page!Arrive, Page!query, Page!bounds
  <2>2. Held' = Held
    BY <2>1 DEF Held
  <2>3. RunsFit'
    BY <2>1 DEF PageInv, RunsFit
  <2>4. r \in 1 .. sends
    BY <2>1, PageAssumption DEF PageInv, PageTyped, RunsFit, Page!Run
  <2>5. PageTyped'
    BY <2>1, <2>4 DEF PageInv, PageTyped
  <2> QED
    BY <2>1, <2>2, <2>3, <2>5 DEF PageInv, SlotsFit, FormFits, AnswersFit, Page!Acceptable
<1>2. CASE Page!PutEnds(r)
  <2>1. upload[r].pc = "put" /\ UNCHANGED <<link, stored, received>>
    BY <1>2 DEF Page!PutEnds, Page!server
  <2>2. /\ link' \in [known : BOOLEAN, lapsed : BOOLEAN, left : 0 .. MaxUploads]
        /\ link.left \in Nat /\ link'.left = link.left - 0 /\ link'.left <= link.left + 0
        /\ ~upload[r].stopped /\ r \notin received
    BY <2>1 DEF PageInv, PageTyped, RunsFit
  <2>3. CASE r \in stored /\ Page!Goes(r, "complete")
    BY <2>1, <2>2, <2>3, UploadGoesOn
  <2>4. CASE Page!End(r, FALSE, TRUE)
    <3>1. sends' = sends
      BY <2>4 DEF Page!End
    <3> QED
      BY <2>1, <2>2, <2>4, <3>1, UploadEnds DEF Going
  <2> QED
    BY <1>2, <2>3, <2>4 DEF Page!PutEnds
<1> QED
  BY <1>1, <1>2

LEMMA UploadIsCompleted ==
  ASSUME PageInv, NEW r \in Page!Run, Page!Complete(r) \/ Page!CompleteFails(r) PROVE PageInv'
<1>1. upload[r].pc = "complete" /\ UNCHANGED stored
  BY DEF Page!Complete, Page!CompleteFails
<1>2. r \in stored /\ ~upload[r].stopped
  BY <1>1 DEF PageInv, RunsFit
<1>3. PICK l \in [known : BOOLEAN, lapsed : BOOLEAN, left : 0 .. MaxUploads] : l = link
  BY DEF PageInv, PageTyped
<1>4. CASE Page!Complete(r)
  <2>1. /\ received' = received \union {r} /\ UNCHANGED link
        /\ Page!End(r, TRUE, FALSE) \/ Page!End(r, FALSE, TRUE)
    BY <1>4 DEF Page!Complete
  <2>2. sends' = sends
    BY <2>1 DEF Page!End
  <2>3. link' \in [known : BOOLEAN, lapsed : BOOLEAN, left : 0 .. MaxUploads] /\ link'.left <= link.left + 1
    BY <1>3, <2>1
  <2> QED
    BY <1>1, <2>1, <2>2, <2>3, UploadEnds DEF Going
<1>5. CASE Page!CompleteFails(r)
  <2>1. link' = [l EXCEPT !.left = l.left + 1] /\ received' = received /\ Page!End(r, FALSE, TRUE)
    BY <1>3, <1>5 DEF Page!CompleteFails
  <2>2. sends' = sends
    BY <2>1 DEF Page!End
  <2>3. l.left + 1 \in 0 .. MaxUploads
    <3>1. Cardinality(Held) \in Nat /\ Cardinality(Held \ {r}) = Cardinality(Held) - 1
      BY <1>1, HeldCounts DEF PageInv, Held
    <3>2. Cardinality(Held) >= 1
      <4>1. IsFiniteSet(Held \ {r})
        <5>1. IsFiniteSet(Page!Run)
          BY PageAssumption, FS_Interval DEF Page!Run
        <5> QED
          BY <5>1, FS_Subset DEF Held
      <4>2. Cardinality(Held \ {r}) \in Nat
        BY <4>1, FS_CardinalityType
      <4> QED
        BY <3>1, <4>2
    <3> QED
      BY <1>3, <3>1, <3>2, PageAssumption DEF PageInv, SlotsFit
  <2>4. /\ link' \in [known : BOOLEAN, lapsed : BOOLEAN, left : 0 .. MaxUploads]
        /\ link'.known = link.known /\ link'.lapsed = link.lapsed /\ link'.left <= link.left + 1
    BY <1>3, <2>1, <2>3
  <2> QED
    BY <1>1, <2>1, <2>2, <2>4, UploadEnds DEF Going
<1> QED
  BY <1>4, <1>5

LEMMA LinkMovesOn == ASSUME PageInv, Page!LinkMoves PROVE PageInv'
<1>1. UNCHANGED <<stored, received, view, failure, read, form, picked, upload, behind, sends>>
  BY DEF Page!LinkMoves, Page!query
<1>2. PICK l \in [known : BOOLEAN, lapsed : BOOLEAN, left : 0 .. MaxUploads] : l = link
  BY DEF PageInv, PageTyped
<1>3. /\ link' \in [known : BOOLEAN, lapsed : BOOLEAN, left : 0 .. MaxUploads]
      /\ link'.known = link.known /\ (link.lapsed => link'.lapsed) /\ link'.left <= link.left
  <2>1. CASE link.left > 0 /\ link' = [l EXCEPT !.left = l.left - 1]
    <3>1. l.left - 1 \in 0 .. MaxUploads /\ l.left - 1 <= l.left
      BY <1>2, <2>1, PageAssumption
    <3> QED
      BY <1>2, <2>1, <3>1
  <2>2. CASE link' = [l EXCEPT !.lapsed = TRUE]
    <3>1. link' \in [known : BOOLEAN, lapsed : BOOLEAN, left : 0 .. MaxUploads]
      BY <1>2, <2>2
    <3>2. link'.known = l.known /\ link'.lapsed /\ link'.left = l.left
      BY <1>2, <2>2
    <3> QED
      BY <1>2, <3>1, <3>2, PageAssumption
  <2> QED
    BY <1>2, <2>1, <2>2 DEF Page!LinkMoves
<1>4. SlotsFit'
  <2>1. Held' = Held
    BY <1>1 DEF Held
  <2> QED
    BY <1>2, <1>3, <2>1, HeldCounts, PageAssumption DEF PageInv, SlotsFit
<1> QED
  BY <1>1, <1>3, <1>4 DEF PageInv, PageTyped, RunsFit, FormFits, AnswersFit, Page!Acceptable

\* "Stop" before the transfer begins marks it; on its way, ends it.
LEMMA StopIsPressed == ASSUME PageInv, Page!Stop PROVE PageInv'
<1> USE DEF PageInv
<1>1. PICK r \in Page!Run :
       /\ upload[r].shown
       /\ \/ /\ upload[r].pc = "create"
             /\ upload' = [upload EXCEPT ![r].stopped = TRUE]
             /\ UNCHANGED <<view, failure, read, form, picked, behind, sends>>
          \/ /\ upload[r].pc = "put"
             /\ upload' = [upload EXCEPT ![r] = [Page!NoRun EXCEPT !.pc = "over", !.stopped = TRUE]]
             /\ form' = [form EXCEPT !.busy = FALSE]
             /\ read' = Page!Asked /\ behind' = TRUE
             /\ UNCHANGED <<view, failure, picked, sends>>
  BY DEF Page!Stop, Page!query, Page!bounds, Page!Changed
<1>2. UNCHANGED <<link, stored, received>> /\ form.busy
  BY DEF Page!Stop, Page!server
<1>3. upload \in [Page!Run -> Ticket] /\ upload[r] \in Ticket
  BY DEF PageTyped
<1>4. PICK u \in Ticket : u = upload[r]
  BY <1>3
<1>5. r \notin received
  BY <1>1 DEF RunsFit
<1>6. CASE /\ upload[r].pc = "create"
           /\ upload' = [upload EXCEPT ![r].stopped = TRUE]
           /\ UNCHANGED <<view, failure, read, form, picked, behind, sends>>
  <2>1. PICK t \in Ticket : /\ t = [u EXCEPT !.stopped = TRUE]
                            /\ t.pc = u.pc /\ t.shown = u.shown /\ t.stopped
    <3>1. PICK t \in Ticket : t = [u EXCEPT !.stopped = TRUE]
      BY DEF Ticket
    <3>2. t.pc = u.pc /\ t.shown = u.shown /\ t.stopped
      BY <3>1 DEF Ticket
    <3> QED
      BY <3>1, <3>2
  <2>2. /\ upload' \in [Page!Run -> Ticket] /\ upload'[r] = t
        /\ \A s \in Page!Run \ {r} : upload'[s] = upload[s]
    BY <1>3, <1>4, <1>6, <2>1
  <2>3. Held' = Held
    BY <1>4, <1>6, <2>1, <2>2 DEF Held
  <2>4. RunsFit'
    BY <1>2, <1>4, <1>5, <1>6, <2>1, <2>2 DEF RunsFit
  <2>5. PageTyped'
    BY <1>2, <1>6, <2>2 DEF PageTyped
  <2> QED
    BY <1>2, <1>6, <2>3, <2>4, <2>5 DEF SlotsFit, FormFits, AnswersFit, Page!Acceptable
<1>7. CASE /\ upload[r].pc = "put"
           /\ upload' = [upload EXCEPT ![r] = [Page!NoRun EXCEPT !.pc = "over", !.stopped = TRUE]]
           /\ form' = [form EXCEPT !.busy = FALSE]
           /\ read' = Page!Asked /\ behind' = TRUE
           /\ UNCHANGED <<view, failure, picked, sends>>
  <2>1. PICK t \in Ticket : /\ t = [Page!NoRun EXCEPT !.pc = "over", !.stopped = TRUE]
                            /\ t.pc = "over" /\ ~t.shown
    <3>1. PICK t \in Ticket : t = [Page!NoRun EXCEPT !.pc = "over", !.stopped = TRUE]
      BY NothingDrawn DEF Ticket
    <3>2. t.pc = "over" /\ ~t.shown
      BY <3>1, NothingDrawn DEF Ticket, Page!NoRun
    <3> QED
      BY <3>1, <3>2
  <2>2. /\ upload' \in [Page!Run -> Ticket] /\ upload'[r] = t
        /\ \A s \in Page!Run \ {r} : upload'[s] = upload[s]
    BY <1>3, <1>7, <2>1
  <2>3. PICK f \in Drawing : f = form
    BY DEF PageTyped
  <2>4. /\ form' \in Drawing /\ form'.has = form.has /\ form'.file = form.file
        /\ form'.refused = form.refused
    BY <1>7, <2>3 DEF Drawing
  <2>5. SlotsFit'
    <3>1. Cardinality(Held) \in Nat /\ Cardinality(Held') = Cardinality(Held) - 1
      BY <1>7, <2>1, <2>2, SlotsMove
    <3>2. link.left \in Nat
      BY DEF PageTyped
    <3> QED
      BY <1>2, <3>1, <3>2, PageAssumption DEF SlotsFit
  <2>6. view # "none" /\ ~(r > sends)
    BY <1>7 DEF RunsFit
  <2>7. RunsFit'
    BY <1>1, <1>2, <1>5, <1>7, <2>1, <2>2, <2>6 DEF RunsFit, Going
  <2>8. read' = [pc |-> "sent", answer |-> "none", fresh |-> FALSE]
    BY <1>7, <2>6 DEF Page!Asked, Page!NoRead
  <2>9. PageTyped'
    BY <1>2, <1>7, <2>2, <2>4, <2>8 DEF PageTyped
  <2> QED
    BY <1>2, <1>7, <2>4, <2>5, <2>7, <2>8, <2>9 DEF FormFits, AnswersFit, Page!Acceptable
<1> QED
  BY <1>1, <1>6, <1>7

LEMMA PageStays == ASSUME PageInv, UNCHANGED residentVars PROVE PageInv'
<1>1. /\ UNCHANGED <<link, stored, received, view, failure, read, form, picked, upload, behind, sends>>
  BY DEF residentVars
<1>2. Held' = Held
  BY <1>1 DEF Held
<1> QED
  BY <1>1, <1>2 DEF PageInv, PageTyped, SlotsFit, RunsFit, FormFits, AnswersFit, Page!Acceptable

LEMMA PageSteps ==
  ASSUME PageInv, Page!ResidentPageNext \/ UNCHANGED residentVars PROVE PageInv'
BY PageStays, PageIsAsked, PickIsMade, SendIsMade, StopIsPressed, LinkMovesOn, UploadIsCreated,
   UploadArrives, UploadIsCompleted DEF Page!ResidentPageNext

LEMMA SamePageCount == ASSUME NEW S PROVE Page!Cardinality(S) = Cardinality(S)
BY DEF Page!Cardinality, Cardinality

\* What the invariant says of the page.
LEMMA PageHolds ==
  ASSUME PageInv
  PROVE  /\ Page!ResidentPageTypeOK /\ Page!FormKnowsTheFile /\ Page!StoppedIsNotReceived
         /\ Page!DeadEndIsTrue /\ Page!ViewKnowsItsUploads
<1> USE DEF PageInv
<1>1. Page!ResidentPageTypeOK
  <2> DEFINE S == {r \in Page!Run : upload[r].shown /\ upload[r].pc \in {"create", "put", "complete"}}
  <2>1. Page!Cardinality(S) <= 1
    <3>1. CASE S = {}
      BY <3>1, FS_EmptySet, SamePageCount
    <3>2. ASSUME NEW r \in S PROVE S = {r}
      BY DEF RunsFit, Going
    <3>3. \A r : Cardinality({r}) = 1
      BY FS_Singleton
    <3> QED
      BY <3>1, <3>2, <3>3, SamePageCount
  <2>2. \A r \in Page!Run : upload[r].pc \in {"none", "create", "put", "complete", "over"}
    BY DEF PageTyped, Ticket
  <2>3. form.done \in BOOLEAN /\ form.file \in Files
    BY DEF PageTyped, Drawing
  <2>4. stored \subseteq Page!Run
    BY PageAssumption DEF PageTyped, Page!Run
  <2>5. read.pc \in {"none", "sent", "read"}
    BY DEF PageTyped
  <2>7. form.file \in Page!File \union {Page!NoFile}
    BY <2>3 DEF Files
  <2>6. /\ link \in [known : BOOLEAN, lapsed : BOOLEAN, left : 0 .. MaxUploads]
        /\ received \subseteq stored
        /\ view \in Page!View /\ failure \in {"none", "network", "404", "429"}
    BY DEF PageTyped
  <2> QED
    BY <2>1, <2>2, <2>3, <2>4, <2>5, <2>6, <2>7, Zenon DEF Page!ResidentPageTypeOK, S
<1>2. Page!FormKnowsTheFile
  BY DEF FormFits, Page!FormKnowsTheFile
<1>3. Page!StoppedIsNotReceived
  BY PageAssumption DEF PageTyped, RunsFit, Page!StoppedIsNotReceived, Page!Run
<1>4. Page!DeadEndIsTrue
  <2>1. Page!Gate = "unknown_link" => failure = "404" \/ view = "unknown_link"
    BY DEF Page!Gate, Page!ResolveResidentLinkGate
  <2>2. Page!Gate = "expired" => view = "expired"
    BY DEF Page!Gate, Page!ResolveResidentLinkGate
  <2>3. view # "unknown_link"
    BY DEF PageTyped, Page!View
  <2> QED
    BY <2>1, <2>2, <2>3 DEF AnswersFit, Page!DeadEndIsTrue
<1>5. Page!ViewKnowsItsUploads
  BY DEF AnswersFit, Page!ViewKnowsItsUploads
<1> QED
  BY <1>1, <1>2, <1>3, <1>4, <1>5

-------------------------------------------------------------------------------
(* What is selected from a list *)

\* f[i] holds, in their order, those of the first i elements of s that are in T.
Picks(f, s, T) ==
  /\ f = [i \in 0 .. Len(s) |-> f[i]] /\ f[0] = <<>>
  /\ \A i \in 1 .. Len(s) : f[i] = IF s[i] \in T THEN Append(f[i - 1], s[i]) ELSE f[i - 1]

\* A function that is so exists, and whatever equals its own definition is one.
LEMMA PicksExist ==
  ASSUME NEW V, NEW s \in Seq(V), NEW T
  PROVE  \E f : Picks(f, s, T)
<1> DEFINE step == [i \in 1 .. Len(s) |->
                      [v \in Seq(V) |-> IF s[i] \in T THEN Append(v, s[i]) ELSE v]]
<1>1. Len(s) \in Nat /\ \A i \in 1 .. Len(s) : s[i] \in V
  OBVIOUS
<1>2. PICK f : Follows(f, <<>>, step, Len(s))
  BY <1>1, FollowsExist
<1>3. \A i \in 1 .. Len(s) : \A v \in Seq(V) :
        /\ step[i][v] = IF s[i] \in T THEN Append(v, s[i]) ELSE v
        /\ step[i][v] \in Seq(V)
  <2>1. ASSUME NEW i \in 1 .. Len(s), NEW v \in Seq(V) PROVE Append(v, s[i]) \in Seq(V)
    BY <1>1
  <2> QED
    BY <2>1
<1> HIDE DEF step
<1>4. \A i \in 0 .. Len(s) : f[i] \in Seq(V)
  <2>1. <<>> \in Seq(V)
    OBVIOUS
  <2> QED
    BY <1>1, <1>2, <1>3, <2>1, FollowersFit
<1>5. ASSUME NEW i \in 1 .. Len(s)
      PROVE  f[i] = IF s[i] \in T THEN Append(f[i - 1], s[i]) ELSE f[i - 1]
  <2>1. i - 1 \in 0 .. Len(s)
    BY <1>1
  <2>2. f[i] = step[i][f[i - 1]]
    BY <1>2 DEF Follows
  <2> QED
    BY <1>3, <1>4, <2>1, <2>2
<1> QED
  BY <1>2, <1>5 DEF Picks, Follows

\* What is picked is in T, is picked once and stays, and is all while all is in T.
Picked(f, s, T, V) ==
  /\ \A i \in 0 .. Len(s) : f[i] \in Seq(V \cap T) /\ Len(f[i]) <= i
  /\ \A i \in 0 .. Len(s) : \A j \in 0 .. i :
       /\ Len(f[j]) <= Len(f[i])
       /\ \A k \in 1 .. Len(f[j]) : f[i][k] = f[j][k]
  /\ \A i \in 0 .. Len(s) : (\A k \in 1 .. i : s[k] \in T) =>
       /\ Len(f[i]) = i
       /\ \A k \in 1 .. i : f[i][k] = s[k]

LEMMA PicksAre ==
  ASSUME NEW V, NEW s \in Seq(V), NEW T, NEW f, Picks(f, s, T)
  PROVE  Picked(f, s, T, V)
<1> DEFINE A(i) == f[i] \in Seq(V \cap T) /\ Len(f[i]) <= i
           B(i) == \A j \in 0 .. i : /\ Len(f[j]) <= Len(f[i])
                                     /\ \A k \in 1 .. Len(f[j]) : f[i][k] = f[j][k]
           C(i) == (\A k \in 1 .. i : s[k] \in T) => /\ Len(f[i]) = i
                                                     /\ \A k \in 1 .. i : f[i][k] = s[k]
           Wrong == {i \in 0 .. Len(s) : ~ (A(i) /\ B(i) /\ C(i))}
<1>1. Len(s) \in Nat /\ \A i \in 1 .. Len(s) : s[i] \in V
  OBVIOUS
<1>2. A(0) /\ B(0) /\ C(0)
  <2>1. f[0] = <<>>
    BY DEF Picks
  <2> QED
    BY <2>1
<1>3. ASSUME NEW i \in 1 .. Len(s), A(i - 1), B(i - 1), C(i - 1)
      PROVE  A(i) /\ B(i) /\ C(i)
  <2>1. i \in Nat /\ i - 1 \in 0 .. Len(s) /\ s[i] \in V
    BY <1>1
  <2>2. f[i] = IF s[i] \in T THEN Append(f[i - 1], s[i]) ELSE f[i - 1]
    BY DEF Picks
  <2>3. PICK g \in Seq(V \cap T) : g = f[i - 1] /\ Len(g) <= i - 1
    BY <1>3
  <2>4. /\ f[i] \in Seq(V \cap T)
        /\ Len(f[i]) = IF s[i] \in T THEN Len(g) + 1 ELSE Len(g)
        /\ \A k \in 1 .. Len(g) : f[i][k] = g[k]
        /\ s[i] \in T => f[i][Len(g) + 1] = s[i]
    <3>1. CASE s[i] \in T
      <4>1. f[i] = Append(g, s[i]) /\ s[i] \in V \cap T
        BY <2>1, <2>2, <2>3, <3>1
      <4> QED
        BY <3>1, <4>1
    <3>2. CASE s[i] \notin T
      BY <2>2, <2>3, <3>2
    <3> QED
      BY <3>1, <3>2
  <2>5. A(i)
    BY <2>1, <2>3, <2>4
  <2>6. B(i)
    <3>1. ASSUME NEW j \in 0 .. i
          PROVE  /\ Len(f[j]) <= Len(f[i])
                 /\ \A k \in 1 .. Len(f[j]) : f[i][k] = f[j][k]
      <4>1. CASE j = i
        BY <2>4, <4>1
      <4>2. CASE j # i
        <5>1. j \in 0 .. i - 1
          BY <2>1, <4>2
        <5>2. Len(f[j]) <= Len(g) /\ \A k \in 1 .. Len(f[j]) : g[k] = f[j][k]
          BY <1>3, <2>3, <5>1
        <5>3. Len(g) \in Nat
          BY <2>3
        <5>4. CASE Len(f[j]) \in Nat
          BY <2>4, <5>2, <5>3, <5>4
        <5>5. CASE Len(f[j]) \notin Nat
          BY <2>4, <5>2, <5>3, <5>5
        <5> QED
          BY <5>4, <5>5
      <4> QED
        BY <4>1, <4>2
    <3> QED
      BY <3>1
  <2>7. C(i)
    <3> SUFFICES ASSUME \A k \in 1 .. i : s[k] \in T
                 PROVE  Len(f[i]) = i /\ \A k \in 1 .. i : f[i][k] = s[k]
      OBVIOUS
    <3>1. Len(g) = i - 1 /\ \A k \in 1 .. i - 1 : g[k] = s[k]
      BY <1>3, <2>1, <2>3
    <3>2. s[i] \in T
      BY <2>1
    <3> QED
      BY <2>1, <2>4, <3>1, <3>2
  <2> HIDE DEF A, B, C
  <2> QED
    BY <2>5, <2>6, <2>7
<1> HIDE DEF A, B, C
<1>4. Wrong = {}
  <2>1. Wrong \in SUBSET Nat
    OBVIOUS
  <2>2. CASE Wrong # {}
    <3>1. PICK m \in Wrong : \A k \in Wrong : m <= k
      BY <2>1, <2>2, LeastIndex
    <3>2. m # 0
      BY <1>2, <3>1
    <3>3. m \in 1 .. Len(s) /\ m - 1 \in 0 .. Len(s) /\ ~ (m <= m - 1)
      BY <1>1, <3>1, <3>2
    <3>4. m - 1 \notin Wrong
      BY <3>1, <3>3
    <3>5. A(m - 1) /\ B(m - 1) /\ C(m - 1)
      BY <3>3, <3>4
    <3> QED
      BY <1>3, <3>1, <3>3, <3>5
  <2> QED
    BY <2>2
<1>5. \A i \in 0 .. Len(s) : A(i) /\ B(i) /\ C(i)
  BY <1>4
<1> QED
  BY <1>5 DEF A, B, C, Picked

-------------------------------------------------------------------------------
(* The form of a live session *)

Cards == Seq(Form!Card)
Fields == [type : Form!Type, title : {"empty", "title"}, at : Form!Time, cards : Cards]
Complaint == [title : BOOLEAN, at : BOOLEAN, cards : SUBSET (1 .. MaxCards)]

FormTyped ==
  /\ entry \in Fields /\ Len(entry.cards) <= MaxCards
  /\ complaints \in Complaint
  /\ edits \in 0 .. MaxEdits /\ submits \in 0 .. MaxSubmits /\ fresh \in BOOLEAN

\* Complaints are fresh while nothing is sent.
FormInv ==
  FormTyped /\ Form!SubmittedIsAccepted /\ Form!RefusalIsShown /\ (fresh => submission = Form!None)

LEMMA FormBegins == ASSUME Form!FormInit PROVE FormInv
<1>1. /\ entry = [type |-> "news", title |-> "empty", at |-> "empty", cards |-> <<>>]
      /\ complaints = [title |-> FALSE, at |-> FALSE, cards |-> {}] /\ submission = Form!None
      /\ fresh = FALSE /\ edits = 0 /\ submits = 0
  BY DEF Form!FormInit, Form!NoComplaints
<1>2. <<>> \in Cards /\ Len(entry.cards) = 0
  BY <1>1 DEF Cards
<1>3. FormTyped
  <2>1. PICK s \in Cards : s = <<>>
    BY <1>2
  <2>2. entry = [type |-> "news", title |-> "empty", at |-> "empty", cards |-> s]
    BY <1>1, <2>1
  <2>3. entry \in Fields
    BY <2>2 DEF Fields, Form!Type, Form!Time
  <2>4. complaints \in Complaint
    BY <1>1 DEF Complaint
  <2>6. Len(entry.cards) = 0
    BY <1>2
  <2>5. fresh \in BOOLEAN
    BY <1>1
  <2>7. edits \in 0 .. MaxEdits /\ submits \in 0 .. MaxSubmits /\ 0 <= MaxCards
    BY <1>1, FormAssumption
  <2> QED
    BY <2>3, <2>4, <2>5, <2>6, <2>7 DEF FormTyped
<1> QED
  BY <1>1, <1>3 DEF FormInv, Form!SubmittedIsAccepted, Form!RefusalIsShown

\* The filled cards are cards, no more than there are, and in their place as long as no
\* blank one comes before.
LEMMA FilledCards ==
  ASSUME NEW input, input.cards \in Cards
  PROVE  /\ Form!Filled(input) \in Seq({"good", "bad"})
         /\ Len(Form!Filled(input)) <= Len(input.cards)
         /\ \A i \in 1 .. Len(input.cards) : (\A k \in 1 .. i : input.cards[k] # "blank")
              => i <= Len(Form!Filled(input)) /\ Form!Filled(input)[i] = input.cards[i]
<1> DEFINE s == input.cards
           n == Len(input.cards)
           T == {"good", "bad"}
           Rule(f) == [i \in 0 .. Len(input.cards) |->
                         IF i = 0 THEN <<>>
                         ELSE IF input.cards[i] # "blank" THEN Append(f[i - 1], input.cards[i])
                         ELSE f[i - 1]]
           of == CHOOSE f : f = Rule(f)
<1>1. n \in Nat /\ \A i \in 1 .. n : s[i] \in Form!Card /\ (s[i] \in T <=> s[i] # "blank")
  BY DEF Cards, Form!Card
<1>2. PICK g : Picks(g, s, T)
  BY PicksExist DEF Cards
<1>3. g = Rule(g)
  <2>1. ASSUME NEW i \in 0 .. n
        PROVE  g[i] = IF i = 0 THEN <<>>
                      ELSE IF s[i] # "blank" THEN Append(g[i - 1], s[i]) ELSE g[i - 1]
    <3>1. CASE i = 0
      BY <1>2, <3>1 DEF Picks
    <3>2. CASE i # 0
      <4>1. i \in 1 .. n
        BY <1>1, <3>2
      <4> QED
        BY <1>1, <1>2, <3>2, <4>1 DEF Picks
    <3> QED
      BY <3>1, <3>2
  <2>2. g = [i \in 0 .. n |-> g[i]]
    BY <1>2 DEF Picks
  <2> QED
    BY <2>1, <2>2
<1>4. of = Rule(of)
  BY <1>3
<1>5. Form!Filled(input) = of[n]
  BY DEF Form!Filled
<1> HIDE DEF of
<1>6. Picks(of, s, T)
  <2>1. of[0] = <<>>
    BY <1>1, <1>4
  <2>2. ASSUME NEW i \in 1 .. n PROVE of[i] = IF s[i] \in T THEN Append(of[i - 1], s[i]) ELSE of[i - 1]
    <3>1. i \in 0 .. n /\ i # 0
      BY <1>1
    <3>2. of[i] = Rule(of)[i]
      BY <1>4
    <3>3. Rule(of)[i] = IF s[i] # "blank" THEN Append(of[i - 1], s[i]) ELSE of[i - 1]
      BY <3>1
    <3> QED
      BY <1>1, <3>2, <3>3
  <2>3. of = [i \in 0 .. n |-> of[i]]
    BY <1>4
  <2> QED
    BY <2>1, <2>2, <2>3 DEF Picks
<1>7. s \in Seq(Form!Card) /\ n \in 0 .. n
  BY <1>1 DEF Cards
<1>8. /\ of[n] \in Seq(Form!Card \cap T) /\ Len(of[n]) <= n
      /\ \A j \in 0 .. n : /\ Len(of[j]) <= Len(of[n])
                           /\ \A k \in 1 .. Len(of[j]) : of[n][k] = of[j][k]
      /\ \A i \in 0 .. n : (\A k \in 1 .. i : s[k] \in T) =>
              /\ Len(of[i]) = i
              /\ \A k \in 1 .. i : of[i][k] = s[k]
  <2>1. Picked(of, s, T, Form!Card)
    BY <1>6, <1>7, PicksAre
  <2>2. n = Len(s)
    OBVIOUS
  <2> HIDE DEF n, s, T
  <2> QED
    BY <1>7, <2>1, <2>2 DEF Picked
<1>9. of[n] \in Seq(T)
  <2>1. Form!Card \cap T = T
    BY DEF Form!Card
  <2> QED
    BY <1>8, <2>1
<1>10. ASSUME NEW i \in 1 .. n, \A k \in 1 .. i : s[k] # "blank"
       PROVE  i <= Len(of[n]) /\ of[n][i] = s[i]
  <2>1. i \in 0 .. n /\ i \in 1 .. i /\ \A k \in 1 .. i : s[k] \in T
    BY <1>1, <1>10
  <2>2. Len(of[i]) = i /\ of[i][i] = s[i]
    BY <1>8, <2>1
  <2> QED
    BY <1>8, <2>1, <2>2
<1> QED
  BY <1>5, <1>8, <1>9, <1>10

\* An edit: nothing is fresh until the button is pressed again.
LEMMA EditIsMade ==
  ASSUME FormInv, NEW value \in Fields, Len(value.cards) <= MaxCards, Form!Edit(value)
  PROVE  FormInv'
<1>1. /\ edits < MaxEdits /\ edits' = edits + 1 /\ entry' = value /\ fresh' = FALSE
      /\ UNCHANGED <<complaints, submission, submits>>
  BY DEF Form!Edit
<1>2. edits' \in 0 .. MaxEdits
  BY <1>1, FormAssumption DEF FormInv, FormTyped
<1> QED
  BY <1>1, <1>2 DEF FormInv, FormTyped, Form!SubmittedIsAccepted, Form!RefusalIsShown, Form!Accepts

LEMMA FieldsAreEdited == ASSUME FormInv, Form!EditFields PROVE FormInv'
<1>1. PICK e \in Fields : e = entry /\ Len(e.cards) <= MaxCards
  BY DEF FormInv, FormTyped
<1>2. CASE \E t \in Form!Type : Form!Edit([entry EXCEPT !.type = t])
  <2>1. PICK t \in Form!Type : Form!Edit([e EXCEPT !.type = t])
    BY <1>1, <1>2
  <2>2. [e EXCEPT !.type = t] \in Fields /\ [e EXCEPT !.type = t].cards = e.cards
    BY DEF Fields
  <2> QED
    BY <1>1, <2>1, <2>2, EditIsMade
<1>3. CASE \E t \in {"empty", "title"} : Form!Edit([entry EXCEPT !.title = t])
  <2>1. PICK t \in {"empty", "title"} : Form!Edit([e EXCEPT !.title = t])
    BY <1>1, <1>3
  <2>2. [e EXCEPT !.title = t] \in Fields /\ [e EXCEPT !.title = t].cards = e.cards
    BY DEF Fields
  <2> QED
    BY <1>1, <2>1, <2>2, EditIsMade
<1>4. CASE \E a \in Form!Time : Form!Edit([entry EXCEPT !.at = a])
  <2>1. PICK a \in Form!Time : Form!Edit([e EXCEPT !.at = a])
    BY <1>1, <1>4
  <2>2. [e EXCEPT !.at = a] \in Fields /\ [e EXCEPT !.at = a].cards = e.cards
    BY DEF Fields
  <2> QED
    BY <1>1, <2>1, <2>2, EditIsMade
<1> QED
  BY <1>2, <1>3, <1>4 DEF Form!EditFields

LEMMA CardsAreEdited == ASSUME FormInv, Form!EditCards PROVE FormInv'
<1>1. PICK e \in Fields : e = entry /\ Len(e.cards) <= MaxCards
  BY DEF FormInv, FormTyped
<1>2. e.cards \in Cards /\ Len(e.cards) \in Nat
  BY DEF Fields, Cards
<1>3. ASSUME NEW s \in Cards, Len(s) <= MaxCards, Form!Edit([e EXCEPT !.cards = s])
      PROVE  FormInv'
  <2>1. [e EXCEPT !.cards = s] \in Fields /\ [e EXCEPT !.cards = s].cards = s
    BY DEF Fields
  <2> QED
    BY <1>3, <2>1, EditIsMade
<1>4. CASE Len(entry.cards) < MaxCards /\ Form!Edit([entry EXCEPT !.cards = Append(@, "blank")])
  <2>1. Append(e.cards, "blank") \in Cards /\ Len(Append(e.cards, "blank")) = Len(e.cards) + 1
    BY <1>2 DEF Cards, Form!Card
  <2>2. PICK s \in Cards : s = Append(e.cards, "blank") /\ Len(s) <= MaxCards
    <3>1. Len(e.cards) + 1 <= MaxCards
      BY <1>1, <1>2, <1>4, FormAssumption
    <3> QED
      BY <2>1, <3>1
  <2> QED
    BY <1>1, <1>3, <1>4, <2>2
<1>5. ASSUME NEW i \in DOMAIN entry.cards, NEW c \in Form!Card, Form!Edit([entry EXCEPT !.cards[i] = c])
      PROVE  FormInv'
  <2>0. [e.cards EXCEPT ![i] = c] \in Cards /\ Len([e.cards EXCEPT ![i] = c]) = Len(e.cards)
    BY <1>1, <1>2 DEF Cards
  <2>1. PICK s \in Cards : s = [e.cards EXCEPT ![i] = c] /\ Len(s) <= MaxCards
    BY <1>1, <1>2, <2>0
  <2>2. Form!Edit([e EXCEPT !.cards = s])
    BY <1>1, <1>5, <2>1
  <2> QED
    BY <1>3, <2>1, <2>2
<1>6. ASSUME NEW i \in DOMAIN entry.cards, Form!Edit([entry EXCEPT !.cards = Form!Without(@, i)])
      PROVE  FormInv'
  <2>1. i \in 1 .. Len(e.cards)
    BY <1>1, <1>2 DEF Cards
  <2>2. SubSeq(e.cards, 1, i - 1) \in Seq(Form!Card) /\ Len(SubSeq(e.cards, 1, i - 1)) = i - 1
    BY <1>2, <2>1, SubSeqProperties DEF Cards
  <2>3. /\ SubSeq(e.cards, i + 1, Len(e.cards)) \in Seq(Form!Card)
        /\ Len(SubSeq(e.cards, i + 1, Len(e.cards))) = Len(e.cards) - i
    BY <1>2, <2>1, SubSeqProperties DEF Cards
  <2>5. /\ Form!Without(e.cards, i) \in Cards
        /\ Len(Form!Without(e.cards, i)) = (i - 1) + (Len(e.cards) - i)
    BY <2>2, <2>3 DEF Cards, Form!Without
  <2>4. PICK s \in Cards : s = Form!Without(e.cards, i) /\ Len(s) <= MaxCards
    BY <1>1, <1>2, <2>1, <2>5, FormAssumption
  <2> QED
    BY <1>1, <1>3, <1>6, <2>4
<1> QED
  BY <1>4, <1>5, <1>6 DEF Form!EditCards

\* What the button hands over.
LEMMA InputIs ==
  ASSUME FormTyped
  PROVE  /\ Form!Input \in Fields /\ Len(Form!Input.cards) <= MaxCards
         /\ Form!Input.type = entry.type /\ Form!Input.title = entry.title
         /\ Form!Input.at = IF entry.type = "emergency" THEN "empty" ELSE entry.at
         /\ Form!Input.cards = IF entry.type = "live_commerce" THEN entry.cards ELSE <<>>
<1>1. PICK e \in Fields : e = entry /\ Len(e.cards) <= MaxCards
  BY DEF FormTyped
<1>2. PICK a \in Form!Time : a = IF e.type = "emergency" THEN "empty" ELSE e.at
  BY DEF Fields, Form!Time
<1>3. PICK s \in Cards : s = (IF e.type = "live_commerce" THEN e.cards ELSE <<>>) /\ Len(s) <= MaxCards
  <2>1. <<>> \in Cards /\ Len(<<>>) = 0 /\ e.cards \in Cards
    BY DEF Cards, Fields
  <2> QED
    BY <1>1, <2>1, FormAssumption
<1>4. Form!Input = [e EXCEPT !.at = a, !.cards = s]
  BY <1>1, <1>2, <1>3 DEF Form!Input
<1>5. [e EXCEPT !.at = a, !.cards = s] \in Fields
  BY DEF Fields
<1>6. /\ [e EXCEPT !.at = a, !.cards = s].at = a /\ [e EXCEPT !.at = a, !.cards = s].cards = s
      /\ [e EXCEPT !.at = a, !.cards = s].type = e.type /\ [e EXCEPT !.at = a, !.cards = s].title = e.title
  BY DEF Fields
<1> QED
  BY <1>1, <1>2, <1>3, <1>4, <1>5, <1>6

LEMMA FormIsSubmitted == ASSUME FormInv, Form!Submit PROVE FormInv'
<1>1. /\ submission = Form!None /\ submits < MaxSubmits /\ submits' = submits + 1
      /\ UNCHANGED <<entry, edits>>
  BY DEF Form!Submit
<1>2. PICK input \in Fields :
        /\ input = Form!Input /\ Len(input.cards) <= MaxCards
        /\ input.type = entry.type /\ input.title = entry.title
        /\ input.at = IF entry.type = "emergency" THEN "empty" ELSE entry.at
        /\ input.cards = IF entry.type = "live_commerce" THEN entry.cards ELSE <<>>
  BY InputIs DEF FormInv
<1>3. PICK filled \in Seq({"good", "bad"}) :
        /\ filled = Form!Filled(input) /\ Len(filled) <= Len(input.cards)
        /\ \A i \in 1 .. Len(input.cards) : (\A k \in 1 .. i : input.cards[k] # "blank")
             => i <= Len(filled) /\ filled[i] = input.cards[i]
  BY FilledCards DEF Fields
<1>4. PICK wrong : wrong = {i \in DOMAIN filled : filled[i] = "bad"}
  OBVIOUS
<1>5. Form!Validate(input) = [title |-> input.title = "empty", at |-> Form!TimeIsWrong(input), cards |-> wrong]
  BY <1>3, <1>4 DEF Form!Validate
<1>6. submits' \in 0 .. MaxSubmits
  BY <1>1, FormAssumption DEF FormInv, FormTyped
<1>7. Len(input.cards) \in Nat /\ Len(filled) \in Nat /\ DOMAIN filled = 1 .. Len(filled)
  BY DEF Fields, Cards
<1>8. input.cards # entry.cards => Len(input.cards) = 0
  BY <1>2
<1>9. CASE Form!Validate(input) # Form!NoComplaints
  <2>1. complaints' = Form!Validate(input) /\ fresh' = TRUE /\ UNCHANGED submission
    BY <1>2, <1>9 DEF Form!Submit
  <2>2. wrong \subseteq 1 .. MaxCards
    BY <1>2, <1>3, <1>4, <1>7, FormAssumption
  <2>3. complaints' \in Complaint /\ complaints'.cards = wrong
        /\ complaints'.title = (input.title = "empty") /\ complaints'.at = Form!TimeIsWrong(input)
    <3>1. PICK a \in BOOLEAN, b \in BOOLEAN : a = (input.title = "empty") /\ b = Form!TimeIsWrong(input)
      BY DEF Form!TimeIsWrong
    <3>2. complaints' = [title |-> a, at |-> b, cards |-> wrong]
      BY <1>5, <2>1, <3>1
    <3> QED
      BY <2>2, <3>1, <3>2 DEF Complaint
  <2>4. input.title = "empty" \/ Form!TimeIsWrong(input) \/ wrong # {}
    <3>1. CASE input.title # "empty" /\ ~Form!TimeIsWrong(input) /\ wrong = {}
      <4>1. (input.title = "empty") = FALSE /\ Form!TimeIsWrong(input) = FALSE
        BY <3>1 DEF Form!TimeIsWrong
      <4> QED
        BY <1>5, <1>9, <3>1, <4>1 DEF Form!NoComplaints
    <3> QED
      BY <3>1
  <2>5. Form!TimeIsWrong(input) => entry.type # "emergency"
    BY <1>2 DEF Form!TimeIsWrong
  <2>6. ASSUME NEW i \in wrong
        PROVE  /\ entry.type = "live_commerce" /\ i \in DOMAIN entry.cards
               /\ (\A k \in 1 .. i : entry.cards[k] # "blank") => entry.cards[i] = "bad"
    <3>1. i \in 1 .. Len(input.cards) /\ filled[i] = "bad"
      BY <1>3, <1>4, <1>7
    <3>2. entry.type = "live_commerce" /\ input.cards = entry.cards
      BY <1>2, <1>8, <3>1
    <3>3. DOMAIN entry.cards = 1 .. Len(entry.cards)
      BY DEF FormInv, FormTyped, Fields, Cards
    <3> QED
      BY <1>3, <3>1, <3>2, <3>3
  <2>7. Form!RefusalIsShown'
    BY <1>1, <2>3, <2>4, <2>5, <2>6 DEF Form!RefusalIsShown
  <2> QED
    BY <1>1, <1>6, <2>1, <2>3, <2>7 DEF FormInv, FormTyped, Form!SubmittedIsAccepted, Form!Accepts
<1>10. CASE Form!Validate(input) = Form!NoComplaints
  <2>1. /\ complaints' = Form!NoComplaints /\ fresh' = FALSE
        /\ submission' = [input EXCEPT !.cards = filled]
    BY <1>2, <1>3, <1>10 DEF Form!Submit
  <2>2. input.title # "empty" /\ ~Form!TimeIsWrong(input) /\ wrong = {}
    <3>1. PICK a \in BOOLEAN, b \in BOOLEAN : a = (input.title = "empty") /\ b = Form!TimeIsWrong(input)
      BY DEF Form!TimeIsWrong
    <3>2. [title |-> a, at |-> b, cards |-> wrong] = [title |-> FALSE, at |-> FALSE, cards |-> {}]
      BY <1>5, <1>10, <3>1 DEF Form!NoComplaints
    <3>3. a = FALSE /\ b = FALSE /\ wrong = {}
      BY <3>2
    <3> QED
      BY <3>1, <3>3
  <2>3. /\ submission'.type = input.type /\ submission'.title = input.title
        /\ submission'.at = input.at /\ submission'.cards = filled
    BY <2>1 DEF Fields
  <2>4. \A i \in DOMAIN filled : filled[i] = "good"
    BY <1>4, <1>7, <2>2
  <2>5. filled # <<>> => input.type = "live_commerce"
    BY <1>2, <1>3, <1>7
  <2>6. Len(filled) <= MaxCards
    BY <1>2, <1>3, <1>7, FormAssumption
  <2>7. input.at # "local" => input.at \in {"empty", "iso"} /\ (input.type = "emergency" <=> input.at = "empty")
    BY <1>2, <2>2 DEF Form!TimeIsWrong, Fields, Form!Time
  <2>8. Form!SubmittedIsAccepted'
    BY <2>2, <2>3, <2>4, <2>5, <2>6, <2>7 DEF Form!SubmittedIsAccepted, Form!Accepts
  <2>9. complaints' \in Complaint
    BY <2>1 DEF Form!NoComplaints, Complaint
  <2> QED
    BY <1>1, <1>6, <2>1, <2>8, <2>9 DEF FormInv, FormTyped, Form!RefusalIsShown
<1> QED
  BY <1>9, <1>10

LEMMA FormIsAnswered == ASSUME FormInv, Form!Answer PROVE FormInv'
<1>1. submission' = Form!None /\ ~fresh /\ UNCHANGED <<edits, submits, fresh>>
  BY DEF Form!Answer, FormInv
<1>2. entry' \in Fields /\ Len(entry'.cards) <= MaxCards /\ complaints' \in Complaint
  <2>1. CASE complaints' = complaints /\ entry' = [entry EXCEPT !.title = "empty", !.at = "empty", !.cards = <<>>]
    <3>1. PICK e \in Fields : e = entry
      BY DEF FormInv, FormTyped
    <3>0. <<>> \in Cards /\ Len(<<>>) = 0
      BY DEF Cards
    <3>2. PICK s \in Cards : s = <<>> /\ Len(s) = 0
      BY <3>0
    <3>3. entry' = [e EXCEPT !.title = "empty", !.at = "empty", !.cards = s]
      BY <2>1, <3>1, <3>2
    <3>4. entry' \in Fields /\ entry'.cards = s
      BY <3>3 DEF Fields, Form!Time
    <3> QED
      BY <2>1, <3>2, <3>4, FormAssumption DEF FormInv, FormTyped
  <2>2. CASE Form!Complain
    <3>1. PICK c \in Complaint : c = complaints
      BY DEF FormInv, FormTyped
    <3>2. [c EXCEPT !.title = TRUE] \in Complaint
      BY DEF Complaint
    <3> QED
      BY <2>2, <3>1, <3>2 DEF Form!Complain, FormInv, FormTyped
  <2> QED
    BY <2>1, <2>2 DEF Form!Answer
<1> QED
  BY <1>1, <1>2 DEF FormInv, FormTyped, Form!SubmittedIsAccepted, Form!RefusalIsShown

LEMMA FormSteps == ASSUME FormInv, Form!FormNext \/ UNCHANGED formVars PROVE FormInv'
<1>1. CASE UNCHANGED formVars
  BY <1>1 DEF formVars, FormInv, FormTyped, Form!SubmittedIsAccepted, Form!RefusalIsShown, Form!Accepts
<1> QED
  BY <1>1, FieldsAreEdited, CardsAreEdited, FormIsSubmitted, FormIsAnswered DEF Form!FormNext

LEMMA FormHolds ==
  ASSUME FormInv PROVE Form!FormTypeOK /\ Form!SubmittedIsAccepted /\ Form!RefusalIsShown
BY DEF FormInv, FormTyped, Fields, Complaint, Form!FormTypeOK

-------------------------------------------------------------------------------
(* The lists of contents and of uploads *)

BoardRow == [came : 0 .. 2, now : 0 .. 2]
BoardPage == [rows : Seq(1 .. MaxRows), total : Nat]
BoardList == [pages : Seq(BoardPage), there : SUBSET (1 .. MaxRows), left : BOOLEAN]
BoardData == [list : BoardList, failed : BOOLEAN, stale : BOOLEAN, passed : BOOLEAN]
BoardFetch == [task : {"none", "whole", "next"}, upTo : Nat, list : BoardList, late : BOOLEAN]

BoardTyped ==
  /\ newest \in BOOLEAN /\ items \in Seq(BoardRow) /\ Len(items) <= MaxRows /\ chip \in List!Chips
  /\ cached \in [List!Chip -> BoardData] /\ fetch \in [List!Chip -> BoardFetch]
  /\ decision \in [row : 0 .. MaxRows, pc : {"none", "done", "conflict", "over"}]
  /\ known \subseteq 1 .. MaxRows

\* A row of the queue has its captions.
ItemsFit ==
  \A i \in 1 .. Len(items) :
    items[i].came <= items[i].now /\ (~newest => items[i].came # List!Bare)

\* A row of the filter, and how many of the filter's rows come before it, itself included.
Has(its, c, i) == c \in {List!All, its[i].now}
AheadOf(new, its, c, i) ==
  {j \in 1 .. Len(its) : Has(its, c, j) /\ (IF new THEN j >= i ELSE j <= i)}
Ahead(new, its, c, i) == Cardinality(AheadOf(new, its, c, i))

\* The row is on one of the pages.
Paged(pages, i) == \E k \in 1 .. Len(pages) : \E n \in 1 .. Len(pages[k].rows) : pages[k].rows[n] = i

\* A page shows rows of its filter; a row that was there when the first was read is on one, or
\* further on than they reach.
PagesFit(its, c, pages) ==
  /\ \A k \in 1 .. Len(pages) : Len(pages[k].rows) <= PageSize
  /\ \A i \in 1 .. MaxRows : Paged(pages, i) =>
       /\ i \in 1 .. Len(its)
       /\ c # List!All => its[i].came <= c /\ c <= its[i].now
RowsReached(new, its, c, pages, there) ==
  \A i \in there :
    /\ i \in 1 .. Len(its) /\ Has(its, c, i)
    /\ Paged(pages, i) \/ Len(pages) * PageSize < Ahead(new, its, c, i)
EndsRight(new, its, c, pages, there) ==
  pages # <<>> => \A i \in there : Paged(pages, i) \/ Len(pages) * PageSize < pages[Len(pages)].total
ListFits(new, its, c, pages, there, left) ==
  /\ PagesFit(its, c, pages)
  /\ pages # <<>> /\ ~left =>
       RowsReached(new, its, c, pages, there) /\ EndsRight(new, its, c, pages, there)

\* What is kept fits, and what a fetch has read, by itself or after what is kept.
DataFits(new, its, c, d) == ListFits(new, its, c, d.list.pages, d.list.there, d.list.left)
FetchFits(new, its, c, d, f) ==
  /\ f.task = "none" => f.list.pages = <<>>
  /\ f.task = "whole" => ListFits(new, its, c, f.list.pages, f.list.there, f.list.left)
  /\ f.task = "next" =>
       /\ d.list.pages # <<>> /\ Len(f.list.pages) <= 1 /\ f.upTo = 1
       /\ ListFits(new, its, c, d.list.pages \o f.list.pages, d.list.there, d.list.left)
ChipFits(new, its, c, d, f) == DataFits(new, its, c, d) /\ FetchFits(new, its, c, d, f)

\* What the reader was told is decided is.
DecidedFits ==
  /\ \A i \in known : i \in 1 .. Len(items) /\ items[i].now = List!Decided
  /\ decision.pc = "done" \/ (decision.pc = "conflict" /\ ~newest) =>
       decision.row \in 1 .. Len(items) /\ items[decision.row].now = List!Decided

\* Where what the reader was told is decided is shown still, a refetch is owed or was passed.
ShowsAny(told, pages) == \E i \in told : Paged(pages, i)
Owes(ch, told, d, f) ==
  /\ ShowsAny(told, f.list.pages) => f.late
  /\ ShowsAny(told, d.list.pages) => d.stale \/ d.passed
  /\ f.task = "next" /\ d.stale => d.passed \/ f.late
  /\ ch = List!Waiting /\ d.stale /\ d.list.pages # <<>> => f.task # "none" \/ d.failed

BoardInv ==
  /\ BoardTyped /\ ItemsFit /\ DecidedFits
  /\ Owes(chip, known, cached[List!Waiting], fetch[List!Waiting])
  /\ \A c \in List!Chip : ChipFits(newest, items, c, cached[c], fetch[c])

\* As many are picked of the first i as there are among them, where none is there twice.
Distinct(s) == \A i \in 1 .. Len(s) : \A j \in 1 .. Len(s) : s[i] = s[j] => i = j
FirstOf(s, i, T) == {s[j] : j \in 1 .. i} \cap T
LEMMA PicksCount ==
  ASSUME NEW V, NEW s \in Seq(V), NEW T, NEW f, Picks(f, s, T),
         Distinct(s)
  PROVE  \A i \in 0 .. Len(s) :
           IsFiniteSet(FirstOf(s, i, T)) /\ Cardinality(FirstOf(s, i, T)) = Len(f[i])
<1> DEFINE First(i) == FirstOf(s, i, T)
           Good(i) == IsFiniteSet(First(i)) /\ Cardinality(First(i)) = Len(f[i])
           Wrong == {i \in 0 .. Len(s) : ~ Good(i)}
<1>1. Len(s) \in Nat /\ Picked(f, s, T, V)
  BY PicksAre
<1>2. Good(0)
  <2>1. First(0) = {}
    BY DEF FirstOf
  <2>2. f[0] = <<>>
    BY DEF Picks
  <2> QED
    BY <2>1, <2>2, FS_EmptySet
<1>3. ASSUME NEW i \in 1 .. Len(s), Good(i - 1) PROVE Good(i)
  <2>1. i \in Nat /\ i - 1 \in 0 .. Len(s) /\ 1 .. i = (1 .. i - 1) \union {i}
    BY <1>1
  <2>2. f[i] = IF s[i] \in T THEN Append(f[i - 1], s[i]) ELSE f[i - 1]
    BY DEF Picks
  <2>3. f[i - 1] \in Seq(V \cap T)
    BY <1>1, <2>1 DEF Picked
  <2>4. CASE s[i] \notin T
    <3>1. First(i) = First(i - 1)
      BY <2>1, <2>4 DEF FirstOf
    <3> QED
      BY <1>3, <2>2, <2>4, <3>1
  <2>5. CASE s[i] \in T
    <3>1. First(i) = First(i - 1) \union {s[i]}
      BY <2>1, <2>5 DEF FirstOf
    <3>2. s[i] \notin First(i - 1)
      <4>1. ASSUME NEW j \in 1 .. i - 1 PROVE s[j] # s[i]
        <5>1. j \in 1 .. Len(s) /\ j # i
          BY <1>1
        <5> QED
          BY <5>1 DEF Distinct
      <4> QED
        BY <4>1 DEF FirstOf
    <3>3. IsFiniteSet(First(i)) /\ Cardinality(First(i)) = Cardinality(First(i - 1)) + 1
      <4>1. PICK F : F = First(i - 1) /\ IsFiniteSet(F)
        BY <1>3
      <4>2. PICK x : x = s[i] /\ x \notin F
        BY <3>2, <4>1
      <4>3. IsFiniteSet(F \union {x}) /\ Cardinality(F \union {x}) = Cardinality(F) + 1
        BY <4>1, <4>2, FS_AddElement
      <4> HIDE DEF First
      <4> QED
        BY <3>1, <4>1, <4>2, <4>3
    <3>4. Len(f[i]) = Len(f[i - 1]) + 1
      <4>1. s[i] \in V \cap T
        BY <2>5
      <4> QED
        BY <2>2, <2>3, <2>5, <4>1
    <3> QED
      BY <1>3, <3>3, <3>4
  <2> QED
    BY <2>4, <2>5
<1> HIDE DEF Good
<1>4. Wrong = {}
  <2>1. Wrong \in SUBSET Nat
    OBVIOUS
  <2>2. CASE Wrong # {}
    <3>1. PICK m \in Wrong : \A k \in Wrong : m <= k
      BY <2>1, <2>2, LeastIndex
    <3>2. m # 0
      BY <1>2, <3>1
    <3>3. m \in 1 .. Len(s) /\ m - 1 \in 0 .. Len(s) /\ ~ (m <= m - 1)
      BY <1>1, <3>1, <3>2
    <3>4. m - 1 \notin Wrong
      BY <3>1, <3>3
    <3>5. Good(m - 1)
      BY <3>3, <3>4
    <3> QED
      BY <1>3, <3>1, <3>3, <3>5
  <2> QED
    BY <2>2
<1> QED
  BY <1>4 DEF Good

\* A filter's rows: each is one, and stands behind as many as come before it.
IsListed(s, c) ==
  /\ s \in Seq(1 .. Len(items)) /\ \A k \in 1 .. Len(s) : Has(items, c, s[k])
  /\ \A i \in 1 .. Len(items) : Has(items, c, i) =>
       /\ Ahead(newest, items, c, i) \in 1 .. Len(s)
       /\ s[Ahead(newest, items, c, i)] = i

LEMMA ListedIs ==
  ASSUME BoardTyped, NEW c \in List!Chip
  PROVE  IsListed(List!Listed(c), c)
<1> DEFINE n == Len(items)
           s == [k \in 1 .. Len(items) |-> IF newest THEN Len(items) + 1 - k ELSE k]
           T == {i \in 1 .. Len(items) : Has(items, c, i)}
           Rule(f) == [k \in 0 .. Len(items) |->
                         IF k = 0 THEN <<>>
                         ELSE IF List!In(c, s[k]) THEN Append(f[k - 1], s[k]) ELSE f[k - 1]]
           of == CHOOSE f : f = Rule(f)
<1>1. n \in Nat
  BY DEF BoardTyped
<1>2. /\ s \in Seq(1 .. n) /\ Len(s) = n
      /\ \A k \in 1 .. n : s[k] \in 1 .. n /\ s[k] = (IF newest THEN n + 1 - k ELSE k)
      /\ \A k \in 1 .. n : s[k] \in T <=> List!In(c, s[k])
  <2>1. \A k \in 1 .. n : (IF newest THEN n + 1 - k ELSE k) \in 1 .. n
    BY <1>1
  <2>2. s \in Seq(1 .. n) /\ Len(s) = n
    <3>1. s \in [1 .. n -> 1 .. n]
      BY <2>1
    <3> HIDE DEF s
    <3> QED
      BY <1>1, <3>1
  <2> QED
    BY <2>1, <2>2 DEF List!In, Has
<1>3. PICK g : Picks(g, s, T)
  <2> HIDE DEF s, T, n
  <2> QED
    BY <1>2, PicksExist
<1>4. g = Rule(g)
  <2>1. ASSUME NEW i \in 0 .. n
        PROVE  g[i] = IF i = 0 THEN <<>>
                      ELSE IF List!In(c, s[i]) THEN Append(g[i - 1], s[i]) ELSE g[i - 1]
    <3>1. CASE i = 0
      BY <1>3, <3>1 DEF Picks
    <3>2. CASE i # 0
      <4>1. i \in 1 .. Len(s)
        BY <1>1, <1>2, <3>2
      <4>2. g[i] = IF s[i] \in T THEN Append(g[i - 1], s[i]) ELSE g[i - 1]
        BY <1>3, <4>1 DEF Picks
      <4> HIDE DEF s, T
      <4> QED
        BY <1>2, <3>2, <4>1, <4>2
    <3> QED
      BY <3>1, <3>2
  <2>2. g = [i \in 0 .. n |-> g[i]]
    BY <1>2, <1>3 DEF Picks
  <2> QED
    BY <2>1, <2>2
<1>5. of = Rule(of)
  BY <1>4
<1>6. List!Listed(c) = of[n]
  BY DEF List!Listed
<1> HIDE DEF of
<1>7. Picks(of, s, T)
  <2>1. of[0] = <<>>
    BY <1>1, <1>5
  <2>2. ASSUME NEW i \in 1 .. n
        PROVE  of[i] = IF s[i] \in T THEN Append(of[i - 1], s[i]) ELSE of[i - 1]
    <3>1. i \in 0 .. n /\ i # 0
      BY <1>1
    <3>2. of[i] = IF List!In(c, s[i]) THEN Append(of[i - 1], s[i]) ELSE of[i - 1]
      BY <1>5, <3>1
    <3> HIDE DEF s, T
    <3> QED
      BY <1>2, <3>2
  <2>3. of = [i \in 0 .. n |-> of[i]]
    BY <1>5
  <2> HIDE DEF s, T, n
  <2> QED
    BY <1>2, <2>1, <2>2, <2>3 DEF Picks
<1>8. Distinct(s)
  <2> SUFFICES ASSUME NEW i \in 1 .. n, NEW j \in 1 .. n, s[i] = s[j] PROVE i = j
    BY <1>2 DEF Distinct
  <2>1. s[i] = (IF newest THEN n + 1 - i ELSE i) /\ s[j] = (IF newest THEN n + 1 - j ELSE j)
    BY <1>2
  <2> HIDE DEF s
  <2>2. CASE newest
    <3>1. n + 1 - i = n + 1 - j
      BY <2>1, <2>2
    <3> QED
      BY <1>1, <3>1
  <2>3. CASE ~newest
    BY <2>1, <2>3
  <2> QED
    BY <2>2, <2>3
<1>9. /\ Picked(of, s, T, 1 .. n)
      /\ \A i \in 0 .. n : Cardinality(FirstOf(s, i, T)) = Len(of[i])
  <2> HIDE DEF s, T, n
  <2>1. Picked(of, s, T, 1 .. n)
    BY <1>2, <1>7, PicksAre
  <2>2. \A i \in 0 .. Len(s) : Cardinality(FirstOf(s, i, T)) = Len(of[i])
    BY <1>2, <1>7, <1>8, PicksCount
  <2> QED
    BY <1>2, <2>1, <2>2
<1>10. of[n] \in Seq(1 .. n) /\ \A k \in 1 .. Len(of[n]) : Has(items, c, of[n][k])
  <2>1. of[n] \in Seq((1 .. n) \cap T)
    <3>1. n \in 0 .. n
      BY <1>1
    <3> HIDE DEF s, T, n
    <3> QED
      BY <1>2, <1>9, <3>1 DEF Picked
  <2>2. \A i \in (1 .. n) \cap T : i \in 1 .. n /\ Has(items, c, i)
    OBVIOUS
  <2> HIDE DEF s, T, n
  <2>3. PICK W : W = (1 .. n) \cap T
    OBVIOUS
  <2>4. PICK q \in Seq(W) : q = of[n]
    BY <2>1, <2>3
  <2>5. \A k \in 1 .. Len(q) : q[k] \in 1 .. n /\ Has(items, c, q[k])
    BY <2>2, <2>3, <2>4
  <2>6. q \in Seq(1 .. n)
    <3>1. PICK U : U = 1 .. n
      OBVIOUS
    <3>2. Len(q) \in Nat /\ q = [k \in 1 .. Len(q) |-> q[k]] /\ \A k \in 1 .. Len(q) : q[k] \in U
      BY <2>4, <2>5, <3>1
    <3>3. q \in [1 .. Len(q) -> U]
      BY <3>2
    <3>4. q \in Seq(U)
      BY <3>2, <3>3, SeqDef
    <3> QED
      BY <3>1, <3>4
  <2> QED
    BY <2>4, <2>5, <2>6
<1>11. ASSUME NEW i \in 1 .. n, Has(items, c, i)
       PROVE  /\ Ahead(newest, items, c, i) \in 1 .. Len(of[n])
              /\ of[n][Ahead(newest, items, c, i)] = i
  <2>1. PICK k \in 1 .. n : k = IF newest THEN n + 1 - i ELSE i
    BY <1>1
  <2>2. s[k] = i /\ s[k] \in T
    <3>1. s[k] = IF newest THEN n + 1 - k ELSE k
      BY <1>2
    <3>2. i \in T
      BY <1>11
    <3> HIDE DEF s, T
    <3>3. s[k] = i
      <4>1. CASE newest
        <5>1. n + 1 - k = i
          BY <1>1, <2>1, <4>1
        <5> QED
          BY <3>1, <4>1, <5>1
      <4>2. CASE ~newest
        BY <2>1, <3>1, <4>2
      <4> QED
        BY <4>1, <4>2
    <3> QED
      BY <3>2, <3>3
  <2>3. FirstOf(s, k, T) = AheadOf(newest, items, c, i)
    <3>1. ASSUME NEW j \in 1 .. k
          PROVE  s[j] \in 1 .. n /\ (IF newest THEN s[j] >= i ELSE s[j] <= i)
      <4>1. j \in 1 .. n
        BY <1>1
      <4>2. s[j] \in 1 .. n /\ s[j] = IF newest THEN n + 1 - j ELSE j
        BY <1>2, <4>1
      <4> HIDE DEF s
      <4>3. CASE newest
        <5>1. n + 1 - j >= i
          BY <1>1, <2>1, <4>3
        <5> QED
          BY <4>2, <4>3, <5>1
      <4>4. CASE ~newest
        BY <2>1, <4>2, <4>4
      <4> QED
        BY <4>3, <4>4
    <3>2. ASSUME NEW j \in 1 .. n, IF newest THEN j >= i ELSE j <= i
          PROVE  \E m \in 1 .. k : s[m] = j
      <4>1. PICK m \in 1 .. k : m = IF newest THEN n + 1 - j ELSE j
        BY <1>1, <2>1, <3>2
      <4>2. m \in 1 .. n
        BY <1>1
      <4>3. s[m] = j
        BY <1>1, <1>2, <4>1, <4>2
      <4> QED
        BY <4>3
    <3>3. \A j : j \in FirstOf(s, k, T) <=> (\E m \in 1 .. k : s[m] = j) /\ j \in T
      BY DEF FirstOf
    <3>4. \A j : j \in T <=> j \in 1 .. n /\ Has(items, c, j)
      OBVIOUS
    <3>5. \A j : j \in AheadOf(newest, items, c, i) <=>
            j \in 1 .. n /\ Has(items, c, j) /\ (IF newest THEN j >= i ELSE j <= i)
      BY DEF AheadOf
    <3> HIDE DEF s, T, n
    <3>6. \A j : j \in FirstOf(s, k, T) <=> j \in AheadOf(newest, items, c, i)
      BY <3>1, <3>2, <3>3, <3>4, <3>5
    <3> QED
      BY <3>6
  <2>4. Ahead(newest, items, c, i) = Len(of[k])
    <3>1. k \in 0 .. n
      BY <1>1
    <3> QED
      BY <1>9, <2>3, <3>1 DEF Ahead
  <2>5. of[k] = Append(of[k - 1], i)
    <3> HIDE DEF s, T, n
    <3> QED
      BY <1>2, <1>7, <2>2 DEF Picks
  <2>6. of[k - 1] \in Seq((1 .. n) \cap T) /\ i \in (1 .. n) \cap T
    <3>1. k - 1 \in 0 .. n
      BY <1>1
    <3>2. i \in T
      BY <2>2
    <3> HIDE DEF s, T, n
    <3> QED
      BY <1>2, <1>9, <3>1, <3>2 DEF Picked
  <2>7. Len(of[k]) \in 1 .. Len(of[k]) /\ of[k][Len(of[k])] = i
    <3> HIDE DEF s, T, n
    <3> QED
      BY <2>5, <2>6
  <2>8. Len(of[k]) <= Len(of[n]) /\ \A m \in 1 .. Len(of[k]) : of[n][m] = of[k][m]
    <3>1. n \in 0 .. n /\ k \in 0 .. n
      BY <1>1
    <3> HIDE DEF s, T, n
    <3>2. n \in 0 .. Len(s)
      BY <1>2, <3>1
    <3>3. \A j \in 0 .. n : /\ Len(of[j]) <= Len(of[n])
                           /\ \A m \in 1 .. Len(of[j]) : of[n][m] = of[j][m]
      BY <1>9, <3>2 DEF Picked
    <3> QED
      BY <3>1, <3>3
  <2>9. Len(of[n]) \in Nat
    BY <1>10
  <2> QED
    BY <2>4, <2>7, <2>8, <2>9
<1> HIDE DEF s, T, n
<1>12. IsListed(of[n], c)
  BY <1>10, <1>11 DEF IsListed, n
<1> QED
  BY <1>6, <1>12

\* Rows are added and move on: those of a filter come no earlier for it.
ItemsGrow(its, next) ==
  /\ Len(its) \in Nat /\ Len(next) \in Nat /\ Len(its) <= Len(next)
  /\ \A i \in 1 .. Len(its) : /\ its[i] \in BoardRow /\ next[i] \in BoardRow
                              /\ next[i].came = its[i].came /\ its[i].now <= next[i].now
StayIn(its, next, c) == \A i \in 1 .. Len(its) : Has(its, c, i) => Has(next, c, i)

LEMMA AheadGrows ==
  ASSUME NEW new \in BOOLEAN, NEW its, NEW next, NEW c, NEW i,
         ItemsGrow(its, next), StayIn(its, next, c)
  PROVE  /\ Ahead(new, its, c, i) \in Nat /\ Ahead(new, next, c, i) \in Nat
         /\ Ahead(new, its, c, i) <= Ahead(new, next, c, i)
<1>1. AheadOf(new, its, c, i) \in SUBSET AheadOf(new, next, c, i)
  <2>1. \A j \in 1 .. Len(its) : j \in 1 .. Len(next)
    BY DEF ItemsGrow
  <2> QED
    BY <2>1 DEF AheadOf, StayIn
<1>2. AheadOf(new, next, c, i) \in SUBSET (1 .. Len(next)) /\ IsFiniteSet(1 .. Len(next))
  <2>1. 1 \in Int /\ Len(next) \in Int
    BY DEF ItemsGrow
  <2> QED
    BY <2>1, FS_Interval DEF AheadOf
<1>3. IsFiniteSet(AheadOf(new, next, c, i))
  BY <1>2, FS_Subset
<1>4. /\ IsFiniteSet(AheadOf(new, its, c, i))
      /\ Cardinality(AheadOf(new, its, c, i)) <= Cardinality(AheadOf(new, next, c, i))
  BY <1>1, <1>3, FS_Subset
<1> QED
  BY <1>3, <1>4, FS_CardinalityType DEF Ahead

LEMMA ListGrows ==
  ASSUME NEW new \in BOOLEAN, NEW its, NEW next, NEW c \in List!Chip, NEW pages \in Seq(BoardPage),
         NEW there, NEW left \in BOOLEAN, ItemsGrow(its, next),
         ListFits(new, its, c, pages, there, left), left \/ StayIn(its, next, c)
  PROVE  ListFits(new, next, c, pages, there, left)
<1>1. PagesFit(next, c, pages)
  <2>1. ASSUME NEW i \in 1 .. MaxRows, Paged(pages, i)
        PROVE  i \in 1 .. Len(next) /\ (c # List!All => next[i].came <= c /\ c <= next[i].now)
    <3>1. i \in 1 .. Len(its) /\ (c # List!All => its[i].came <= c /\ c <= its[i].now)
      BY <2>1 DEF ListFits, PagesFit
    <3>2. /\ its[i].came \in 0 .. 2 /\ its[i].now \in 0 .. 2 /\ next[i].now \in 0 .. 2
          /\ next[i].came = its[i].came /\ its[i].now <= next[i].now
      BY <3>1 DEF ItemsGrow, BoardRow
    <3>3. i \in 1 .. Len(next)
      BY <3>1 DEF ItemsGrow
    <3>4. c \in 0 .. 3
      BY DEF List!Chip, List!Bare, List!Waiting, List!Decided, List!All
    <3> QED
      BY <3>1, <3>2, <3>3, <3>4
  <2> QED
    BY <2>1 DEF ListFits, PagesFit
<1>2. ASSUME pages # <<>>, ~left
      PROVE  RowsReached(new, next, c, pages, there) /\ EndsRight(new, next, c, pages, there)
  <2>1. RowsReached(new, its, c, pages, there) /\ EndsRight(new, its, c, pages, there)
    BY <1>2 DEF ListFits
  <2>2. PICK reach \in Nat : reach = Len(pages) * PageSize
    BY BoardAssumption
  <2>3. ASSUME NEW i \in there
        PROVE  /\ i \in 1 .. Len(next) /\ Has(next, c, i)
               /\ Paged(pages, i) \/ reach < Ahead(new, next, c, i)
    <3>1. /\ i \in 1 .. Len(its) /\ Has(its, c, i)
          /\ Paged(pages, i) \/ reach < Ahead(new, its, c, i)
      BY <2>1, <2>2 DEF RowsReached
    <3>2. i \in 1 .. Len(next) /\ Has(next, c, i)
      BY <1>2, <3>1 DEF ItemsGrow, StayIn
    <3>3. /\ Ahead(new, its, c, i) \in Nat /\ Ahead(new, next, c, i) \in Nat
          /\ Ahead(new, its, c, i) <= Ahead(new, next, c, i)
      BY <1>2, AheadGrows
    <3> QED
      BY <3>1, <3>2, <3>3
  <2>4. RowsReached(new, next, c, pages, there)
    BY <2>2, <2>3 DEF RowsReached
  <2> QED
    BY <2>1, <2>4 DEF EndsRight
<1> QED
  BY <1>1, <1>2 DEF ListFits

\* The rows of a page, and of one more.
LEMMA PagedOneMore ==
  ASSUME NEW pages \in Seq(BoardPage), NEW p \in BoardPage, NEW i
  PROVE  Paged(Append(pages, p), i) <=> Paged(pages, i) \/ \E n \in 1 .. Len(p.rows) : p.rows[n] = i
<1>1. PICK more \in Seq(BoardPage) : more = Append(pages, p)
  <2>1. Append(pages, p) \in Seq(BoardPage)
    OBVIOUS
  <2> QED
    BY <2>1
<1>2. /\ Len(more) = Len(pages) + 1 /\ Len(pages) \in Nat /\ more[Len(pages) + 1] = p
      /\ \A k \in 1 .. Len(pages) : more[k] = pages[k]
  BY <1>1
<1>3. ASSUME Paged(more, i)
      PROVE  Paged(pages, i) \/ \E n \in 1 .. Len(p.rows) : p.rows[n] = i
  <2>1. PICK k \in 1 .. Len(more) : \E n \in 1 .. Len(more[k].rows) : more[k].rows[n] = i
    BY <1>3 DEF Paged
  <2>2. CASE k = Len(pages) + 1
    BY <1>2, <2>1, <2>2
  <2>3. CASE k # Len(pages) + 1
    <3>1. k \in 1 .. Len(pages)
      BY <1>2, <2>3
    <3> QED
      BY <1>2, <2>1, <3>1 DEF Paged
  <2> QED
    BY <2>2, <2>3
<1>4. ASSUME Paged(pages, i) PROVE Paged(more, i)
  <2>1. PICK k \in 1 .. Len(pages) : \E n \in 1 .. Len(pages[k].rows) : pages[k].rows[n] = i
    BY <1>4 DEF Paged
  <2>2. k \in 1 .. Len(more)
    BY <1>2
  <2> QED
    BY <1>2, <2>1, <2>2 DEF Paged
<1>5. ASSUME NEW n \in 1 .. Len(p.rows), p.rows[n] = i PROVE Paged(more, i)
  <2>1. Len(pages) + 1 \in 1 .. Len(more)
    BY <1>2
  <2> QED
    BY <1>2, <1>5, <2>1 DEF Paged
<1> QED
  BY <1>1, <1>3, <1>4, <1>5

\* What is one page of a filter: the rows that have so many before them.
IsPage(p, c, k) ==
  /\ p \in BoardPage /\ Len(p.rows) <= PageSize
  /\ \A n \in 1 .. Len(p.rows) : p.rows[n] \in 1 .. Len(items) /\ Has(items, c, p.rows[n])
  /\ \A i \in 1 .. Len(items) : Has(items, c, i) =>
       /\ Ahead(newest, items, c, i) \in 1 .. p.total
       /\ (k - 1) * PageSize < Ahead(newest, items, c, i) /\ Ahead(newest, items, c, i) <= k * PageSize
            => \E n \in 1 .. Len(p.rows) : p.rows[n] = i

LEMMA PageIs ==
  ASSUME BoardTyped, NEW c \in List!Chip, NEW k \in Nat \ {0}
  PROVE  IsPage(List!PageOf(c, k), c, k)
<1>1. PICK s : s = List!Listed(c) /\ IsListed(s, c)
  BY ListedIs
<1>2. s \in Seq(1 .. Len(items)) /\ Len(s) \in Nat /\ \A m \in 1 .. Len(s) : s[m] \in 1 .. Len(items)
  BY <1>1 DEF IsListed
<1>3. PICK from \in Nat : from = (k - 1) * PageSize
  <2>1. k - 1 \in Nat
    OBVIOUS
  <2> QED
    BY <2>1, BoardAssumption
<1>4. k * PageSize = from + PageSize
  BY <1>3, BoardAssumption
<1>5. PICK last \in Nat : last = IF k * PageSize < Len(s) THEN k * PageSize ELSE Len(s)
  BY <1>2, <1>3, <1>4, BoardAssumption
<1>6. last <= Len(s) /\ last <= from + PageSize
  BY <1>2, <1>4, <1>5, BoardAssumption
<1>7. List!PageOf(c, k) = [rows |-> SubSeq(s, from + 1, last), total |-> Len(s)]
  BY <1>1, <1>3, <1>5 DEF List!PageOf
<1>8. PICK shown : shown = SubSeq(s, from + 1, last)
  OBVIOUS
<1>9. /\ shown \in Seq(1 .. Len(items))
      /\ Len(shown) = IF from + 1 <= last THEN last - from ELSE 0
      /\ \A m \in 1 .. last - from : shown[m] = s[from + m]
  <2>1. PICK a \in Int : a = from + 1
    OBVIOUS
  <2>2. \A m \in a .. last : s[m] \in 1 .. Len(items)
    BY <1>2, <1>6, <2>1
  <2>3. /\ shown \in Seq(1 .. Len(items))
        /\ Len(shown) = IF a <= last THEN last - a + 1 ELSE 0
        /\ \A m \in 1 .. last - a + 1 : shown[m] = s[a + m - 1]
    BY <1>8, <2>1, <2>2, SubSeqProperties
  <2>4. last - a + 1 = last - from /\ \A m \in 1 .. last - from : a + m - 1 = from + m
    BY <2>1
  <2> QED
    BY <2>1, <2>3, <2>4
<1>10. shown \in Seq(1 .. MaxRows)
  <2>1. 1 .. Len(items) \subseteq 1 .. MaxRows
    <3>1. Len(items) \in Nat /\ Len(items) <= MaxRows
      BY DEF BoardTyped
    <3> QED
      BY <3>1, BoardAssumption
  <2> QED
    BY <1>9, <2>1, SeqMonotonic
<1>11. PICK p \in BoardPage : p = List!PageOf(c, k) /\ p.rows = shown /\ p.total = Len(s)
  <2>1. [rows |-> shown, total |-> Len(s)] \in BoardPage
    BY <1>2, <1>10 DEF BoardPage
  <2> QED
    BY <1>7, <1>8, <2>1
<1>12. Len(shown) \in Nat /\ Len(shown) <= PageSize
  BY <1>6, <1>9, BoardAssumption
<1>13. ASSUME NEW n \in 1 .. Len(shown) PROVE shown[n] \in 1 .. Len(items) /\ Has(items, c, shown[n])
  <2>1. n \in 1 .. last - from /\ from + n \in 1 .. Len(s)
    <3>1. PICK len \in Nat : len = Len(shown) /\ len = IF from + 1 <= last THEN last - from ELSE 0
      BY <1>9, <1>12
    <3>2. n \in Int /\ 1 <= n /\ n <= len
      BY <3>1
    <3>3. PICK many \in Nat : many = Len(s)
      BY <1>2
    <3>4. last <= many
      BY <1>6, <3>3
    <3>5. n <= last - from
      BY <3>1, <3>2
    <3> QED
      BY <3>2, <3>3, <3>4, <3>5
  <2>2. shown[n] = s[from + n]
    BY <1>9, <2>1
  <2> QED
    BY <1>1, <1>2, <2>1, <2>2 DEF IsListed
<1>14. ASSUME NEW i \in 1 .. Len(items), Has(items, c, i)
       PROVE  /\ Ahead(newest, items, c, i) \in 1 .. Len(s)
              /\ (k - 1) * PageSize < Ahead(newest, items, c, i)
                   /\ Ahead(newest, items, c, i) <= k * PageSize
                   => \E n \in 1 .. Len(shown) : shown[n] = i
  <2>1. PICK m \in 1 .. Len(s) : m = Ahead(newest, items, c, i) /\ s[m] = i
    BY <1>1, <1>14 DEF IsListed
  <2>2. ASSUME from < m, m <= from + PageSize PROVE \E n \in 1 .. Len(shown) : shown[n] = i
    <3>1. m <= last
      BY <1>2, <1>4, <1>5, <2>2
    <3>2. PICK n \in 1 .. last - from : n = m - from
      BY <2>2, <3>1
    <3>3. n \in 1 .. Len(shown) /\ from + n = m
      BY <1>9, <2>2, <3>1, <3>2
    <3> QED
      BY <1>9, <2>1, <3>2, <3>3
  <2> QED
    BY <1>3, <1>4, <2>1, <2>2
<1> QED
  BY <1>11, <1>12, <1>13, <1>14 DEF IsPage

\* One more page is read after the others: the rows that were there are on them or further on.
LEMMA ListReads ==
  ASSUME BoardTyped, ItemsFit, NEW c \in List!Chip, NEW pages \in Seq(BoardPage),
         NEW there \in SUBSET (1 .. MaxRows), NEW left \in BOOLEAN, PagesFit(items, c, pages),
         ~left => RowsReached(newest, items, c, pages, there)
  PROVE  /\ List!PageOf(c, Len(pages) + 1) \in BoardPage
         /\ ListFits(newest, items, c, Append(pages, List!PageOf(c, Len(pages) + 1)), there, left)
<1>1. PICK k \in Nat \ {0} : k = Len(pages) + 1 /\ k - 1 = Len(pages)
  OBVIOUS
<1>2. PICK p \in BoardPage : p = List!PageOf(c, Len(pages) + 1) /\ IsPage(p, c, k)
  <2>1. IsPage(List!PageOf(c, k), c, k)
    BY PageIs
  <2>2. List!PageOf(c, k) \in BoardPage
    BY <2>1 DEF IsPage
  <2> QED
    BY <1>1, <2>1, <2>2
<1>3. PICK more \in Seq(BoardPage) :
        /\ more = Append(pages, p) /\ more # <<>> /\ Len(more) = k /\ more[k] = p
        /\ \A m \in 1 .. k - 1 : more[m] = pages[m]
  <2>1. Append(pages, p) \in Seq(BoardPage)
    OBVIOUS
  <2>2. Len(Append(pages, p)) = k /\ Append(pages, p)[k] = p
    BY <1>1
  <2>3. \A m \in 1 .. k - 1 : Append(pages, p)[m] = pages[m]
    BY <1>1
  <2>4. Append(pages, p) # <<>>
    BY <2>2
  <2> QED
    BY <2>1, <2>2, <2>3, <2>4
<1>4. \A i : Paged(more, i) <=> Paged(pages, i) \/ \E n \in 1 .. Len(p.rows) : p.rows[n] = i
  BY <1>3, PagedOneMore
<1>5. PagesFit(items, c, more)
  <2>1. ASSUME NEW m \in 1 .. Len(more) PROVE Len(more[m].rows) <= PageSize
    <3>1. CASE m = k
      BY <1>2, <1>3, <3>1 DEF IsPage
    <3>2. CASE m # k
      <4>1. m \in 1 .. k - 1 /\ m \in 1 .. Len(pages)
        BY <1>1, <1>3, <3>2
      <4> QED
        BY <1>3, <4>1 DEF PagesFit
    <3> QED
      BY <3>1, <3>2
  <2>2. ASSUME NEW i \in 1 .. MaxRows, Paged(more, i)
        PROVE  i \in 1 .. Len(items) /\ (c # List!All => items[i].came <= c /\ c <= items[i].now)
    <3>1. CASE Paged(pages, i)
      BY <3>1 DEF PagesFit
    <3>2. ASSUME NEW n \in 1 .. Len(p.rows), p.rows[n] = i
          PROVE  i \in 1 .. Len(items) /\ (c # List!All => items[i].came <= c /\ c <= items[i].now)
      <4>1. i \in 1 .. Len(items) /\ Has(items, c, i)
        BY <1>2, <3>2 DEF IsPage
      <4>2. items[i].came <= items[i].now /\ items[i].now \in 0 .. 2
        <5>1. items[i] \in BoardRow
          BY <4>1 DEF BoardTyped
        <5> QED
          BY <4>1, <5>1 DEF ItemsFit, BoardRow
      <4> QED
        BY <4>1, <4>2 DEF Has
    <3> QED
      BY <1>4, <2>2, <3>1, <3>2
  <2> QED
    BY <2>1, <2>2 DEF PagesFit
<1>6. ASSUME ~left
      PROVE  RowsReached(newest, items, c, more, there) /\ EndsRight(newest, items, c, more, there)
  <2>1. PICK reach \in Nat : reach = (k - 1) * PageSize /\ reach = Len(pages) * PageSize
    <3>1. k - 1 \in Nat
      OBVIOUS
    <3> QED
      BY <1>1, <3>1, BoardAssumption
  <2>2. PICK far \in Nat : far = k * PageSize /\ far = Len(more) * PageSize
    BY <1>3, BoardAssumption
  <2>3. ASSUME NEW i \in there
        PROVE  /\ i \in 1 .. Len(items) /\ Has(items, c, i)
               /\ Paged(more, i) \/ (far < Ahead(newest, items, c, i) /\ far < p.total)
    <3>1. /\ i \in 1 .. Len(items) /\ Has(items, c, i)
          /\ Paged(pages, i) \/ reach < Ahead(newest, items, c, i)
      BY <1>6, <2>1 DEF RowsReached
    <3>2. /\ Ahead(newest, items, c, i) \in 1 .. p.total
          /\ reach < Ahead(newest, items, c, i) /\ Ahead(newest, items, c, i) <= far
               => \E n \in 1 .. Len(p.rows) : p.rows[n] = i
      BY <1>2, <2>1, <2>2, <3>1 DEF IsPage
    <3>3. p.total \in Nat
      BY DEF BoardPage
    <3>4. CASE Paged(more, i)
      BY <3>1, <3>4
    <3>5. CASE ~Paged(more, i)
      <4>1. ~Paged(pages, i) /\ ~ \E n \in 1 .. Len(p.rows) : p.rows[n] = i
        BY <1>4, <3>5
      <4> QED
        BY <3>1, <3>2, <3>3, <4>1
    <3> QED
      BY <3>4, <3>5
  <2>4. RowsReached(newest, items, c, more, there)
    BY <2>2, <2>3 DEF RowsReached
  <2>5. EndsRight(newest, items, c, more, there)
    BY <1>3, <2>2, <2>3 DEF EndsRight
  <2> QED
    BY <2>4, <2>5
<1>7. ListFits(newest, items, c, more, there, left)
  BY <1>5, <1>6 DEF ListFits
<1> QED
  BY <1>2, <1>3, <1>7

\* Nothing read yet fits, whatever is kept.
LEMMA NothingRead ==
  ASSUME NEW new, NEW its, NEW c, NEW d \in BoardData, NEW f \in BoardFetch,
         DataFits(new, its, c, d), f.list.pages = <<>>,
         f.task = "next" => d.list.pages # <<>> /\ f.upTo = 1
  PROVE  ChipFits(new, its, c, d, f)
<1>1. ListFits(new, its, c, <<>>, f.list.there, f.list.left)
  BY DEF ListFits, PagesFit, Paged
<1>2. PICK pages \in Seq(BoardPage) : pages = d.list.pages
  BY DEF BoardData, BoardList
<1>3. pages \o <<>> = pages
  OBVIOUS
<1>4. f.task = "next" => d.list.pages \o f.list.pages = d.list.pages /\ Len(f.list.pages) <= 1
  BY <1>2, <1>3
<1>5. f.task = "whole" => ListFits(new, its, c, f.list.pages, f.list.there, f.list.left)
  BY <1>1
<1> QED
  BY <1>4, <1>5 DEF ChipFits, FetchFits, DataFits

\* The step of one filter.
LEMMA ChipSteps ==
  ASSUME BoardInv, NEW c \in List!Chip, NEW d \in BoardData, NEW f \in BoardFetch,
         cached' = [cached EXCEPT ![c] = d], fetch' = [fetch EXCEPT ![c] = f],
         UNCHANGED <<newest, items, decision, known>>, chip' \in List!Chips,
         ChipFits(newest, items, c, d, f),
         IF c = List!Waiting THEN Owes(chip', known, d, f)
                             ELSE Owes(chip', known, cached[List!Waiting], fetch[List!Waiting])
  PROVE  BoardInv'
<1>1. cached \in [List!Chip -> BoardData] /\ fetch \in [List!Chip -> BoardFetch]
  BY DEF BoardInv, BoardTyped
<1>2. /\ cached' \in [List!Chip -> BoardData] /\ fetch' \in [List!Chip -> BoardFetch]
      /\ cached'[c] = d /\ fetch'[c] = f
      /\ \A b \in List!Chip \ {c} : cached'[b] = cached[b] /\ fetch'[b] = fetch[b]
  BY <1>1
<1>3. BoardTyped'
  BY <1>2 DEF BoardInv, BoardTyped, List!Chips
<1>4. ItemsFit' /\ DecidedFits'
  BY DEF BoardInv, ItemsFit, DecidedFits
<1>5. \A b \in List!Chip : ChipFits(newest', items', b, cached'[b], fetch'[b])
  BY <1>2 DEF BoardInv
<1>6. Owes(chip', known', cached'[List!Waiting], fetch'[List!Waiting])
  <2>1. List!Waiting \in List!Chip
    BY DEF List!Chip
  <2>2. CASE c = List!Waiting
    BY <1>2, <2>2
  <2>3. CASE c # List!Waiting
    BY <1>2, <2>1, <2>3
  <2> QED
    BY <2>2, <2>3
<1> QED
  BY <1>3, <1>4, <1>5, <1>6 DEF BoardInv

LEMMA NoFetchIs ==
  \E f \in BoardFetch : /\ f = List!NoFetch /\ f.task = "none" /\ f.upTo = 0
                        /\ f.list.pages = <<>> /\ ~f.late
<1>1. PICK s \in Seq(BoardPage) : s = <<>>
  <2>1. <<>> \in Seq(BoardPage)
    OBVIOUS
  <2> QED
    BY <2>1
<1>2. PICK l \in BoardList : l = [pages |-> s, there |-> {}, left |-> FALSE]
  BY DEF BoardList
<1>3. PICK f \in BoardFetch : f = [task |-> "none", upTo |-> 0, list |-> l, late |-> FALSE]
  BY DEF BoardFetch
<1>4. List!NoPages = l
  BY <1>1, <1>2 DEF List!NoPages
<1>5. List!NoFetch = f
  BY <1>3, <1>4 DEF List!NoFetch
<1>6. f.task = "none" /\ f.upTo = 0 /\ f.list.pages = s /\ f.late = FALSE
  BY <1>2, <1>3
<1> QED
  BY <1>1, <1>5, <1>6

\* The fetch that begins anew.
LEMMA WholeIs ==
  ASSUME BoardInv, NEW c \in List!Chip
  PROVE  \E f \in BoardFetch : /\ f = List!Whole(c) /\ f.task = "whole" /\ f.list.pages = <<>>
                               /\ ~f.late
<1>1. PICK f \in BoardFetch : /\ f = List!NoFetch /\ f.list.pages = <<>> /\ ~f.late
  BY NoFetchIs
<1>2. PICK n \in Nat :
        n = IF cached[c].list.pages = <<>> THEN 1 ELSE Len(cached[c].list.pages)
  <2>1. PICK p \in Seq(BoardPage) : p = cached[c].list.pages
    BY DEF BoardInv, BoardTyped, BoardData, BoardList
  <2> QED
    BY <2>1
<1>3. PICK g \in BoardFetch : g = [f EXCEPT !.task = "whole", !.upTo = n]
  BY DEF BoardFetch
<1>4. List!Whole(c) = g
  BY <1>1, <1>2, <1>3 DEF List!Whole
<1>5. g.task = "whole" /\ g.list = f.list /\ g.late = f.late
  BY <1>3 DEF BoardFetch
<1> QED
  BY <1>1, <1>4, <1>5

\* What is kept of a filter stays, and its fetch begins anew.
LEMMA FetchedAnew ==
  ASSUME BoardInv, NEW c \in List!Chip, fetch' = [fetch EXCEPT ![c] = List!Whole(c)],
         UNCHANGED <<newest, items, decision, known, cached>>, chip' \in {chip, c} \cap List!Chips
  PROVE  BoardInv'
<1>1. PICK f \in BoardFetch : /\ f = List!Whole(c) /\ f.task = "whole" /\ f.list.pages = <<>>
                              /\ ~f.late
  BY WholeIs
<1>2. PICK d \in BoardData : d = cached[c]
  BY DEF BoardInv, BoardTyped
<1>3. cached' = [cached EXCEPT ![c] = d] /\ fetch' = [fetch EXCEPT ![c] = f]
  BY <1>1, <1>2 DEF BoardInv, BoardTyped
<1>4. ChipFits(newest, items, c, d, f)
  <2>1. DataFits(newest, items, c, d)
    BY <1>2 DEF BoardInv, ChipFits
  <2> QED
    BY <1>1, <2>1, NothingRead
<1>5. ~ShowsAny(known, f.list.pages)
  BY <1>1 DEF ShowsAny, Paged
<1>6. IF c = List!Waiting THEN Owes(chip', known, d, f)
                          ELSE Owes(chip', known, cached[List!Waiting], fetch[List!Waiting])
  <2>1. Owes(chip, known, cached[List!Waiting], fetch[List!Waiting])
    BY DEF BoardInv
  <2>2. CASE c = List!Waiting
    <3>1. ShowsAny(known, d.list.pages) => d.stale \/ d.passed
      BY <1>2, <2>1, <2>2 DEF Owes
    <3> QED
      BY <1>1, <1>5, <2>2, <3>1 DEF Owes
  <2>3. CASE c # List!Waiting
    <3>1. chip' = List!Waiting => chip = List!Waiting
      BY <2>3
    <3> QED
      BY <2>1, <2>3, <3>1 DEF Owes
  <2> QED
    BY <2>2, <2>3
<1> QED
  BY <1>3, <1>4, <1>6, ChipSteps

LEMMA ChipIsPressed ==
  ASSUME BoardInv, NEW c \in List!Chip, List!Choose(c) PROVE BoardInv'
<1>1. /\ c \in List!Chips /\ chip' = c
      /\ UNCHANGED <<newest, items, cached, decision, known>>
  BY DEF List!Choose
<1>2. \/ fetch' = [fetch EXCEPT ![c] = List!Whole(c)]
      \/ /\ fetch' = fetch
         /\ fetch[c].task # "none" \/ (~cached[c].stale /\ cached[c].list.pages # <<>>)
  <2>1. PICK old \in BOOLEAN :
          fetch' = IF fetch[c].task = "none" /\ (old \/ cached[c].stale \/ cached[c].list.pages = <<>>)
                   THEN [fetch EXCEPT ![c] = List!Whole(c)] ELSE fetch
    BY DEF List!Choose, List!KeyOf
  <2> QED
    BY <2>1
<1>3. CASE fetch' = [fetch EXCEPT ![c] = List!Whole(c)]
  BY <1>1, <1>3, FetchedAnew
<1>4. CASE /\ fetch' = fetch
           /\ fetch[c].task # "none" \/ (~cached[c].stale /\ cached[c].list.pages # <<>>)
  <2>1. PICK d \in BoardData : d = cached[c]
    BY DEF BoardInv, BoardTyped
  <2>2. PICK f \in BoardFetch : f = fetch[c]
    BY DEF BoardInv, BoardTyped
  <2>3. cached' = [cached EXCEPT ![c] = d] /\ fetch' = [fetch EXCEPT ![c] = f]
    BY <1>1, <1>4, <2>1, <2>2 DEF BoardInv, BoardTyped
  <2>4. ChipFits(newest, items, c, d, f)
    BY <2>1, <2>2 DEF BoardInv
  <2>5. IF c = List!Waiting THEN Owes(chip', known, d, f)
                            ELSE Owes(chip', known, cached[List!Waiting], fetch[List!Waiting])
    <3>1. Owes(chip, known, cached[List!Waiting], fetch[List!Waiting])
      BY DEF BoardInv
    <3> QED
      BY <1>1, <1>4, <2>1, <2>2, <3>1 DEF Owes
  <2> QED
    BY <1>1, <2>3, <2>4, <2>5, ChipSteps
<1> QED
  BY <1>2, <1>3, <1>4

LEMMA ListIsPulled == ASSUME BoardInv, List!Refresh PROVE BoardInv'
<1>1. fetch' = [fetch EXCEPT ![chip] = List!Whole(chip)]
  BY DEF List!Refresh, List!KeyOf
<1>2. UNCHANGED <<newest, items, decision, known, cached, chip>>
  BY DEF List!Refresh
<1>3. chip \in List!Chip /\ chip' \in {chip} \cap List!Chips
  BY <1>2 DEF BoardInv, BoardTyped, List!Chips, List!Chip
<1> QED
  BY <1>1, <1>2, <1>3, FetchedAnew

LEMMA NextIsAsked == ASSUME BoardInv, List!Scroll PROVE BoardInv'
<1>1. chip \in List!Chip /\ chip \in List!Chips
  BY DEF BoardInv, BoardTyped, List!Chips, List!Chip
<1>2. /\ fetch' = [fetch EXCEPT ![chip] = [List!NoFetch EXCEPT !.task = "next", !.upTo = 1]]
      /\ cached' = [cached EXCEPT ![chip].passed = @ \/ cached[chip].stale]
      /\ cached[chip].list.pages # <<>>
      /\ UNCHANGED <<newest, items, chip, decision, known>>
  BY DEF List!Scroll, List!KeyOf, List!Kept, List!Pages, List!OnScreen
<1>3. PICK d \in BoardData : d = cached[chip]
  BY <1>1 DEF BoardInv, BoardTyped
<1>4. PICK b \in BOOLEAN : b <=> d.passed \/ d.stale
  OBVIOUS
<1>5. PICK e \in BoardData : e = [d EXCEPT !.passed = b]
  BY DEF BoardData
<1>6. e.list = d.list /\ e.stale = d.stale /\ e.failed = d.failed /\ e.passed = b
  BY <1>5 DEF BoardData
<1>7. PICK g \in BoardFetch : g = List!NoFetch /\ g.list.pages = <<>> /\ ~g.late
  BY NoFetchIs
<1>8. PICK f \in BoardFetch : f = [g EXCEPT !.task = "next", !.upTo = 1]
  BY DEF BoardFetch
<1>9. f.task = "next" /\ f.upTo = 1 /\ f.list = g.list /\ f.late = g.late
  BY <1>8 DEF BoardFetch
<1>10. f.list.pages = <<>> /\ ~f.late
  BY <1>7, <1>9
<1>11. fetch' = [fetch EXCEPT ![chip] = f]
  BY <1>2, <1>7, <1>8
<1>12. cached' = [cached EXCEPT ![chip] = e]
  <2>1. (d.passed \/ d.stale) = b
    BY <1>4 DEF BoardData
  <2>2. cached' = [cached EXCEPT ![chip] = [d EXCEPT !.passed = (d.passed \/ d.stale)]]
    BY <1>2, <1>3
  <2> QED
    BY <1>5, <2>1, <2>2
<1>13. ChipFits(newest, items, chip, e, f)
  <2>1. DataFits(newest, items, chip, e)
    BY <1>1, <1>3, <1>6 DEF BoardInv, ChipFits, DataFits
  <2> QED
    BY <1>2, <1>3, <1>6, <1>9, <1>10, <2>1, NothingRead
<1>14. IF chip = List!Waiting THEN Owes(chip', known, e, f)
                              ELSE Owes(chip', known, cached[List!Waiting], fetch[List!Waiting])
  <2>1. Owes(chip, known, cached[List!Waiting], fetch[List!Waiting])
    BY DEF BoardInv
  <2>2. CASE chip = List!Waiting
    <3>1. ShowsAny(known, e.list.pages) => e.stale \/ e.passed
      BY <1>3, <1>4, <1>6, <2>1, <2>2 DEF Owes
    <3>2. ~ShowsAny(known, f.list.pages)
      BY <1>10 DEF ShowsAny, Paged
    <3>3. e.stale => e.passed
      BY <1>4, <1>6
    <3> QED
      BY <1>9, <1>10, <2>2, <3>1, <3>2, <3>3 DEF Owes
  <2>3. CASE chip # List!Waiting
    BY <1>2, <2>1, <2>3
  <2> QED
    BY <2>2, <2>3
<1> QED
  BY <1>1, <1>2, <1>11, <1>12, <1>13, <1>14, ChipSteps

\* What a page of the filter of what waits shows is not known to be decided.
LEMMA PageIsUnknown ==
  ASSUME BoardInv, NEW k \in Nat \ {0}, NEW p, p = List!PageOf(List!Waiting, k), NEW i \in known,
         NEW n \in 1 .. Len(p.rows), p.rows[n] = i
  PROVE  FALSE
<1>1. List!Waiting \in List!Chip /\ BoardTyped
  BY DEF List!Chip, BoardInv
<1>2. IsPage(p, List!Waiting, k)
  BY <1>1, PageIs
<1>3. Has(items, List!Waiting, i)
  BY <1>2 DEF IsPage
<1>4. items[i].now = List!Decided
  BY DEF BoardInv, DecidedFits
<1> QED
  BY <1>3, <1>4 DEF Has, List!Waiting, List!Decided, List!All

\* A first page finds every row of its filter further on.
LEMMA FirstIsRead ==
  ASSUME BoardInv, NEW c \in List!Chip
  PROVE  /\ PagesFit(items, c, <<>>)
         /\ RowsReached(newest, items, c, <<>>, {i \in 1 .. Len(items) : List!In(c, i)})
<1>1. PagesFit(items, c, <<>>)
  BY DEF PagesFit, Paged
<1>2. ASSUME NEW i \in 1 .. Len(items), List!In(c, i)
      PROVE  Has(items, c, i) /\ 0 < Ahead(newest, items, c, i)
  <2>1. Has(items, c, i)
    BY <1>2 DEF Has, List!In
  <2>2. PICK s : IsListed(s, c)
    BY ListedIs DEF BoardInv
  <2>3. PICK n \in Nat : n = Len(s)
    BY <2>2 DEF IsListed
  <2>4. Ahead(newest, items, c, i) \in 1 .. n
    BY <2>1, <2>2, <2>3 DEF IsListed
  <2> QED
    BY <2>1, <2>4
<1>3. Len(<<>>) * PageSize = 0
  BY BoardAssumption
<1> QED
  BY <1>1, <1>2, <1>3 DEF RowsReached

LEMMA PageIsRead == ASSUME BoardInv, NEW c \in List!Chip, List!Read(c) PROVE BoardInv'
<1>1. PICK d \in BoardData : d = cached[c]
  BY DEF BoardInv, BoardTyped
<1>2. PICK f \in BoardFetch : f = fetch[c]
  BY DEF BoardInv, BoardTyped
<1>3. PICK kept \in Seq(BoardPage) : kept = d.list.pages
  BY DEF BoardData, BoardList
<1>4. PICK got \in Seq(BoardPage) : got = f.list.pages
  BY DEF BoardFetch, BoardList
<1>5. /\ d.list.there \in SUBSET (1 .. MaxRows) /\ d.list.left \in BOOLEAN
      /\ f.list.there \in SUBSET (1 .. MaxRows) /\ f.list.left \in BOOLEAN
      /\ f.task \in {"none", "whole", "next"} /\ f.list \in BoardList
  BY DEF BoardData, BoardFetch, BoardList
<1>6. ChipFits(newest, items, c, d, f)
  BY <1>1, <1>2 DEF BoardInv
<1>7. f.task # "none" /\ ~List!ReadAll(f)
  BY <1>2 DEF List!Read
<1>8. UNCHANGED <<newest, items, chip, cached, decision, known>>
  BY DEF List!Read
<1>9. CASE f.task = "whole"
  <2>1. PICK there \in SUBSET (1 .. MaxRows) :
          there = IF got = <<>> THEN {i \in 1 .. Len(items) : List!In(c, i)} ELSE f.list.there
    <3>1. {i \in 1 .. Len(items) : List!In(c, i)} \in SUBSET (1 .. MaxRows)
      <4>1. Len(items) \in Nat /\ Len(items) <= MaxRows
        BY DEF BoardInv, BoardTyped
      <4>2. 1 .. Len(items) \subseteq 1 .. MaxRows
        BY <4>1, BoardAssumption
      <4> QED
        BY <4>2
    <3> QED
      BY <1>5, <3>1
  <2>2. PICK left \in BOOLEAN : left = IF got = <<>> THEN FALSE ELSE f.list.left
    BY <1>5
  <2>3. PagesFit(items, c, got) /\ (~left => RowsReached(newest, items, c, got, there))
    <3>1. CASE got = <<>>
      BY <2>1, <3>1, FirstIsRead
    <3>2. CASE got # <<>>
      BY <1>4, <1>6, <1>9, <2>1, <2>2, <3>2 DEF ChipFits, FetchFits, ListFits
    <3> QED
      BY <3>1, <3>2
  <2>4. PICK p \in BoardPage :
          /\ p = List!PageOf(c, Len(got) + 1)
          /\ ListFits(newest, items, c, Append(got, p), there, left)
    BY <2>3, ListReads DEF BoardInv
  <2>5. PICK more \in Seq(BoardPage) : more = Append(got, p)
    <3>1. Append(got, p) \in Seq(BoardPage)
      OBVIOUS
    <3> QED
      BY <3>1
  <2>6. PICK l \in BoardList : l = [pages |-> more, there |-> there, left |-> left]
    BY DEF BoardList
  <2>7. PICK g \in BoardFetch : g = [f EXCEPT !.list = l]
    BY DEF BoardFetch
  <2>8. g.task = f.task /\ g.list = l /\ g.late = f.late
    BY <2>7 DEF BoardFetch
  <2>9. l.pages = more /\ l.there = there /\ l.left = left
    BY <2>6
  <2>10. fetch' = [fetch EXCEPT ![c] = g]
    <3>1. Len(got) + (IF f.task = "next" THEN Len(cached[c].list.pages) ELSE 0) + 1 = Len(got) + 1
      BY <1>9
    <3>2. l = [pages |-> Append(f.list.pages, List!PageOf(c, Len(got) + 1)),
               there |-> IF f.list.pages = <<>> THEN {i \in 1 .. Len(items) : List!In(c, i)}
                         ELSE f.list.there,
               left |-> IF f.list.pages = <<>> THEN FALSE ELSE f.list.left]
      BY <1>4, <2>1, <2>2, <2>4, <2>5, <2>6
    <3>3. fetch' = [fetch EXCEPT ![c].list =
                      [pages |-> Append(f.list.pages, List!PageOf(c, Len(got) + 1)),
                       there |-> IF f.list.pages = <<>> THEN {i \in 1 .. Len(items) : List!In(c, i)}
                                 ELSE f.list.there,
                       left |-> IF f.list.pages = <<>> THEN FALSE ELSE f.list.left]]
      BY <1>2, <1>4, <3>1 DEF List!Read
    <3>4. fetch' = [fetch EXCEPT ![c].list = l]
      BY <3>2, <3>3
    <3> QED
      BY <1>2, <2>7, <3>4
  <2>11. ChipFits(newest, items, c, d, g)
    BY <1>6, <1>9, <2>4, <2>5, <2>8, <2>9 DEF ChipFits, FetchFits
  <2>12. IF c = List!Waiting THEN Owes(chip', known, d, g)
                             ELSE Owes(chip', known, cached[List!Waiting], fetch[List!Waiting])
    <3>1. Owes(chip, known, cached[List!Waiting], fetch[List!Waiting])
      BY DEF BoardInv
    <3>2. CASE c = List!Waiting
      <4>1. Owes(chip, known, d, f)
        BY <1>1, <1>2, <3>1, <3>2
      <4>2. ASSUME NEW i \in known, Paged(more, i) PROVE Paged(got, i)
        <5>1. Paged(got, i) \/ \E n \in 1 .. Len(p.rows) : p.rows[n] = i
          BY <2>5, <4>2, PagedOneMore
        <5>2. Len(got) + 1 \in Nat \ {0}
          OBVIOUS
        <5> QED
          BY <2>4, <3>2, <5>1, <5>2, PageIsUnknown
      <4>3. ShowsAny(known, g.list.pages) => g.late
        BY <1>4, <2>8, <2>9, <4>1, <4>2 DEF ShowsAny, Owes
      <4> QED
        BY <1>8, <2>8, <3>2, <4>1, <4>3 DEF Owes
    <3> QED
      BY <1>8, <3>1, <3>2
  <2>13. cached' = [cached EXCEPT ![c] = d] /\ chip' \in List!Chips
    BY <1>1, <1>8 DEF BoardInv, BoardTyped
  <2> QED
    BY <1>8, <2>10, <2>11, <2>12, <2>13, ChipSteps
<1>10. CASE f.task = "next"
  <2>1. kept # <<>> /\ Len(got) <= 1 /\ f.upTo = 1 /\ Len(got) # 1
    BY <1>3, <1>4, <1>6, <1>7, <1>10 DEF ChipFits, FetchFits, List!ReadAll
  <2>2. got = <<>>
    <3>1. Len(got) \in Nat
      OBVIOUS
    <3>2. Len(got) <= 1 /\ Len(got) # 1
      BY <2>1
    <3>3. \A n \in Nat : n <= 1 /\ n # 1 => n = 0
      OBVIOUS
    <3> QED
      BY <3>1, <3>2, <3>3, EmptySeq
  <2>3. PagesFit(items, c, kept)
        /\ (~d.list.left => RowsReached(newest, items, c, kept, d.list.there))
    BY <1>3, <1>6, <2>1 DEF ChipFits, DataFits, ListFits
  <2>4. PICK p \in BoardPage :
          /\ p = List!PageOf(c, Len(kept) + 1)
          /\ ListFits(newest, items, c, Append(kept, p), d.list.there, d.list.left)
    BY <1>5, <2>3, ListReads DEF BoardInv
  <2>5. PICK more \in Seq(BoardPage) : more = Append(got, p) /\ Len(more) = 1
    <3>1. Append(got, p) \in Seq(BoardPage) /\ Len(Append(got, p)) = Len(got) + 1
      OBVIOUS
    <3>2. Len(got) = 0
      BY <2>2
    <3>3. Len(Append(got, p)) = 1
      BY <3>1, <3>2
    <3> QED
      BY <3>1, <3>3
  <2>6. kept \o more = Append(kept, p)
    BY <2>2, <2>5
  <2>7. \E there \in SUBSET (1 .. MaxRows) : \E left \in BOOLEAN :
          fetch' = [fetch EXCEPT ![c].list = [pages |-> more, there |-> there, left |-> left]]
    <3>1. Len(got) + (IF f.task = "next" THEN Len(cached[c].list.pages) ELSE 0) + 1 = Len(kept) + 1
      BY <1>1, <1>3, <1>10, <2>2
    <3>2. fetch' = [fetch EXCEPT ![c].list =
                      [pages |-> Append(f.list.pages, List!PageOf(c, Len(kept) + 1)),
                       there |-> IF f.list.pages = <<>> THEN {i \in 1 .. Len(items) : List!In(c, i)}
                                 ELSE f.list.there,
                       left |-> IF f.list.pages = <<>> THEN FALSE ELSE f.list.left]]
      BY <1>2, <1>4, <3>1 DEF List!Read
    <3>3. PICK there : there = {i \in 1 .. Len(items) : List!In(c, i)}
      OBVIOUS
    <3>4. there \in SUBSET (1 .. MaxRows)
      <4>1. Len(items) \in Nat /\ Len(items) <= MaxRows
        BY DEF BoardInv, BoardTyped
      <4>2. 1 .. Len(items) \subseteq 1 .. MaxRows
        BY <4>1, BoardAssumption
      <4> QED
        BY <3>3, <4>2
    <3>5. fetch' = [fetch EXCEPT ![c].list = [pages |-> more, there |-> there, left |-> FALSE]]
      BY <1>4, <2>2, <2>4, <2>5, <3>2, <3>3
    <3> QED
      BY <3>4, <3>5
  <2>8. PICK there \in SUBSET (1 .. MaxRows), left \in BOOLEAN :
          fetch' = [fetch EXCEPT ![c].list = [pages |-> more, there |-> there, left |-> left]]
    BY <2>7
  <2>9. PICK l \in BoardList : l = [pages |-> more, there |-> there, left |-> left]
    BY DEF BoardList
  <2>10. PICK g \in BoardFetch : g = [f EXCEPT !.list = l]
    BY DEF BoardFetch
  <2>11. g.task = f.task /\ g.upTo = f.upTo /\ g.list = l /\ g.late = f.late
    BY <2>10 DEF BoardFetch
  <2>12. l.pages = more
    BY <2>9
  <2>13. fetch' = [fetch EXCEPT ![c] = g]
    <3>1. fetch' = [fetch EXCEPT ![c].list = l]
      BY <2>8, <2>9
    <3> QED
      BY <1>2, <2>10, <3>1
  <2>14. ChipFits(newest, items, c, d, g)
    <3>1. ListFits(newest, items, c, kept \o more, d.list.there, d.list.left)
      BY <2>4, <2>6
    <3>2. FetchFits(newest, items, c, d, g)
      BY <1>3, <1>10, <2>1, <2>5, <2>11, <2>12, <3>1 DEF FetchFits
    <3> QED
      BY <1>6, <3>2 DEF ChipFits
  <2>15. IF c = List!Waiting THEN Owes(chip', known, d, g)
                             ELSE Owes(chip', known, cached[List!Waiting], fetch[List!Waiting])
    <3>1. Owes(chip, known, cached[List!Waiting], fetch[List!Waiting])
      BY DEF BoardInv
    <3>2. CASE c = List!Waiting
      <4>1. Owes(chip, known, d, f)
        BY <1>1, <1>2, <3>1, <3>2
      <4>2. ASSUME NEW i \in known, Paged(more, i) PROVE Paged(got, i)
        <5>1. Paged(got, i) \/ \E n \in 1 .. Len(p.rows) : p.rows[n] = i
          BY <2>5, <4>2, PagedOneMore
        <5>2. Len(kept) + 1 \in Nat \ {0}
          OBVIOUS
        <5> QED
          BY <2>4, <3>2, <5>1, <5>2, PageIsUnknown
      <4>3. ShowsAny(known, g.list.pages) => g.late
        BY <1>4, <2>11, <2>12, <4>1, <4>2 DEF ShowsAny, Owes
      <4> QED
        BY <1>8, <2>11, <3>2, <4>1, <4>3 DEF Owes
    <3> QED
      BY <1>8, <3>1, <3>2
  <2>16. cached' = [cached EXCEPT ![c] = d] /\ chip' \in List!Chips
    BY <1>1, <1>8 DEF BoardInv, BoardTyped
  <2> QED
    BY <1>8, <2>13, <2>14, <2>15, <2>16, ChipSteps
<1> QED
  BY <1>5, <1>7, <1>9, <1>10

\* What is on two lists of pages, one after the other, is on one of them.
LEMMA PagedOnBoth ==
  ASSUME NEW a \in Seq(BoardPage), NEW b \in Seq(BoardPage), NEW i, Paged(a \o b, i)
  PROVE  Paged(a, i) \/ Paged(b, i)
<1>1. PICK ab : ab = a \o b
  OBVIOUS
<1>2. /\ Len(ab) = Len(a) + Len(b) /\ Len(a) \in Nat /\ Len(b) \in Nat
      /\ \A k \in 1 .. Len(a) : ab[k] = a[k]
      /\ \A k \in 1 .. Len(b) : ab[Len(a) + k] = b[k]
  BY <1>1
<1>3. PICK k \in 1 .. Len(ab) : \E n \in 1 .. Len(ab[k].rows) : ab[k].rows[n] = i
  BY <1>1 DEF Paged
<1>4. CASE k <= Len(a)
  <2>1. k \in 1 .. Len(a)
    BY <1>2, <1>4
  <2> QED
    BY <1>2, <1>3, <2>1 DEF Paged
<1>5. CASE ~(k <= Len(a))
  <2>1. PICK m \in 1 .. Len(b) : k = Len(a) + m
    <3>1. k - Len(a) \in 1 .. Len(b) /\ k = Len(a) + (k - Len(a))
      BY <1>2, <1>5
    <3> QED
      BY <3>1
  <2> QED
    <3>1. ab[k] = b[m]
      BY <1>2, <2>1
    <3> QED
      BY <1>3, <3>1 DEF Paged
<1> QED
  BY <1>4, <1>5

LEMMA FetchHasLanded == ASSUME BoardInv, NEW c \in List!Chip, List!Land(c) PROVE BoardInv'
<1>1. PICK d \in BoardData : d = cached[c]
  BY DEF BoardInv, BoardTyped
<1>2. PICK f \in BoardFetch : f = fetch[c]
  BY DEF BoardInv, BoardTyped
<1>3. PICK kept \in Seq(BoardPage) : kept = d.list.pages
  BY DEF BoardData, BoardList
<1>4. PICK got \in Seq(BoardPage) : got = f.list.pages
  BY DEF BoardFetch, BoardList
<1>5. f.task \in {"none", "whole", "next"} /\ f.list \in BoardList /\ d.list \in BoardList
  BY DEF BoardFetch, BoardData
<1>6. ChipFits(newest, items, c, d, f)
  BY <1>1, <1>2 DEF BoardInv
<1>7. f.task # "none" /\ UNCHANGED <<newest, items, chip, decision, known>>
  BY <1>2 DEF List!Land
<1>8. PICK l \in BoardList : l = IF f.task = "whole" THEN f.list
                                 ELSE [d.list EXCEPT !.pages = d.list.pages \o f.list.pages]
  <2>1. PICK both \in Seq(BoardPage) : both = kept \o got
    <3>1. kept \o got \in Seq(BoardPage)
      OBVIOUS
    <3> QED
      BY <3>1
  <2>2. [d.list EXCEPT !.pages = both] \in BoardList
    BY <1>5 DEF BoardList
  <2> QED
    BY <1>3, <1>4, <1>5, <2>1, <2>2
<1>9. PICK b \in BOOLEAN : b = (f.late \/ (f.task = "next" /\ d.passed))
  <2>1. (f.late \/ (f.task = "next" /\ d.passed)) \in BOOLEAN
    BY DEF BoardFetch, BoardData
  <2> QED
    BY <2>1
<1>10. PICK e \in BoardData : e = [list |-> l, failed |-> FALSE, stale |-> FALSE, passed |-> b]
  BY DEF BoardData
<1>11. e.list = l /\ ~e.stale /\ e.passed = b
  BY <1>10
<1>12. PICK g \in BoardFetch : /\ g = List!NoFetch /\ g.task = "none" /\ g.list.pages = <<>> /\ ~g.late
  BY NoFetchIs
<1>13. fetch' = [fetch EXCEPT ![c] = g]
  BY <1>12 DEF List!Land
<1>14. cached' = [cached EXCEPT ![c] = e]
  <2>1. cached' = [cached EXCEPT ![c] =
           [list |-> IF f.task = "whole" THEN f.list
                     ELSE [d.list EXCEPT !.pages = d.list.pages \o f.list.pages],
            failed |-> FALSE, stale |-> FALSE,
            passed |-> f.late \/ (f.task = "next" /\ d.passed)]]
    <3>1. cached' = [cached EXCEPT ![c] =
             [list |-> IF fetch[c].task = "whole" THEN fetch[c].list
                       ELSE [cached[c].list EXCEPT !.pages = cached[c].list.pages \o fetch[c].list.pages],
              failed |-> FALSE, stale |-> FALSE,
              passed |-> fetch[c].late \/ (fetch[c].task = "next" /\ cached[c].passed)]]
      BY DEF List!Land
    <3> QED
      BY <1>1, <1>2, <3>1
  <2> QED
    BY <1>8, <1>9, <1>10, <2>1
<1>15. l.pages = IF f.task = "whole" THEN got ELSE kept \o got
  BY <1>3, <1>4, <1>5, <1>8 DEF BoardList
<1>16. ListFits(newest, items, c, l.pages, l.there, l.left)
  <2>1. CASE f.task = "whole"
    BY <1>6, <1>8, <2>1 DEF ChipFits, FetchFits
  <2>2. CASE f.task # "whole"
    <3>1. l.there = d.list.there /\ l.left = d.list.left
      BY <1>5, <1>8, <2>2 DEF BoardList
    <3> QED
      BY <1>3, <1>4, <1>5, <1>6, <1>7, <1>15, <2>2, <3>1 DEF ChipFits, FetchFits
  <2> QED
    BY <2>1, <2>2
<1>17. ChipFits(newest, items, c, e, g)
  BY <1>11, <1>12, <1>16, NothingRead DEF DataFits
<1>18. IF c = List!Waiting THEN Owes(chip', known, e, g)
                           ELSE Owes(chip', known, cached[List!Waiting], fetch[List!Waiting])
  <2>1. Owes(chip, known, cached[List!Waiting], fetch[List!Waiting])
    BY DEF BoardInv
  <2>2. CASE c = List!Waiting
    <3>1. Owes(chip, known, d, f)
      BY <1>1, <1>2, <2>1, <2>2
    <3>2. /\ ShowsAny(known, got) => f.late
          /\ ShowsAny(known, kept) => d.stale \/ d.passed
          /\ f.task = "next" /\ d.stale => d.passed \/ f.late
      BY <1>3, <1>4, <3>1 DEF Owes
    <3>3. b <=> f.late \/ (f.task = "next" /\ d.passed)
      BY <1>9
    <3>4. ASSUME NEW i \in known, Paged(l.pages, i) PROVE e.passed
      <4>1. CASE f.task = "whole"
        <5>1. ShowsAny(known, got)
          BY <1>15, <3>4, <4>1 DEF ShowsAny
        <5> QED
          BY <1>11, <3>2, <3>3, <5>1
      <4>2. CASE f.task = "next"
        <5>1. Paged(kept, i) \/ Paged(got, i)
          <6>1. Paged(kept \o got, i)
            BY <1>15, <3>4, <4>2
          <6> QED
            BY <6>1, PagedOnBoth
        <5>2. ShowsAny(known, kept) \/ ShowsAny(known, got)
          BY <5>1 DEF ShowsAny
        <5> QED
          BY <1>11, <3>2, <3>3, <4>2, <5>2
      <4> QED
        BY <1>5, <1>7, <4>1, <4>2
    <3>5. ~ShowsAny(known, g.list.pages)
      BY <1>12 DEF ShowsAny, Paged
    <3>6. ShowsAny(known, e.list.pages) => e.passed
      BY <1>11, <3>4 DEF ShowsAny
    <3>7. Owes(chip', known, e, g)
      BY <1>11, <1>12, <3>5, <3>6 DEF Owes
    <3> QED
      BY <2>2, <3>7
  <2>3. CASE c # List!Waiting
    BY <1>7, <2>1, <2>3
  <2> QED
    BY <2>2, <2>3
<1>19. chip' \in List!Chips
  BY <1>7 DEF BoardInv, BoardTyped
<1> QED
  BY <1>7, <1>13, <1>14, <1>17, <1>18, <1>19, ChipSteps

LEMMA FetchIsBroken == ASSUME BoardInv, NEW c \in List!Chip, List!Break(c) PROVE BoardInv'
<1>1. PICK d \in BoardData : d = cached[c]
  BY DEF BoardInv, BoardTyped
<1>2. /\ fetch' = [fetch EXCEPT ![c] = List!NoFetch] /\ cached' = [cached EXCEPT ![c].failed = TRUE]
      /\ UNCHANGED <<newest, items, chip, decision, known>>
  BY DEF List!Break
<1>3. PICK e \in BoardData : e = [d EXCEPT !.failed = TRUE]
  BY DEF BoardData
<1>4. e.list = d.list /\ e.failed /\ e.stale = d.stale /\ e.passed = d.passed
  BY <1>3 DEF BoardData
<1>5. PICK g \in BoardFetch : /\ g = List!NoFetch /\ g.task = "none" /\ g.list.pages = <<>> /\ ~g.late
  BY NoFetchIs
<1>6. fetch' = [fetch EXCEPT ![c] = g] /\ cached' = [cached EXCEPT ![c] = e]
  BY <1>1, <1>2, <1>3, <1>5
<1>7. ChipFits(newest, items, c, e, g)
  <2>1. DataFits(newest, items, c, e)
    BY <1>1, <1>4 DEF BoardInv, ChipFits, DataFits
  <2> QED
    BY <1>5, <2>1, NothingRead
<1>8. IF c = List!Waiting THEN Owes(chip', known, e, g)
                          ELSE Owes(chip', known, cached[List!Waiting], fetch[List!Waiting])
  <2>1. Owes(chip, known, cached[List!Waiting], fetch[List!Waiting])
    BY DEF BoardInv
  <2>2. CASE c = List!Waiting
    <3>1. ShowsAny(known, e.list.pages) => e.stale \/ e.passed
      BY <1>1, <1>4, <2>1, <2>2 DEF Owes
    <3>2. ~ShowsAny(known, g.list.pages)
      BY <1>5 DEF ShowsAny, Paged
    <3> QED
      BY <1>4, <1>5, <2>2, <3>1, <3>2 DEF Owes
  <2>3. CASE c # List!Waiting
    BY <1>2, <2>1, <2>3
  <2> QED
    BY <2>2, <2>3
<1>9. chip' \in List!Chips
  BY <1>2 DEF BoardInv, BoardTyped
<1> QED
  BY <1>2, <1>6, <1>7, <1>8, <1>9, ChipSteps

\* What was kept and read still fits when the rows grow, one that leaves being marked.
LEMMA ChipGrows ==
  ASSUME NEW new \in BOOLEAN, NEW its, NEW next, NEW c \in List!Chip,
         NEW d \in BoardData, NEW e \in BoardData, NEW f \in BoardFetch, NEW g \in BoardFetch,
         ItemsGrow(its, next), ChipFits(new, its, c, d, f),
         e.list.pages = d.list.pages, e.list.there = d.list.there,
         g.list.pages = f.list.pages, g.list.there = f.list.there, g.task = f.task, g.upTo = f.upTo,
         \/ e.list.left = d.list.left /\ g.list.left = f.list.left /\ StayIn(its, next, c)
         \/ e.list.left /\ g.list.left
  PROVE  ChipFits(new, next, c, e, g)
<1>1. ASSUME NEW pages \in Seq(BoardPage), NEW there, NEW was \in BOOLEAN, NEW left \in BOOLEAN,
             ListFits(new, its, c, pages, there, was),
             (left = was /\ StayIn(its, next, c)) \/ left
      PROVE  ListFits(new, next, c, pages, there, left)
  <2>1. ListFits(new, its, c, pages, there, left)
    BY <1>1 DEF ListFits
  <2>2. left \/ StayIn(its, next, c)
    BY <1>1
  <2> QED
    BY <2>1, <2>2, ListGrows
<1>2. PICK kept \in Seq(BoardPage) : kept = d.list.pages
  BY DEF BoardData, BoardList
<1>3. PICK got \in Seq(BoardPage) : got = f.list.pages
  BY DEF BoardFetch, BoardList
<1>4. d.list.left \in BOOLEAN /\ e.list.left \in BOOLEAN /\ f.list.left \in BOOLEAN /\ g.list.left \in BOOLEAN
  BY DEF BoardData, BoardFetch, BoardList
<1>5. DataFits(new, next, c, e)
  <2>1. ListFits(new, its, c, kept, d.list.there, d.list.left)
    BY <1>2 DEF ChipFits, DataFits
  <2>2. ListFits(new, next, c, kept, d.list.there, e.list.left)
    BY <1>1, <1>4, <2>1
  <2> QED
    BY <1>2, <2>2 DEF DataFits
<1>6. ASSUME f.task = "whole" PROVE ListFits(new, next, c, got, f.list.there, g.list.left)
  <2>1. ListFits(new, its, c, got, f.list.there, f.list.left)
    BY <1>3, <1>6 DEF ChipFits, FetchFits
  <2> QED
    BY <1>1, <1>4, <2>1
<1>7. ASSUME f.task = "next"
      PROVE  /\ kept # <<>> /\ Len(got) <= 1 /\ f.upTo = 1
             /\ ListFits(new, next, c, kept \o got, d.list.there, e.list.left)
  <2>1. /\ kept # <<>> /\ Len(got) <= 1 /\ f.upTo = 1
        /\ ListFits(new, its, c, kept \o got, d.list.there, d.list.left)
    BY <1>2, <1>3, <1>7 DEF ChipFits, FetchFits
  <2>2. kept \o got \in Seq(BoardPage)
    OBVIOUS
  <2>3. ListFits(new, next, c, kept \o got, d.list.there, e.list.left)
    BY <1>1, <1>4, <2>1, <2>2
  <2> QED
    BY <2>1, <2>3
<1>8. FetchFits(new, next, c, e, g)
  <2>1. f.task = "none" => got = <<>>
    BY <1>3 DEF ChipFits, FetchFits
  <2> QED
    BY <1>2, <1>3, <1>6, <1>7, <2>1 DEF FetchFits
<1> QED
  BY <1>5, <1>8 DEF ChipFits

LEMMA RowIsPosted == ASSUME BoardInv, List!Post PROVE BoardInv'
<1>1. PICK s \in {0, 1} : /\ newest \/ s = 1
                          /\ items' = Append(items, [came |-> s, now |-> s])
  BY DEF List!Post, List!Bare, List!Waiting
<1>2. Len(items) < MaxRows /\ UNCHANGED <<newest, chip, cached, fetch, decision, known>>
  BY DEF List!Post
<1>3. PICK r \in BoardRow : r = [came |-> s, now |-> s]
  <2>1. s \in 0 .. 2
    OBVIOUS
  <2> QED
    BY <2>1 DEF BoardRow
<1>4. r.came = s /\ r.now = s
  BY <1>3
<1>5. items \in Seq(BoardRow) /\ Len(items) \in Nat
  BY DEF BoardInv, BoardTyped
<1>6. /\ items' \in Seq(BoardRow) /\ Len(items') = Len(items) + 1
      /\ items'[Len(items) + 1] = r /\ \A i \in 1 .. Len(items) : items'[i] = items[i]
  BY <1>1, <1>3, <1>5
<1>7. BoardTyped'
  <2>1. Len(items') <= MaxRows
    BY <1>2, <1>5, <1>6, BoardAssumption
  <2> QED
    BY <1>2, <1>6, <2>1 DEF BoardInv, BoardTyped, List!Chips
<1>8. ItemsFit'
  <2> SUFFICES ASSUME NEW i \in 1 .. Len(items')
               PROVE  items'[i].came <= items'[i].now /\ (~newest => items'[i].came # List!Bare)
    BY <1>2 DEF ItemsFit
  <2>1. CASE i = Len(items) + 1
    BY <1>1, <1>4, <1>6, <2>1 DEF List!Bare
  <2>2. CASE i # Len(items) + 1
    <3>1. i \in 1 .. Len(items)
      BY <1>5, <1>6, <2>2
    <3> QED
      BY <1>6, <3>1 DEF BoardInv, ItemsFit
  <2> QED
    BY <2>1, <2>2
<1>9. \A i \in 1 .. Len(items) : i \in 1 .. Len(items')
  BY <1>5, <1>6
<1>10. DecidedFits'
  BY <1>2, <1>6, <1>9 DEF BoardInv, DecidedFits
<1>11. ItemsGrow(items, items')
  <2>1. ASSUME NEW i \in 1 .. Len(items) PROVE items[i] \in BoardRow /\ items[i].now <= items[i].now
    <3>1. items[i] \in BoardRow
      BY <1>5
    <3>2. items[i].now \in 0 .. 2
      BY <3>1 DEF BoardRow
    <3> QED
      BY <3>1, <3>2
  <2> QED
    BY <1>5, <1>6, <2>1 DEF ItemsGrow
<1>12. ASSUME NEW c \in List!Chip PROVE ChipFits(newest, items', c, cached[c], fetch[c])
  <2>1. StayIn(items, items', c)
    BY <1>6 DEF StayIn, Has
  <2>2. newest \in BOOLEAN /\ cached[c] \in BoardData /\ fetch[c] \in BoardFetch
        /\ ChipFits(newest, items, c, cached[c], fetch[c])
    BY DEF BoardInv, BoardTyped
  <2> QED
    BY <1>11, <2>1, <2>2, ChipGrows
<1> QED
  BY <1>2, <1>7, <1>8, <1>10, <1>12 DEF BoardInv

LEMMA OneIsReplaced ==
  ASSUME NEW S, NEW T, NEW f \in [S -> T], NEW x \in S, NEW y \in T, NEW g, g = [f EXCEPT ![x] = y]
  PROVE  g \in [S -> T] /\ g[x] = y /\ \A z \in S \ {x} : g[z] = f[z]
OBVIOUS

\* A row moves on: it leaves its filter, whose lists are marked.
FetchIsMarked(c) == fetch' = [fetch EXCEPT ![c].list.left = TRUE]
LEMMA RowAdvances ==
  ASSUME BoardInv, NEW i \in 1 .. Len(items), items[i].now \in {0, 1}, List!Advance(i),
         FetchIsMarked(items[i].now), UNCHANGED <<newest, chip, known>>,
         decision' \in [row : 0 .. MaxRows, pc : {"none", "done", "conflict", "over"}]
  PROVE  /\ BoardTyped' /\ ItemsFit'
         /\ Owes(chip', known', cached'[List!Waiting], fetch'[List!Waiting])
         /\ \A c \in List!Chip : ChipFits(newest', items', c, cached'[c], fetch'[c])
         /\ Len(items') = Len(items) /\ items'[i].now = items[i].now + 1
         /\ \A j \in 1 .. Len(items) : items[j].now = List!Decided => items'[j].now = List!Decided
<1>1. items \in Seq(BoardRow) /\ Len(items) \in Nat /\ items[i] \in BoardRow
  BY DEF BoardInv, BoardTyped
<1>2. PICK r \in BoardRow : r = [items[i] EXCEPT !.now = items[i].now + 1]
  <2>1. items[i].now + 1 \in 0 .. 2
    OBVIOUS
  <2> QED
    BY <1>1, <2>1 DEF BoardRow
<1>3. r.came = items[i].came /\ r.now = items[i].now + 1
  BY <1>1, <1>2 DEF BoardRow
<1>4. items' = [items EXCEPT ![i] = r]
  BY <1>2 DEF List!Advance
<1>5. /\ items' \in Seq(BoardRow) /\ Len(items') = Len(items) /\ items'[i] = r
      /\ \A j \in 1 .. Len(items) \ {i} : items'[j] = items[j]
  BY <1>1, <1>4
<1>6. PICK b \in List!Chip : b = items[i].now /\ b \in {0, 1}
  BY DEF List!Chip, List!Bare, List!Waiting
<1>7. cached \in [List!Chip -> BoardData] /\ fetch \in [List!Chip -> BoardFetch]
  BY DEF BoardInv, BoardTyped
<1>8. PICK d \in BoardData : d = cached[b]
  BY <1>7
<1>9. PICK f \in BoardFetch : f = fetch[b]
  BY <1>7
<1>10. PICK dl \in BoardList : dl = [d.list EXCEPT !.left = TRUE]
  BY DEF BoardData, BoardList
<1>11. PICK fl \in BoardList : fl = [f.list EXCEPT !.left = TRUE]
  BY DEF BoardFetch, BoardList
<1>12. /\ dl.pages = d.list.pages /\ dl.there = d.list.there /\ dl.left = TRUE
       /\ fl.pages = f.list.pages /\ fl.there = f.list.there /\ fl.left = TRUE
  BY <1>10, <1>11 DEF BoardData, BoardFetch, BoardList
<1>13. PICK e \in BoardData : e = [d EXCEPT !.list = dl]
  BY DEF BoardData
<1>14. PICK g \in BoardFetch : g = [f EXCEPT !.list = fl]
  BY DEF BoardFetch
<1>15. /\ e.list = dl /\ e.stale = d.stale /\ e.passed = d.passed /\ e.failed = d.failed
       /\ g.list = fl /\ g.task = f.task /\ g.upTo = f.upTo /\ g.late = f.late
  BY <1>13, <1>14 DEF BoardData, BoardFetch
<1>16. cached' = [cached EXCEPT ![b] = e]
  <2>1. cached' = [cached EXCEPT ![b].list.left = TRUE]
    BY <1>6 DEF List!Advance
  <2> QED
    BY <1>8, <1>10, <1>13, <2>1
<1>17. fetch' = [fetch EXCEPT ![b] = g]
  <2>1. fetch' = [fetch EXCEPT ![b].list.left = TRUE]
    BY <1>6 DEF FetchIsMarked
  <2> QED
    BY <1>9, <1>11, <1>14, <2>1
<1>18. /\ cached' \in [List!Chip -> BoardData] /\ fetch' \in [List!Chip -> BoardFetch]
       /\ cached'[b] = e /\ fetch'[b] = g
       /\ \A c \in List!Chip \ {b} : cached'[c] = cached[c] /\ fetch'[c] = fetch[c]
  <2>1. /\ cached' \in [List!Chip -> BoardData] /\ cached'[b] = e
        /\ \A c \in List!Chip \ {b} : cached'[c] = cached[c]
    BY <1>7, <1>16, OneIsReplaced
  <2>2. /\ fetch' \in [List!Chip -> BoardFetch] /\ fetch'[b] = g
        /\ \A c \in List!Chip \ {b} : fetch'[c] = fetch[c]
    BY <1>7, <1>17, OneIsReplaced
  <2> QED
    BY <2>1, <2>2
<1>19. BoardTyped'
  BY <1>5, <1>18 DEF BoardInv, BoardTyped, List!Chips
<1>20. ItemsFit'
  <2> SUFFICES ASSUME NEW j \in 1 .. Len(items)
               PROVE  items'[j].came <= items'[j].now /\ (~newest => items'[j].came # List!Bare)
    BY <1>5 DEF ItemsFit
  <2>1. items[j].came <= items[j].now /\ (~newest => items[j].came # List!Bare)
    BY DEF BoardInv, ItemsFit
  <2>2. CASE j = i
    BY <1>1, <1>3, <1>5, <2>1, <2>2 DEF BoardRow
  <2>3. CASE j # i
    BY <1>5, <2>1, <2>3
  <2> QED
    BY <2>2, <2>3
<1>21. ItemsGrow(items, items')
  <2>1. ASSUME NEW j \in 1 .. Len(items)
        PROVE  /\ items[j] \in BoardRow /\ items'[j] \in BoardRow
               /\ items'[j].came = items[j].came /\ items[j].now <= items'[j].now
    <3>0. items[j] \in BoardRow
      BY <1>1
    <3>1. items[j] \in BoardRow /\ items[j].now \in 0 .. 2
      BY <3>0 DEF BoardRow
    <3>2. CASE j = i
      BY <1>3, <1>5, <3>1, <3>2
    <3>3. CASE j # i
      BY <1>5, <3>1, <3>3
    <3> QED
      BY <3>2, <3>3
  <2> QED
    BY <1>1, <1>5, <2>1 DEF ItemsGrow
<1>22. ASSUME NEW c \in List!Chip PROVE ChipFits(newest, items', c, cached'[c], fetch'[c])
  <2>1. newest \in BOOLEAN /\ ChipFits(newest, items, c, cached[c], fetch[c])
    BY DEF BoardInv, BoardTyped
  <2>2. CASE c = b
    <3>1. ChipFits(newest, items, b, d, f)
      BY <1>8, <1>9, <2>1, <2>2
    <3>2. ChipFits(newest, items', b, e, g)
      BY <1>12, <1>15, <1>21, <2>1, <3>1, ChipGrows
    <3> QED
      BY <1>18, <2>2, <3>2
  <2>3. CASE c # b
    <3>1. StayIn(items, items', c)
      <4>1. ASSUME NEW j \in 1 .. Len(items), Has(items, c, j) PROVE Has(items', c, j)
        <5>1. CASE j = i
          BY <1>6, <2>3, <4>1, <5>1 DEF Has
        <5>2. CASE j # i
          BY <1>5, <4>1, <5>2 DEF Has
        <5> QED
          BY <5>1, <5>2
      <4> QED
        BY <4>1 DEF StayIn
    <3>2. cached[c] \in BoardData /\ fetch[c] \in BoardFetch /\ cached'[c] = cached[c] /\ fetch'[c] = fetch[c]
      BY <1>7, <1>18, <2>3
    <3> QED
      BY <1>21, <2>1, <3>1, <3>2, ChipGrows
  <2> QED
    BY <2>2, <2>3
<1>23. Owes(chip', known', cached'[List!Waiting], fetch'[List!Waiting])
  <2>1. Owes(chip, known, cached[List!Waiting], fetch[List!Waiting])
    BY DEF BoardInv
  <2>2. CASE b = List!Waiting
    BY <1>8, <1>9, <1>12, <1>15, <1>18, <2>1, <2>2 DEF Owes
  <2>3. CASE b # List!Waiting
    <3>1. List!Waiting \in List!Chip \ {b}
      BY <2>3 DEF List!Chip
    <3> QED
      BY <1>18, <2>1, <3>1
  <2> QED
    BY <2>2, <2>3
<1>24. \A j \in 1 .. Len(items) : items[j].now = List!Decided => items'[j].now = List!Decided
  <2>1. items[i].now # List!Decided
    BY DEF List!Decided
  <2> QED
    BY <1>5, <2>1
<1> QED
  BY <1>3, <1>5, <1>19, <1>20, <1>22, <1>23, <1>24

LEMMA OthersMove ==
  ASSUME BoardInv, NEW i \in 1 .. Len(items), List!Others(i) PROVE BoardInv'
<1>1. /\ List!Advance(i) /\ FetchIsMarked(items[i].now)
      /\ UNCHANGED <<newest, chip, decision, known>> /\ items[i].now < List!Decided
  BY DEF List!Others, FetchIsMarked
<1>2. items[i].now \in {0, 1}
  <2>1. items[i] \in BoardRow
    BY DEF BoardInv, BoardTyped
  <2> QED
    BY <1>1, <2>1 DEF BoardRow, List!Decided
<1>3. decision' \in [row : 0 .. MaxRows, pc : {"none", "done", "conflict", "over"}]
  BY <1>1 DEF BoardInv, BoardTyped
<1>4. /\ BoardTyped' /\ ItemsFit'
      /\ Owes(chip', known', cached'[List!Waiting], fetch'[List!Waiting])
      /\ \A c \in List!Chip : ChipFits(newest', items', c, cached'[c], fetch'[c])
      /\ Len(items') = Len(items)
      /\ \A j \in 1 .. Len(items) : items[j].now = List!Decided => items'[j].now = List!Decided
  BY <1>1, <1>2, <1>3, RowAdvances
<1>5. DecidedFits'
  BY <1>1, <1>4 DEF BoardInv, DecidedFits
<1> QED
  BY <1>4, <1>5 DEF BoardInv

LEMMA ReaderDecides ==
  ASSUME BoardInv, NEW i \in 1 .. Len(items), List!Decide(i) PROVE BoardInv'
<1>1. items[i] \in BoardRow /\ i \in 0 .. MaxRows
  <2>1. Len(items) \in Nat /\ Len(items) <= MaxRows
    BY DEF BoardInv, BoardTyped
  <2>2. i \in 0 .. MaxRows
    BY <2>1, BoardAssumption
  <2> QED
    BY <2>2 DEF BoardInv, BoardTyped
<1>2. CASE items[i].now = List!Waiting
  <2>1. /\ List!Advance(i) /\ FetchIsMarked(items[i].now)
        /\ decision' = [row |-> i, pc |-> "done"] /\ UNCHANGED <<newest, chip, known>>
    BY <1>2 DEF List!Decide, FetchIsMarked
  <2>2. items[i].now \in {0, 1} /\ items[i].now = 1
    BY <1>2 DEF List!Waiting
  <2>3. decision' \in [row : 0 .. MaxRows, pc : {"none", "done", "conflict", "over"}]
    BY <1>1, <2>1
  <2>4. /\ BoardTyped' /\ ItemsFit'
        /\ Owes(chip', known', cached'[List!Waiting], fetch'[List!Waiting])
        /\ \A c \in List!Chip : ChipFits(newest', items', c, cached'[c], fetch'[c])
        /\ Len(items') = Len(items) /\ items'[i].now = items[i].now + 1
        /\ \A j \in 1 .. Len(items) : items[j].now = List!Decided => items'[j].now = List!Decided
    BY <2>1, <2>2, <2>3, RowAdvances
  <2>5. DecidedFits'
    <3>1. decision'.row = i /\ items'[i].now = List!Decided
      BY <2>1, <2>2, <2>4 DEF List!Decided
    <3> QED
      BY <2>1, <2>4, <3>1 DEF BoardInv, DecidedFits
  <2> QED
    BY <2>4, <2>5 DEF BoardInv
<1>3. CASE items[i].now # List!Waiting
  <2>1. /\ decision' = [row |-> i, pc |-> "conflict"]
        /\ UNCHANGED <<newest, items, chip, cached, fetch, known>>
    BY <1>3 DEF List!Decide
  <2>2. BoardTyped'
    <3>1. decision' \in [row : 0 .. MaxRows, pc : {"none", "done", "conflict", "over"}]
      BY <1>1, <2>1
    <3> QED
      BY <2>1, <3>1 DEF BoardInv, BoardTyped, List!Chips
  <2>3. DecidedFits'
    <3>1. ~newest => items[i].now = List!Decided
      <4>1. items[i].came <= items[i].now /\ (~newest => items[i].came # List!Bare)
        BY DEF BoardInv, ItemsFit
      <4> QED
        BY <1>1, <1>3, <4>1 DEF BoardRow, List!Bare, List!Waiting, List!Decided
    <3>2. decision'.row = i /\ decision'.pc = "conflict"
      BY <2>1
    <3> QED
      BY <2>1, <3>1, <3>2 DEF BoardInv, DecidedFits
  <2> QED
    BY <2>1, <2>2, <2>3 DEF BoardInv, ItemsFit
<1> QED
  BY <1>2, <1>3

\* The answer has come and nothing else moves.
LEMMA DecisionIsOver ==
  ASSUME BoardInv, decision' = [decision EXCEPT !.pc = "over"],
         UNCHANGED <<newest, items, chip, cached, fetch, known>>
  PROVE  BoardInv'
<1>1. /\ decision' \in [row : 0 .. MaxRows, pc : {"none", "done", "conflict", "over"}]
      /\ decision'.pc = "over"
  BY DEF BoardInv, BoardTyped
<1>2. BoardTyped'
  BY <1>1 DEF BoardInv, BoardTyped, List!Chips
<1>3. DecidedFits' /\ ItemsFit'
  BY <1>1 DEF BoardInv, DecidedFits, ItemsFit
<1> QED
  BY <1>2, <1>3 DEF BoardInv

LEMMA ListsAreInvalidated ==
  ASSUME BoardInv, decision' = [decision EXCEPT !.pc = "over"], known' = known \union {decision.row},
         decision.row \in 1 .. Len(items), items[decision.row].now = List!Decided, List!Invalidate,
         UNCHANGED <<newest, items, chip>>
  PROVE  BoardInv'
<1>1. /\ decision' \in [row : 0 .. MaxRows, pc : {"none", "done", "conflict", "over"}]
      /\ decision'.pc = "over"
  BY DEF BoardInv, BoardTyped
<1>2. cached \in [List!Chip -> BoardData] /\ fetch \in [List!Chip -> BoardFetch]
  BY DEF BoardInv, BoardTyped
<1>3. ASSUME NEW c \in List!Chip
      PROVE  \E e \in BoardData :
               /\ cached'[c] = e /\ e.list = cached[c].list /\ e.passed = cached[c].passed
               /\ e.stale <=> cached[c].list.pages # <<>>
  <2>1. PICK d \in BoardData : d = cached[c]
    BY <1>2
  <2>2. PICK b \in BOOLEAN : b = (d.list.pages # <<>>)
    OBVIOUS
  <2>3. PICK e \in BoardData : e = [d EXCEPT !.stale = b]
    BY DEF BoardData
  <2>4. e.list = d.list /\ e.passed = d.passed /\ e.stale = b
    BY <2>3 DEF BoardData
  <2>5. cached'[c] = [d EXCEPT !.stale = (d.list.pages # <<>>)]
    BY <2>1 DEF List!Invalidate
  <2>6. cached'[c] = e
    BY <2>2, <2>3, <2>5
  <2>7. e.stale <=> d.list.pages # <<>>
    BY <2>2, <2>4
  <2> QED
    BY <2>1, <2>4, <2>6, <2>7
<1>4. ASSUME NEW c \in List!Chip, c = chip
      PROVE  \E g \in BoardFetch :
               fetch'[c] = g /\ g.task = "whole" /\ g.list.pages = <<>> /\ ~g.late
  <2>1. PICK g \in BoardFetch : g = List!Whole(c) /\ g.task = "whole" /\ g.list.pages = <<>> /\ ~g.late
    BY WholeIs
  <2>2. fetch'[c] = List!Whole(c)
    BY <1>4 DEF List!Invalidate, List!KeyOf
  <2> QED
    BY <2>1, <2>2
<1>5. ASSUME NEW c \in List!Chip, c # chip
      PROVE  \E g \in BoardFetch :
               /\ fetch'[c] = g /\ g.task = fetch[c].task /\ g.upTo = fetch[c].upTo
               /\ g.list = fetch[c].list
               /\ g.late <=> fetch[c].task = "next" \/ fetch[c].list.pages # <<>>
  <2>1. PICK f \in BoardFetch : f = fetch[c]
    BY <1>2
  <2>2. PICK b \in BOOLEAN : b = (f.task = "next" \/ f.list.pages # <<>>)
    OBVIOUS
  <2>3. PICK g \in BoardFetch : g = [f EXCEPT !.late = b]
    BY DEF BoardFetch
  <2>4. g.list = f.list /\ g.task = f.task /\ g.upTo = f.upTo /\ g.late = b
    BY <2>3 DEF BoardFetch
  <2>5. fetch'[c] = [f EXCEPT !.late = (f.task = "next" \/ f.list.pages # <<>>)]
    BY <1>5, <2>1 DEF List!Invalidate, List!KeyOf, List!Earlier
  <2>6. fetch'[c] = g
    BY <2>2, <2>3, <2>5
  <2>7. g.late <=> f.task = "next" \/ f.list.pages # <<>>
    BY <2>2, <2>4
  <2> QED
    BY <2>1, <2>4, <2>6, <2>7
<1>6. cached' \in [List!Chip -> BoardData]
  <2>1. cached' = [c \in List!Chip |-> cached'[c]]
    BY DEF List!Invalidate
  <2>2. \A c \in List!Chip : cached'[c] \in BoardData
    BY <1>3
  <2> QED
    BY <2>1, <2>2
<1>7. fetch' \in [List!Chip -> BoardFetch]
  <2>1. fetch' = [c \in List!Chip |-> fetch'[c]]
    BY DEF List!Invalidate
  <2>2. \A c \in List!Chip : fetch'[c] \in BoardFetch
    BY <1>4, <1>5
  <2> QED
    BY <2>1, <2>2
<1>8. BoardTyped'
  <2>1. 1 .. Len(items) \subseteq 1 .. MaxRows
    <3>1. Len(items) \in Nat /\ Len(items) <= MaxRows
      BY DEF BoardInv, BoardTyped
    <3> QED
      BY <3>1, BoardAssumption
  <2> QED
    BY <1>1, <1>6, <1>7, <2>1 DEF BoardInv, BoardTyped, List!Chips
<1>9. ItemsFit' /\ DecidedFits'
  BY <1>1 DEF BoardInv, ItemsFit, DecidedFits
<1>10. ASSUME NEW c \in List!Chip PROVE ChipFits(newest, items, c, cached'[c], fetch'[c])
  <2>1. PICK d \in BoardData : d = cached[c]
    BY <1>2
  <2>2. PICK f \in BoardFetch : f = fetch[c]
    BY <1>2
  <2>3. PICK e \in BoardData : cached'[c] = e /\ e.list = d.list
    BY <1>3, <2>1
  <2>4. ChipFits(newest, items, c, d, f)
    BY <2>1, <2>2 DEF BoardInv
  <2>5. DataFits(newest, items, c, e)
    BY <2>3, <2>4 DEF ChipFits, DataFits
  <2>6. CASE c = chip
    <3>1. PICK g \in BoardFetch : fetch'[c] = g /\ g.task = "whole" /\ g.list.pages = <<>>
      BY <1>4, <2>6
    <3>2. ChipFits(newest, items, c, e, g)
      BY <2>5, <3>1, NothingRead
    <3> QED
      BY <2>3, <3>1, <3>2
  <2>7. CASE c # chip
    <3>1. PICK g \in BoardFetch : fetch'[c] = g /\ g.task = f.task /\ g.upTo = f.upTo /\ g.list = f.list
      BY <1>5, <2>2, <2>7
    <3>2. FetchFits(newest, items, c, e, g)
      BY <2>3, <2>4, <3>1 DEF ChipFits, FetchFits
    <3> QED
      BY <2>3, <2>5, <3>1, <3>2 DEF ChipFits
  <2> QED
    BY <2>6, <2>7
<1>11. Owes(chip, known', cached'[List!Waiting], fetch'[List!Waiting])
  <2>1. List!Waiting \in List!Chip
    BY DEF List!Chip
  <2>2. PICK e \in BoardData : /\ cached'[List!Waiting] = e
                               /\ e.stale <=> e.list.pages # <<>>
    BY <1>3, <2>1
  <2>3. \A pages : ShowsAny(known', pages) => pages # <<>>
    BY DEF ShowsAny, Paged
  <2>4. CASE chip = List!Waiting
    <3>1. PICK g \in BoardFetch : /\ fetch'[List!Waiting] = g /\ g.task = "whole"
                                  /\ g.list.pages = <<>> /\ ~g.late
      BY <1>4, <2>1, <2>4
    <3> QED
      BY <2>2, <2>3, <3>1 DEF Owes
  <2>5. CASE chip # List!Waiting
    <3>1. PICK g \in BoardFetch : /\ fetch'[List!Waiting] = g
                                  /\ g.late <=> g.task = "next" \/ g.list.pages # <<>>
      BY <1>5, <2>1, <2>5
    <3> QED
      BY <2>2, <2>3, <2>5, <3>1 DEF Owes
  <2> QED
    BY <2>4, <2>5
<1> QED
  BY <1>8, <1>9, <1>10, <1>11 DEF BoardInv

LEMMA AnswerHasCome == ASSUME BoardInv, List!Answered PROVE BoardInv'
<1>1. /\ decision.pc \in {"done", "conflict"} /\ decision' = [decision EXCEPT !.pc = "over"]
      /\ UNCHANGED <<newest, items, chip>>
  BY DEF List!Answered
<1>2. CASE UNCHANGED <<cached, fetch, known>>
  BY <1>1, <1>2, DecisionIsOver
<1>3. CASE (decision.pc = "done" \/ ~newest) /\ known' = known \union {decision.row} /\ List!Invalidate
  <2>1. decision.row \in 1 .. Len(items) /\ items[decision.row].now = List!Decided
    BY <1>1, <1>3 DEF BoardInv, DecidedFits
  <2> QED
    BY <1>1, <1>3, <2>1, ListsAreInvalidated
<1> QED
  BY <1>2, <1>3 DEF List!Answered

LEMMA BoardSteps == ASSUME BoardInv, List!BoardNext \/ UNCHANGED boardsVars PROVE BoardInv'
<1>1. CASE UNCHANGED boardsVars
  BY <1>1 DEF boardsVars, BoardInv, BoardTyped, ItemsFit, DecidedFits, List!Chips
<1>2. CASE List!BoardNext
  <2>1. CASE List!AnswerLost
    BY <2>1, DecisionIsOver DEF List!AnswerLost
  <2> QED
    BY <1>2, <2>1, ChipIsPressed, PageIsRead, FetchHasLanded, FetchIsBroken, OthersMove,
       ReaderDecides, NextIsAsked, ListIsPulled, RowIsPosted, AnswerHasCome DEF List!BoardNext
<1> QED
  BY <1>1, <1>2

LEMMA BoardBegins == ASSUME List!BoardInit PROVE BoardInv
<1>1. /\ newest \in BOOLEAN /\ chip = (IF newest THEN List!All ELSE List!Waiting)
      /\ cached = [c \in List!Chip |-> List!NoData] /\ known = {}
      /\ items = [i \in 1 .. MaxRows - 1 |-> [came |-> List!Waiting, now |-> List!Waiting]]
      /\ decision = [row |-> 0, pc |-> "none"]
  BY DEF List!BoardInit
<1>2. PICK r \in BoardRow : r = [came |-> List!Waiting, now |-> List!Waiting]
  <2>1. List!Waiting \in 0 .. 2
    BY DEF List!Waiting
  <2> QED
    BY <2>1 DEF BoardRow
<1>3. r.came = 1 /\ r.now = 1
  BY <1>2 DEF List!Waiting
<1>4. items \in Seq(BoardRow) /\ Len(items) <= MaxRows /\ \A i \in 1 .. Len(items) : items[i] = r
  <2>1. PICK n \in Nat : n = MaxRows - 1
    BY BoardAssumption
  <2>2. items = [i \in 1 .. n |-> r]
    BY <1>1, <1>2, <2>1
  <2>3. items \in Seq(BoardRow) /\ Len(items) = n /\ \A i \in 1 .. n : items[i] = r
    BY <2>2
  <2> QED
    BY <2>1, <2>3, BoardAssumption
<1>5. PICK f \in BoardFetch : /\ f = List!NoFetch /\ f.task = "none" /\ f.upTo = 0
                              /\ f.list.pages = <<>> /\ ~f.late
  BY NoFetchIs
<1>6. PICK g \in BoardFetch : g = [f EXCEPT !.task = "whole", !.upTo = 1]
  BY DEF BoardFetch
<1>7. g.task = "whole" /\ g.list = f.list
  BY <1>6 DEF BoardFetch
<1>8. fetch = [c \in List!Chip |-> IF c = chip THEN g ELSE f]
  BY <1>5, <1>6 DEF List!BoardInit
<1>9. PICK l \in BoardList : l = List!NoPages /\ l.pages = <<>>
  <2>1. f.list \in BoardList
    BY DEF BoardFetch
  <2>2. f.list = List!NoPages
    BY <1>5 DEF List!NoFetch
  <2> QED
    BY <1>5, <2>1, <2>2
<1>10. PICK d \in BoardData : d = List!NoData /\ d.list = l /\ ~d.stale /\ ~d.passed
  <2>1. PICK d \in BoardData : d = [list |-> l, failed |-> FALSE, stale |-> FALSE, passed |-> FALSE]
    BY DEF BoardData
  <2>2. d.list = l /\ d.stale = FALSE /\ d.passed = FALSE
    BY <2>1
  <2> QED
    BY <1>9, <2>1, <2>2 DEF List!NoData
<1>11. BoardTyped
  <2>1. chip \in List!Chips
    BY <1>1 DEF List!Chips
  <2>2. decision \in [row : 0 .. MaxRows, pc : {"none", "done", "conflict", "over"}]
    BY <1>1, BoardAssumption
  <2>3. cached \in [List!Chip -> BoardData] /\ fetch \in [List!Chip -> BoardFetch]
    BY <1>1, <1>8, <1>10
  <2> QED
    BY <1>1, <1>4, <2>1, <2>2, <2>3 DEF BoardTyped
<1>12. ItemsFit
  BY <1>3, <1>4 DEF ItemsFit, List!Bare
<1>13. DecidedFits
  BY <1>1 DEF DecidedFits
<1>14. ASSUME NEW c \in List!Chip PROVE ChipFits(newest, items, c, cached[c], fetch[c])
  <2>1. cached[c] = d
    BY <1>1, <1>10
  <2>2. DataFits(newest, items, c, d)
    BY <1>9, <1>10 DEF DataFits, ListFits, PagesFit, Paged
  <2>3. PICK h \in {f, g} : fetch[c] = h
    BY <1>8
  <2>4. h \in BoardFetch /\ h.list.pages = <<>> /\ h.task # "next"
    BY <1>5, <1>7, <2>3
  <2>5. ChipFits(newest, items, c, d, h)
    BY <2>2, <2>4, NothingRead
  <2> QED
    BY <2>1, <2>3, <2>5
<1>15. Owes(chip, known, cached[List!Waiting], fetch[List!Waiting])
  <2>1. List!Waiting \in List!Chip
    BY DEF List!Chip
  <2>2. cached[List!Waiting] = d
    BY <1>1, <1>10, <2>1
  <2>3. \A pages : ~ShowsAny(known, pages)
    BY <1>1 DEF ShowsAny
  <2> QED
    BY <1>9, <1>10, <2>2, <2>3 DEF Owes
<1> QED
  BY <1>11, <1>12, <1>13, <1>14, <1>15 DEF BoardInv

\* What is shown is what is on the pages of the filter in front.
LEMMA ShownIsPaged == \A i : i \in List!Shown <=> Paged(cached[chip].list.pages, i)
<1>1. \A i : i \in List!Shown <=> \E k \in 1 .. Len(cached[chip].list.pages) :
        \E n \in 1 .. Len(cached[chip].list.pages[k].rows) : i = cached[chip].list.pages[k].rows[n]
  BY DEF List!Shown, List!Pages, List!Kept, List!KeyOf
<1> QED
  BY <1>1 DEF Paged

LEMMA BoardHolds ==
  ASSUME BoardInv
  PROVE  /\ List!BoardTypeOK /\ List!NothingIsSkipped
         /\ List!FilterIsKept /\ List!DecidedLeavesTheList
<1>1. chip \in List!Chip
  BY DEF BoardInv, BoardTyped, List!Chips, List!Chip
<1>2. PICK d \in BoardData : d = cached[chip]
  BY <1>1 DEF BoardInv, BoardTyped
<1>3. PICK pages \in Seq(BoardPage) : pages = d.list.pages
  BY DEF BoardData, BoardList
<1>4. ListFits(newest, items, chip, pages, d.list.there, d.list.left)
  BY <1>1, <1>2, <1>3 DEF BoardInv, ChipFits, DataFits
<1>5. List!Kept = d /\ List!Pages = pages /\ \A i : i \in List!Shown <=> Paged(pages, i)
  BY <1>2, <1>3, ShownIsPaged DEF List!Kept, List!Pages, List!KeyOf
<1>6. \A i : Paged(pages, i) => i \in 1 .. MaxRows
  <2> SUFFICES ASSUME NEW i, Paged(pages, i) PROVE i \in 1 .. MaxRows
    OBVIOUS
  <2>1. PICK k \in 1 .. Len(pages) : \E n \in 1 .. Len(pages[k].rows) : pages[k].rows[n] = i
    BY DEF Paged
  <2>2. PICK p \in BoardPage : p = pages[k]
    BY <2>1
  <2>6. PICK U : U = 1 .. MaxRows
    OBVIOUS
  <2>3. PICK shown \in Seq(U) : shown = p.rows
    BY <2>6 DEF BoardPage
  <2>4. PICK n \in 1 .. Len(shown) : shown[n] = i
    BY <2>1, <2>2, <2>3
  <2>5. shown[n] \in U
    OBVIOUS
  <2> QED
    BY <2>4, <2>5, <2>6
<1>7. List!BoardTypeOK
  <2>1. ASSUME NEW c \in List!Chip
        PROVE  /\ fetch[c].task \in {"none", "whole", "next"}
               /\ \A k \in 1 .. Len(cached[c].list.pages) : Len(cached[c].list.pages[k].rows) <= PageSize
    <3>1. fetch[c].task \in {"none", "whole", "next"}
      BY DEF BoardInv, BoardTyped, BoardFetch
    <3> QED
      BY <3>1 DEF BoardInv, ChipFits, DataFits, ListFits, PagesFit
  <2>2. ASSUME NEW i \in 1 .. Len(items) PROVE items[i].came <= items[i].now /\ items[i].now \in 0 .. 2
    <3>1. items[i] \in BoardRow
      BY DEF BoardInv, BoardTyped
    <3> QED
      BY <3>1 DEF BoardRow, BoardInv, ItemsFit
  <2> QED
    BY <2>1, <2>2 DEF BoardInv, BoardTyped, List!BoardTypeOK, List!Bare, List!Decided, List!Row
<1>8. List!NothingIsSkipped
  <2> SUFFICES ASSUME pages # <<>>, Len(pages) * PageSize >= pages[Len(pages)].total, ~d.list.left,
                      NEW i \in d.list.there
               PROVE  Paged(pages, i)
    BY <1>5 DEF List!NothingIsSkipped, List!OnScreen
  <2>1. Paged(pages, i) \/ Len(pages) * PageSize < pages[Len(pages)].total
    BY <1>4 DEF ListFits, EndsRight
  <2>2. Len(pages) * PageSize \in Nat /\ pages[Len(pages)].total \in Nat
    <3>1. Len(pages) \in 1 .. Len(pages)
      OBVIOUS
    <3>2. pages[Len(pages)] \in BoardPage
      BY <3>1
    <3> QED
      BY <3>2, BoardAssumption DEF BoardPage
  <2> QED
    BY <2>1, <2>2
<1>9. List!FilterIsKept
  <2> SUFFICES ASSUME chip # List!All, NEW i, Paged(pages, i)
               PROVE  items[i].came <= chip /\ chip <= items[i].now
    BY <1>5 DEF List!FilterIsKept
  <2> QED
    BY <1>4, <1>6 DEF ListFits, PagesFit
<1>10. List!DecidedLeavesTheList
  <2> SUFFICES ASSUME pages # <<>>, ~d.failed, chip = List!Waiting, fetch[chip].task = "none", ~d.passed
               PROVE  List!Shown \cap known = {}
    BY <1>5 DEF List!DecidedLeavesTheList, List!OnScreen
  <2>1. Owes(chip, known, d, fetch[chip])
    BY <1>2 DEF BoardInv
  <2>2. ~ShowsAny(known, pages)
    BY <1>3, <2>1 DEF Owes
  <2> QED
    BY <1>5, <2>2 DEF ShowsAny
<1> QED
  BY <1>7, <1>8, <1>9, <1>10

-------------------------------------------------------------------------------
(* The control center in a browser *)

Session == [person : Web!Person \union {"nobody"}, family : {0} \union Web!Token, live : BOOLEAN]
Jar == [secure : {0} \union Web!Token, plain : {0, 1}]
Seat == [status : {"loading", "error", "signedOut", "signedIn"}, access : Web!Person \union {"none"}]
Request ==
  [tab : Tab, kind : {"refresh", "login", "logout"}, jar : Jar, at : {"sent", "swap", "answer"},
   answer : {"none", "refused", "ok", "error"}, token : {0} \union Web!Token]

WebTyped ==
  /\ row \in [Web!Token -> Session]
  /\ jar \in Jar /\ tab \in [Tab -> Seat] /\ post \subseteq Request
  /\ tangled \in BOOLEAN /\ slips \in 0 .. MaxSlips

\* Tokens are issued one after the other; a family is named after one of its tokens.
RowsFit ==
  /\ \E k \in 1 .. MaxIssued : Web!Issued = 1 .. k
  /\ \A n \in Web!Issued : row[n].family \in Web!Issued
  /\ \A n \in Web!Issued : row[n].family \in closed => ~row[n].live
  /\ closed \subseteq Web!Issued
  /\ ~row[1].live

Known(j) == j.secure \in {0} \union Web!Issued

\* A cookie holds a token that was issued; one is swapped when it was alone and live.
PostFits ==
  /\ Known(jar)
  /\ \A r \in post : /\ Known(r.jar) /\ r.token \in {0} \union Web!Issued
                     /\ r.at = "swap" => r.kind = "refresh" /\ r.jar.secure # 0 /\ r.jar.plain = 0

SomeoneIn == \E t \in Tab : tab[t].status = "signedIn"
Refreshed(r) == r.kind = "refresh" /\ r.at = "answer"

\* While nothing is tangled there is one request at most, with the browser's own cookies,
\* and who is signed in has a live token in the jar or on its way.
CalmFits ==
  ~tangled =>
    /\ \A r, s \in post : r = s
    /\ \A r \in post :
         /\ r.at # "answer" => r.jar = jar
         /\ r.at = "answer" => r.kind # "logout" /\ r.answer # "error"
         /\ r.kind = "login" => tab[r.tab].status = "signedOut"
         /\ r.at = "swap" => row[jar.secure].live
         /\ r.at = "answer" /\ r.token # 0 =>
              row[r.token].live /\ (r.kind = "refresh" => jar.plain = 0)
         /\ SomeoneIn /\ Refreshed(r) => r.token # 0
    /\ (\E t \in Tab : tab[t].status \in {"signedIn", "signedOut"}) => jar.plain = 0
    /\ SomeoneIn /\ (\A r \in post : ~Refreshed(r)) => jar.secure # 0 /\ row[jar.secure].live

WebInv == WebTyped /\ RowsFit /\ PostFits /\ CalmFits

LEMMA SameWebCount == ASSUME NEW S PROVE Web!Cardinality(S) = Cardinality(S)
BY DEF Web!Cardinality, Cardinality

LEMMA Issuing ==
  ASSUME RowsFit
  PROVE  \E k \in 1 .. MaxIssued : Web!Issued = 1 .. k /\ Web!Next1 = k + 1
<1>1. PICK k \in 1 .. MaxIssued : Web!Issued = 1 .. k
  BY DEF RowsFit
<1>2. Cardinality(1 .. k) = k
  <2>1. k \in Int /\ 1 \in Int /\ 1 <= k
    BY WebAssumption
  <2>2. Cardinality(1 .. k) = k - 1 + 1
    BY <2>1, FS_Interval
  <2> QED
    BY <2>1, <2>2
<1> QED
  BY <1>1, <1>2, SameWebCount DEF Web!Next1

\* The first token is issued, and the next one is not.
LEMMA IssuedTokens ==
  ASSUME RowsFit
  PROVE  /\ 1 \in Web!Issued /\ Web!Issued \subseteq Web!Token /\ 0 \notin Web!Issued
         /\ Web!Next1 \notin Web!Issued /\ Web!Next1 # 0 /\ Web!Next1 # 1
<1>1. PICK k \in 1 .. MaxIssued : Web!Issued = 1 .. k /\ Web!Next1 = k + 1
  BY Issuing
<1> QED
  BY <1>1, WebAssumption DEF Web!Token

LEMMA WebBegins == ASSUME Web!WebInit PROVE WebInv
<1>1. 1 \in Web!Token /\ Web!Token = 1 .. MaxIssued /\ Web!Token \subseteq Nat
  BY WebAssumption DEF Web!Token
<1>2. row = [n \in Web!Token |->
               IF n = 1 THEN [person |-> "operator", family |-> 1, live |-> FALSE]
               ELSE [person |-> "nobody", family |-> 0, live |-> FALSE]]
  BY DEF Web!WebInit
<1>3. \A n \in Web!Token : /\ row[n] \in Session /\ ~row[n].live
                           /\ n = 1 => row[n].person = "operator" /\ row[n].family = 1
                           /\ n # 1 => row[n].person = "nobody"
  BY <1>1, <1>2 DEF Session, Web!Person
<1>4. row \in [Web!Token -> Session]
  BY <1>2, <1>3
<1>5. Web!Issued = {1}
  BY <1>1, <1>3 DEF Web!Issued
<1>6. {1} = 1 .. 1 /\ 1 \in 1 .. MaxIssued
  BY WebAssumption
<1>7. /\ tab = [t \in Tab |-> [status |-> "loading", access |-> "none"]]
      /\ post = {} /\ closed = {} /\ tangled = FALSE /\ slips = 0
  BY DEF Web!WebInit
<1>8. jar \in Jar /\ jar.secure = 0
  BY <1>1 DEF Web!WebInit, Web!NoCookie, Jar
<1>9. RowsFit
  BY <1>1, <1>3, <1>5, <1>6, <1>7 DEF RowsFit
<1>10. WebTyped
  <2>1. tab \in [Tab -> Seat]
    BY <1>7 DEF Seat
  <2>2. tangled \in BOOLEAN /\ post \subseteq Request
    BY <1>7
  <2>3. slips \in 0 .. MaxSlips
    BY <1>7, WebAssumption
  <2> QED
    BY <1>4, <1>8, <2>1, <2>2, <2>3 DEF WebTyped
<1>11. PostFits
  BY <1>7, <1>8 DEF PostFits, Known
<1>12. CalmFits
  <2>1. \A t \in Tab : tab[t].status = "loading"
    BY <1>7
  <2> QED
    BY <1>7, <2>1 DEF CalmFits, SomeoneIn
<1> QED
  BY <1>9, <1>10, <1>11, <1>12 DEF WebInv

\* The one cookie of a request.
LEMMA OneCookie ==
  ASSUME NEW r \in Request, ~Web!Ambiguous(r), Web!Cookies(r) # {}
  PROVE  /\ Web!TokenOf(r) \in Web!Token
         /\ r.jar.plain = 0 => r.jar.secure # 0 /\ Web!TokenOf(r) = r.jar.secure
         /\ r.jar.plain # 0 => Web!TokenOf(r) = 1
<1>1. r.jar \in Jar
  BY DEF Request
<1>2. Web!TokenOf(r) \in Web!Cookies(r)
  BY DEF Web!TokenOf
<1>3. /\ Web!TokenOf(r) # 0
      /\ Web!TokenOf(r) = r.jar.secure \/ Web!TokenOf(r) = r.jar.plain
  BY <1>2 DEF Web!Cookies
<1>4. r.jar.secure \in {0} \union Web!Token /\ r.jar.plain \in {0, 1}
  BY <1>1 DEF Jar
<1> QED
  BY <1>3, <1>4, WebAssumption DEF Web!Ambiguous, Web!Token

\* What a family's end changes.
LEMMA FamilyEnds ==
  ASSUME WebTyped, RowsFit, NEW n \in Web!Issued, row' = Web!Revoked(n)
  PROVE  /\ row' \in [Web!Token -> Session] /\ Web!Issued' = Web!Issued
         /\ \A m \in Web!Token : row'[m].family = row[m].family
         /\ \A m \in Web!Token : row'[m].live => row[m].live /\ row[m].family # row[n].family
         /\ \A m \in Web!Token : row[m].live /\ row[m].family # row[n].family => row'[m].live
<1>1. ASSUME NEW m \in Web!Token
      PROVE  /\ row'[m] \in Session /\ row'[m].family = row[m].family
             /\ row'[m].person = row[m].person
             /\ row'[m].live => row[m].live /\ row[m].family # row[n].family
             /\ row[m].live /\ row[m].family # row[n].family => row'[m].live
  <2>1. row'[m] = IF row[m].family = row[n].family THEN [row[m] EXCEPT !.live = FALSE] ELSE row[m]
    BY DEF Web!Revoked
  <2>2. PICK s \in Session : s = row[m]
    BY DEF WebTyped
  <2>3. PICK e \in Session : e = [s EXCEPT !.live = FALSE]
    BY DEF Session
  <2>4. e.family = s.family /\ e.person = s.person /\ ~e.live
    BY <2>3 DEF Session
  <2> QED
    BY <2>1, <2>2, <2>3, <2>4
<1>2. row' \in [Web!Token -> Session]
  BY <1>1 DEF Web!Revoked
<1>3. Web!Issued' = Web!Issued
  BY <1>1 DEF Web!Issued
<1> QED
  BY <1>1, <1>2, <1>3

\* The rows stay in order when a family ends.
LEMMA RowsAfterEnd ==
  ASSUME WebTyped, RowsFit, NEW n \in Web!Issued, row' = Web!Revoked(n),
         closed' = closed \/ closed' = closed \union {row[n].family}
  PROVE  RowsFit'
<1>1. /\ Web!Issued' = Web!Issued
      /\ \A m \in Web!Token : row'[m].family = row[m].family
      /\ \A m \in Web!Token : row'[m].live => row[m].live /\ row[m].family # row[n].family
  BY FamilyEnds
<1>2. Web!Issued \subseteq Web!Token /\ 1 \in Web!Issued
  BY IssuedTokens
<1> QED
  BY <1>1, <1>2 DEF RowsFit

\* A request as it is answered.
IsAnswer(a, r, answer, n) ==
  /\ a = [r EXCEPT !.at = "answer", !.answer = answer, !.token = n]
  /\ a.tab = r.tab /\ a.kind = r.kind /\ a.jar = r.jar
  /\ a.at = "answer" /\ a.answer = answer /\ a.token = n

LEMMA AnswerIs ==
  ASSUME NEW r \in Request, NEW answer \in {"refused", "ok", "error"}, NEW n \in {0} \union Web!Token
  PROVE  \E a \in Request : IsAnswer(a, r, answer, n)
<1>1. PICK a \in Request : a = [r EXCEPT !.at = "answer", !.answer = answer, !.token = n]
  <2>1. [r EXCEPT !.at = "answer", !.answer = answer, !.token = n] \in Request
    BY DEF Request
  <2> QED
    BY <2>1
<1>2. /\ a.tab = r.tab /\ a.kind = r.kind /\ a.jar = r.jar
      /\ a.at = "answer" /\ a.answer = answer /\ a.token = n
  BY <1>1 DEF Request
<1> QED
  BY <1>1, <1>2 DEF IsAnswer

\* A request that leaves.
LEMMA PostIs ==
  ASSUME WebTyped, NEW t \in Tab, NEW kind \in {"refresh", "login", "logout"}
  PROVE  \E p \in Request : /\ p = Web!Post(t, kind) /\ p.tab = t /\ p.kind = kind /\ p.jar = jar
                            /\ p.at = "sent" /\ p.token = 0
<1>1. PICK p : p = Web!Post(t, kind)
  OBVIOUS
<1>2. /\ p.tab = t /\ p.kind = kind /\ p.jar = jar /\ p.at = "sent" /\ p.token = 0
  BY <1>1 DEF Web!Post
<1>3. p \in Request
  <2>1. PICK j \in Jar : j = jar
    BY DEF WebTyped
  <2>2. PICK z \in {0} \union Web!Token : z = 0
    OBVIOUS
  <2>3. p = [tab |-> t, kind |-> kind, jar |-> j, at |-> "sent", answer |-> "none", token |-> z]
    BY <1>1, <2>1, <2>2 DEF Web!Post
  <2> QED
    BY <2>3 DEF Request
<1> QED
  BY <1>1, <1>2, <1>3

LEMMA TabsAsk ==
  ASSUME WebInv, NEW t \in Tab, Web!Refresh(t) \/ Web!SignIn(t) \/ Web!SignOut(t)
  PROVE  WebInv'
<1> USE DEF WebInv
<1>1. PICK kind \in {"refresh", "login", "logout"} :
        /\ post' = post \union {Web!Post(t, kind)} /\ UNCHANGED <<row, jar, closed>>
        /\ kind = "login" => tab[t].status = "signedOut"
        /\ (Web!Slip \/ (Web!Even /\ post = {}))
  <2>1. ASSUME NEW kind \in {"refresh", "login"}, ~Web!Busy(t), Web!Send(t, kind)
        PROVE  /\ post' = post \union {Web!Post(t, kind)}
               /\ (Web!Slip \/ (Web!Even /\ post = {}))
    BY <2>1 DEF Web!Send, Web!Busy
  <2>2. CASE Web!Refresh(t)
    BY <2>1, <2>2 DEF Web!Refresh
  <2>3. CASE Web!SignIn(t)
    BY <2>1, <2>3 DEF Web!SignIn
  <2>4. CASE Web!SignOut(t)
    BY <2>4 DEF Web!SignOut
  <2> QED
    BY <2>2, <2>3, <2>4
<1>2. /\ tab' \in [Tab -> Seat]
      /\ \A u \in Tab : tab'[u].status \in {"signedIn", "signedOut"} \/ tab[u].status \in {"signedIn", "signedOut"}
                          => tab'[u].status = tab[u].status
  <2>1. CASE UNCHANGED tab
    BY <2>1 DEF WebTyped
  <2>2. CASE tab[t].status \in {"loading", "error"} /\ tab' = [tab EXCEPT ![t].status = "loading"]
    <3>1. PICK s \in Seat : s = tab[t]
      BY DEF WebTyped
    <3>2. PICK e \in Seat : e = [s EXCEPT !.status = "loading"]
      BY DEF Seat
    <3>3. e.status = "loading"
      BY <3>2 DEF Seat
    <3>4. tab' = [tab EXCEPT ![t] = e] /\ tab \in [Tab -> Seat]
      BY <2>2, <3>1, <3>2 DEF WebTyped
    <3> QED
      BY <2>2, <3>3, <3>4
  <2> QED
    BY <2>1, <2>2 DEF Web!Refresh, Web!SignIn, Web!SignOut
<1>3. PICK p \in Request : /\ p = Web!Post(t, kind) /\ p.tab = t /\ p.kind = kind /\ p.jar = jar
                           /\ p.at = "sent" /\ p.token = 0
  BY PostIs
<1>4. tangled' \in BOOLEAN /\ slips' \in 0 .. MaxSlips
  <2>1. CASE Web!Slip
    <3>1. slips' \in 0 .. MaxSlips
      BY <2>1, WebAssumption DEF Web!Slip, WebTyped
    <3> QED
      BY <2>1, <3>1 DEF Web!Slip
  <2>2. CASE Web!Even
    BY <2>2 DEF Web!Even, WebTyped
  <2> QED
    BY <1>1, <2>1, <2>2
<1>5. RowsFit'
  BY <1>1 DEF RowsFit, Web!Issued
<1>6. WebTyped'
  BY <1>1, <1>2, <1>3, <1>4 DEF WebTyped
<1>7. Web!Issued' = Web!Issued
  BY <1>1 DEF Web!Issued
<1>8. PostFits'
  BY <1>1, <1>3, <1>7 DEF PostFits, Known
<1>9. CalmFits'
  <2> SUFFICES ASSUME ~tangled' PROVE CalmFits'
    BY DEF CalmFits
  <2>1. ~tangled /\ post = {} /\ post' = {p}
    BY <1>1, <1>3 DEF Web!Slip, Web!Even
  <2>2. SomeoneIn' = SomeoneIn
    BY <1>2 DEF SomeoneIn
  <2>3. kind = "login" => tab'[t].status = "signedOut"
    BY <1>1, <1>2
  <2>4. (\E u \in Tab : tab'[u].status \in {"signedIn", "signedOut"}) => jar.plain = 0
    BY <1>2, <2>1 DEF CalmFits
  <2>5. SomeoneIn => jar.secure # 0 /\ row[jar.secure].live
    BY <2>1 DEF CalmFits
  <2> QED
    BY <1>1, <1>3, <2>1, <2>2, <2>3, <2>4, <2>5 DEF CalmFits, Refreshed
<1> QED
  BY <1>5, <1>6, <1>8, <1>9

\* While nothing is tangled, the request at hand is the only one.
LEMMA OnlyOne == ASSUME CalmFits, ~tangled, NEW r \in post PROVE post = {r}
BY DEF CalmFits

\* One request is replaced by its next form: what it carried is still known.
LEMMA PostMoves ==
  ASSUME WebInv, NEW r \in post, NEW a \in Request, post' = (post \ {r}) \union {a},
         UNCHANGED jar, Web!Issued \subseteq Web!Issued', a.jar = r.jar,
         a.token \in {0} \union Web!Issued',
         a.at = "swap" => a.kind = "refresh" /\ a.jar.secure # 0 /\ a.jar.plain = 0
  PROVE  PostFits' /\ post' \subseteq Request
BY DEF WebInv, WebTyped, PostFits, Known

LEMMA CookieIsRead == ASSUME WebInv, NEW r \in post, Web!ReadCookie(r) PROVE WebInv'
<1> USE DEF WebInv
<1>1. /\ r.kind = "refresh" /\ r.at = "sent" /\ UNCHANGED <<tangled, slips, jar, tab, closed>>
      /\ r \in Request
  BY DEF Web!ReadCookie, Web!Even, WebTyped
<1>2. PICK a \in Request :
     /\ a.tab = r.tab /\ a.kind = r.kind /\ a.jar = r.jar
     /\ a.at = "answer" /\ a.answer = "refused" /\ a.token = 0
     /\ Web!Answered(r, "refused", 0) => post' = (post \ {r}) \union {a}
  <2>1. PICK a \in Request : IsAnswer(a, r, "refused", 0)
    BY <1>1, AnswerIs
  <2> QED
    BY <2>1 DEF IsAnswer, Web!Answered
<1>3. PICK b \in Request : b = [r EXCEPT !.at = "swap"]
  BY <1>1 DEF Request
<1>4. b.tab = r.tab /\ b.kind = r.kind /\ b.jar = r.jar /\ b.at = "swap" /\ b.token = r.token
  BY <1>1, <1>3 DEF Request
<1>5. 0 \notin Web!Issued /\ 1 \in Web!Issued /\ Web!Issued \subseteq Web!Token
  BY IssuedTokens
<1>6. ~tangled => /\ post = {r} /\ r.jar = jar
                  /\ SomeoneIn => jar.plain = 0 /\ jar.secure # 0 /\ row[jar.secure].live
  BY <1>1, OnlyOne DEF CalmFits, SomeoneIn, Refreshed
<1>7. CASE Web!Cookies(r) = {} \/ Web!Ambiguous(r)
  <2>1. post' = (post \ {r}) \union {a} /\ row' = row
    BY <1>2, <1>7 DEF Web!ReadCookie
  <2>2. Web!Issued' = Web!Issued
    BY <2>1 DEF Web!Issued
  <2>3. PostFits' /\ post' \subseteq Request
    BY <1>1, <1>2, <2>1, <2>2, PostMoves
  <2>4. RowsFit'
    BY <1>1, <2>1, <2>2 DEF RowsFit
  <2>5. ~tangled => ~SomeoneIn
    <3>1. ~tangled /\ SomeoneIn => Web!Cookies(r) # {} /\ ~Web!Ambiguous(r)
      BY <1>6 DEF Web!Cookies, Web!Ambiguous
    <3> QED
      BY <1>7, <3>1
  <2>6. CalmFits'
    BY <1>1, <1>2, <1>6, <2>1, <2>5 DEF CalmFits, SomeoneIn, Refreshed
  <2> QED
    BY <1>1, <2>1, <2>3, <2>4, <2>6 DEF WebTyped
<1>8. CASE ~(Web!Cookies(r) = {} \/ Web!Ambiguous(r))
  <2>1. /\ Web!TokenOf(r) \in Web!Token
        /\ r.jar.plain = 0 => r.jar.secure # 0 /\ Web!TokenOf(r) = r.jar.secure
        /\ r.jar.plain # 0 => Web!TokenOf(r) = 1
    BY <1>1, <1>8, OneCookie
  <2>2. Web!TokenOf(r) \in Web!Issued
    BY <1>5, <2>1 DEF PostFits, Known
  <2>3. CASE row[Web!TokenOf(r)].live
    <3>1. post' = (post \ {r}) \union {b} /\ row' = row
      BY <1>3, <1>8, <2>3 DEF Web!ReadCookie
    <3>2. Web!Issued' = Web!Issued
      BY <3>1 DEF Web!Issued
    <3>3. r.jar.plain = 0 /\ r.jar.secure # 0 /\ row[r.jar.secure].live
      BY <2>1, <2>3 DEF RowsFit
    <3>4. r.token \in {0} \union Web!Issued
      BY DEF PostFits
    <3>5. PostFits' /\ post' \subseteq Request
      BY <1>1, <1>4, <3>1, <3>2, <3>3, <3>4, PostMoves
    <3>6. RowsFit'
      BY <1>1, <3>1, <3>2 DEF RowsFit
    <3>7. CalmFits'
      BY <1>1, <1>4, <1>6, <3>1, <3>3 DEF CalmFits, SomeoneIn, Refreshed
    <3> QED
      BY <1>1, <3>1, <3>5, <3>6, <3>7 DEF WebTyped
  <2>4. CASE ~row[Web!TokenOf(r)].live
    <3>1. post' = (post \ {r}) \union {a} /\ row' = Web!Revoked(Web!TokenOf(r))
      BY <1>2, <1>8, <2>4 DEF Web!ReadCookie
    <3>2. row' \in [Web!Token -> Session] /\ Web!Issued' = Web!Issued
      BY <2>2, <3>1, FamilyEnds
    <3>3. PostFits' /\ post' \subseteq Request
      BY <1>1, <1>2, <3>1, <3>2, PostMoves
    <3>4. RowsFit'
      BY <1>1, <2>2, <3>1, RowsAfterEnd
    <3>5. ~tangled => ~SomeoneIn
      BY <1>6, <2>1, <2>4
    <3>6. CalmFits'
      BY <1>1, <1>2, <1>6, <3>1, <3>5 DEF CalmFits, SomeoneIn, Refreshed
    <3> QED
      BY <1>1, <3>2, <3>3, <3>4, <3>6 DEF WebTyped
  <2> QED
    BY <2>3, <2>4
<1> QED
  BY <1>7, <1>8

\* A token is issued: it is the next one, of its own family or of a live one's.
LEMMA TokenIsIssued ==
  ASSUME WebInv, Web!Next1 \in Web!Token, UNCHANGED closed, NEW s \in Session, s.person # "nobody",
         row' \in [Web!Token -> Session], row'[Web!Next1] = s,
         s.family = Web!Next1 \/ (s.family \in Web!Issued /\ s.family \notin closed),
         \A m \in Web!Token \ {Web!Next1} : /\ row'[m].family = row[m].family
                                            /\ row'[m].person = row[m].person
                                            /\ row'[m].live => row[m].live
  PROVE  RowsFit' /\ Web!Issued' = Web!Issued \union {Web!Next1}
<1>1. PICK k \in 1 .. MaxIssued : Web!Issued = 1 .. k /\ Web!Next1 = k + 1
  BY Issuing DEF WebInv
<1>2. /\ 1 \in Web!Issued /\ Web!Issued \subseteq Web!Token
      /\ Web!Next1 \notin Web!Issued /\ Web!Next1 # 1
  BY IssuedTokens DEF WebInv
<1>3. Web!Issued' = Web!Issued \union {Web!Next1}
  BY <1>2 DEF Web!Issued
<1>4. k + 1 \in 1 .. MaxIssued /\ Web!Issued' = 1 .. (k + 1)
  BY <1>1, <1>3, WebAssumption DEF Web!Token
<1>5. Web!Next1 \notin closed
  BY <1>2 DEF WebInv, RowsFit
<1> QED
  BY <1>2, <1>3, <1>4, <1>5 DEF WebInv, RowsFit

LEMMA TokenIsSwapped == ASSUME WebInv, NEW r \in post, Web!Rotate(r) PROVE WebInv'
<1> USE DEF WebInv
<1>1. /\ r.kind = "refresh" /\ r.at = "swap" /\ UNCHANGED <<tangled, slips, jar, tab, closed>>
      /\ r \in Request
  BY DEF Web!Rotate, Web!Even, WebTyped
<1>2. r.jar.plain = 0 /\ r.jar.secure # 0 /\ r.jar.secure \in Web!Issued
  BY <1>1 DEF PostFits, Known
<1>3. Web!TokenOf(r) = r.jar.secure
  <2>1. Web!Cookies(r) # {} /\ ~Web!Ambiguous(r)
    BY <1>2 DEF Web!Cookies, Web!Ambiguous
  <2> QED
    BY <1>1, <1>2, <2>1, OneCookie
<1>4. 0 \notin Web!Issued /\ Web!Issued \subseteq Web!Token /\ Web!Next1 \notin Web!Issued
      /\ Web!Next1 # 0 /\ Web!Next1 # 1
  BY IssuedTokens
<1>5. ~tangled => post = {r} /\ r.jar = jar /\ row[jar.secure].live
  BY <1>1, OnlyOne DEF CalmFits
<1>6. CASE row[r.jar.secure].live
  <2>1. /\ Web!Next1 \in Web!Token
        /\ row' = [row EXCEPT ![r.jar.secure].live = FALSE,
                              ![Web!Next1] = [row[r.jar.secure] EXCEPT !.live = TRUE]]
        /\ Web!Answered(r, "ok", Web!Next1)
    BY <1>3, <1>6 DEF Web!Rotate
  <2>2. PICK s \in Session : s = row[r.jar.secure]
    BY <1>2, <1>4 DEF WebTyped
  <2>3. PICK old \in Session : old = [s EXCEPT !.live = FALSE]
    BY DEF Session
  <2>4. PICK new \in Session : new = [s EXCEPT !.live = TRUE]
    BY DEF Session
  <2>5. /\ old.family = s.family /\ old.person = s.person /\ ~old.live
        /\ new.family = s.family /\ new.person = s.person /\ new.live
    BY <2>3, <2>4 DEF Session
  <2>6. row \in [Web!Token -> Session] /\ row' = [row EXCEPT ![r.jar.secure] = old, ![Web!Next1] = new]
    BY <2>1, <2>2, <2>3, <2>4 DEF WebTyped
  <2>7. /\ row' \in [Web!Token -> Session] /\ row'[Web!Next1] = new
        /\ row'[r.jar.secure] = old
        /\ \A m \in Web!Token \ {Web!Next1, r.jar.secure} : row'[m] = row[m]
    <3>1. PICK n \in Web!Token, x \in Web!Token : n = r.jar.secure /\ x = Web!Next1 /\ n # x
      BY <1>2, <1>4, <2>1
    <3>2. row' = [row EXCEPT ![n] = old, ![x] = new]
      BY <2>6, <3>1
    <3> QED
      BY <2>6, <3>1, <3>2
  <2>8. s.person # "nobody" /\ s.family \in Web!Issued /\ s.family \notin closed
    BY <1>2, <1>6, <2>2 DEF RowsFit, Web!Issued
  <2>9. RowsFit' /\ Web!Issued' = Web!Issued \union {Web!Next1}
    <3>1. \A m \in Web!Token \ {Web!Next1} : /\ row'[m].family = row[m].family
                                             /\ row'[m].person = row[m].person
                                             /\ row'[m].live => row[m].live
      BY <2>2, <2>5, <2>7
    <3> QED
      BY <1>1, <2>1, <2>5, <2>7, <2>8, <3>1, TokenIsIssued
  <2>10. PICK a \in Request :
       /\ a.tab = r.tab /\ a.kind = r.kind /\ a.jar = r.jar
       /\ a.at = "answer" /\ a.answer = "ok" /\ a.token = Web!Next1
       /\ Web!Answered(r, "ok", Web!Next1) => post' = (post \ {r}) \union {a}
    <3>1. PICK a \in Request : IsAnswer(a, r, "ok", Web!Next1)
      BY <1>1, <2>1, AnswerIs
    <3> QED
      BY <3>1 DEF IsAnswer, Web!Answered
  <2>11. post' = (post \ {r}) \union {a}
    BY <2>1, <2>10
  <2>12. PostFits' /\ post' \subseteq Request
    <3>1. a.token \in {0} \union Web!Issued' /\ Web!Issued \subseteq Web!Issued'
      BY <2>9, <2>10
    <3> QED
      BY <1>1, <2>10, <2>11, <3>1, PostMoves
  <2>13. CalmFits'
    <3> SUFFICES ASSUME ~tangled' PROVE CalmFits'
      BY DEF CalmFits
    <3>1. post' = {a} /\ r.jar = jar /\ row'[a.token].live /\ jar.plain = 0
      BY <1>1, <1>2, <1>5, <2>5, <2>7, <2>10, <2>11
    <3> QED
      BY <1>1, <1>4, <2>10, <3>1 DEF CalmFits, SomeoneIn, Refreshed
  <2> QED
    BY <1>1, <2>7, <2>9, <2>12, <2>13 DEF WebTyped
<1>7. CASE ~row[r.jar.secure].live
  <2>1. row' = Web!Revoked(r.jar.secure) /\ Web!Answered(r, "refused", 0)
    BY <1>3, <1>7 DEF Web!Rotate
  <2>2. PICK a \in Request :
       /\ a.tab = r.tab /\ a.kind = r.kind /\ a.jar = r.jar
       /\ a.at = "answer" /\ a.answer = "refused" /\ a.token = 0
       /\ Web!Answered(r, "refused", 0) => post' = (post \ {r}) \union {a}
    <3>1. PICK a \in Request : IsAnswer(a, r, "refused", 0)
      BY <1>1, AnswerIs
    <3> QED
      BY <3>1 DEF IsAnswer, Web!Answered
  <2>3. post' = (post \ {r}) \union {a}
    BY <2>1, <2>2
  <2>4. row' \in [Web!Token -> Session] /\ Web!Issued' = Web!Issued
    BY <1>2, <2>1, FamilyEnds
  <2>5. PostFits' /\ post' \subseteq Request
    BY <1>1, <2>2, <2>3, <2>4, PostMoves
  <2>6. RowsFit'
    BY <1>1, <1>2, <2>1, RowsAfterEnd
  <2>7. CalmFits'
    BY <1>1, <1>5, <1>7 DEF CalmFits
  <2> QED
    BY <1>1, <2>4, <2>5, <2>6, <2>7 DEF WebTyped
<1> QED
  BY <1>6, <1>7

LEMMA SomeoneLogsIn == ASSUME WebInv, NEW r \in post, Web!Login(r) PROVE WebInv'
<1> USE DEF WebInv
<1>1. /\ r.kind = "login" /\ r.at = "sent" /\ UNCHANGED <<tangled, slips, jar, tab, closed>>
      /\ r \in Request
  BY DEF Web!Login, Web!Even, WebTyped
<1>2. /\ 0 \notin Web!Issued /\ Web!Issued \subseteq Web!Token /\ Web!Next1 \notin Web!Issued
      /\ Web!Next1 # 0
  BY IssuedTokens
<1>3. ~tangled => /\ post = {r} /\ tab[r.tab].status = "signedOut" /\ jar.plain = 0
                  /\ SomeoneIn => jar.secure # 0 /\ row[jar.secure].live
  <2>1. r.tab \in Tab
    BY <1>1 DEF Request
  <2> QED
    BY <1>1, <2>1, OnlyOne DEF CalmFits, Refreshed
<1>4. jar.secure # 0 => jar.secure \in Web!Issued
  BY DEF PostFits, Known
<1>5. ASSUME NEW a \in Request, post' = (post \ {r}) \union {a}, a.tab = r.tab, a.kind = r.kind,
             a.at = "answer", a.answer # "error",
             a.token # 0 => row'[a.token].live,
             \A m \in Web!Issued : row'[m] = row[m]
      PROVE  CalmFits'
  BY <1>1, <1>3, <1>4, <1>5 DEF CalmFits, SomeoneIn, Refreshed
<1>6. CASE Web!Answered(r, "refused", 0) /\ UNCHANGED row
  <2>1. PICK a \in Request :
           /\ a.tab = r.tab /\ a.kind = r.kind /\ a.jar = r.jar
           /\ a.at = "answer" /\ a.answer = "refused" /\ a.token = 0
           /\ Web!Answered(r, "refused", 0) => post' = (post \ {r}) \union {a}
    <3>1. PICK a \in Request : IsAnswer(a, r, "refused", 0)
      BY <1>1, AnswerIs
    <3> QED
      BY <3>1 DEF IsAnswer, Web!Answered
  <2>2. post' = (post \ {r}) \union {a}
    BY <1>6, <2>1
  <2>3. Web!Issued' = Web!Issued
    BY <1>6 DEF Web!Issued
  <2>4. PostFits' /\ post' \subseteq Request
    BY <1>1, <2>1, <2>2, <2>3, PostMoves
  <2>5. RowsFit'
    BY <1>1, <1>6, <2>3 DEF RowsFit
  <2>6. CalmFits'
    BY <1>5, <1>6, <2>1, <2>2
  <2> QED
    BY <1>1, <1>6, <2>4, <2>5, <2>6 DEF WebTyped
<1>7. CASE /\ Web!Next1 \in Web!Token
           /\ \E p \in Web!Person :
                row' = [row EXCEPT ![Web!Next1] = [person |-> p, family |-> Web!Next1, live |-> TRUE]]
           /\ Web!Answered(r, "ok", Web!Next1)
  <2>1. PICK p \in Web!Person :
          row' = [row EXCEPT ![Web!Next1] = [person |-> p, family |-> Web!Next1, live |-> TRUE]]
    BY <1>7
  <2>2. PICK x \in Web!Token : x = Web!Next1
    BY <1>7
  <2>3. PICK s \in Session : s = [person |-> p, family |-> x, live |-> TRUE]
    BY DEF Session
  <2>4. s.person # "nobody" /\ s.family = x /\ s.live
    BY <2>3 DEF Web!Person
  <2>5. row \in [Web!Token -> Session] /\ row' = [row EXCEPT ![x] = s]
    BY <2>1, <2>2, <2>3 DEF WebTyped
  <2>6. /\ row' \in [Web!Token -> Session] /\ row'[x] = s
        /\ \A m \in Web!Token \ {x} : row'[m] = row[m]
    BY <2>5
  <2>7. RowsFit' /\ Web!Issued' = Web!Issued \union {Web!Next1}
    BY <1>1, <1>7, <2>2, <2>4, <2>6, TokenIsIssued
  <2>8. PICK a \in Request :
           /\ a.tab = r.tab /\ a.kind = r.kind /\ a.jar = r.jar
           /\ a.at = "answer" /\ a.answer = "ok" /\ a.token = Web!Next1
           /\ Web!Answered(r, "ok", Web!Next1) => post' = (post \ {r}) \union {a}
    <3>1. PICK a \in Request : IsAnswer(a, r, "ok", Web!Next1)
      BY <1>1, <1>7, AnswerIs
    <3> QED
      BY <3>1 DEF IsAnswer, Web!Answered
  <2>9. post' = (post \ {r}) \union {a}
    BY <1>7, <2>8
  <2>10. PostFits' /\ post' \subseteq Request
    <3>1. a.token \in {0} \union Web!Issued' /\ Web!Issued \subseteq Web!Issued'
      BY <2>7, <2>8
    <3> QED
      BY <1>1, <2>8, <2>9, <3>1, PostMoves
  <2>11. \A m \in Web!Issued : row'[m] = row[m]
    BY <1>2, <2>2, <2>6
  <2>12. CalmFits'
    BY <1>5, <2>2, <2>4, <2>6, <2>8, <2>9, <2>11
  <2> QED
    BY <1>1, <2>6, <2>7, <2>10, <2>12 DEF WebTyped
<1> QED
  BY <1>6, <1>7 DEF Web!Login

LEMMA SomeoneLogsOut == ASSUME WebInv, NEW r \in post, Web!Logout(r) PROVE WebInv'
<1> USE DEF WebInv
<1>1. /\ r.kind = "logout" /\ r.at = "sent" /\ tangled' = TRUE /\ UNCHANGED <<slips, jar, tab>>
      /\ r \in Request /\ Web!Answered(r, "ok", 0)
  BY DEF Web!Logout, WebTyped
<1>2. PICK a \in Request :
         /\ a.tab = r.tab /\ a.kind = r.kind /\ a.jar = r.jar
         /\ a.at = "answer" /\ a.answer = "ok" /\ a.token = 0
         /\ Web!Answered(r, "ok", 0) => post' = (post \ {r}) \union {a}
  <2>1. PICK a \in Request : IsAnswer(a, r, "ok", 0)
    BY <1>1, AnswerIs
  <2> QED
    BY <2>1 DEF IsAnswer, Web!Answered
<1>3. post' = (post \ {r}) \union {a}
  BY <1>1, <1>2
<1>4. CalmFits' /\ tangled' \in BOOLEAN
  BY <1>1 DEF CalmFits
<1>5. CASE UNCHANGED <<row, closed>>
  <2>1. Web!Issued' = Web!Issued
    BY <1>5 DEF Web!Issued
  <2>2. PostFits' /\ post' \subseteq Request
    BY <1>1, <1>2, <1>3, <2>1, PostMoves
  <2>3. RowsFit'
    BY <1>5, <2>1 DEF RowsFit
  <2> QED
    BY <1>1, <1>4, <1>5, <2>2, <2>3 DEF WebTyped
<1>6. CASE /\ ~(Web!Cookies(r) = {} \/ Web!Ambiguous(r))
           /\ row' = Web!Revoked(Web!TokenOf(r))
           /\ closed' = closed \union {row[Web!TokenOf(r)].family}
  <2>1. /\ Web!TokenOf(r) \in Web!Token
        /\ r.jar.plain = 0 => r.jar.secure # 0 /\ Web!TokenOf(r) = r.jar.secure
        /\ r.jar.plain # 0 => Web!TokenOf(r) = 1
    BY <1>1, <1>6, OneCookie
  <2>2. Web!TokenOf(r) \in Web!Issued
    BY <2>1, IssuedTokens DEF PostFits, Known
  <2>3. row' \in [Web!Token -> Session] /\ Web!Issued' = Web!Issued
    BY <1>6, <2>2, FamilyEnds
  <2>4. PostFits' /\ post' \subseteq Request
    BY <1>1, <1>2, <1>3, <2>3, PostMoves
  <2>5. RowsFit'
    BY <1>6, <2>2, RowsAfterEnd
  <2> QED
    BY <1>1, <1>4, <2>3, <2>4, <2>5 DEF WebTyped
<1> QED
  BY <1>5, <1>6 DEF Web!Logout

\* A failure, and a request that is lost, tangle what goes on.
LEMMA SlipTangles ==
  ASSUME WebInv, Web!Slip, UNCHANGED <<row, jar, closed>>, tab' \in [Tab -> Seat],
         post' \subseteq Request, \A q \in post' : q \in post \/ (Known(q.jar) /\ q.token = 0 /\ q.at # "swap")
  PROVE  WebInv'
<1>1. tangled' = TRUE /\ slips' \in 0 .. MaxSlips
  BY WebAssumption DEF Web!Slip, WebInv, WebTyped
<1>2. Web!Issued' = Web!Issued
  BY DEF Web!Issued
<1>3. PostFits'
  BY <1>2 DEF WebInv, PostFits, Known
<1>4. RowsFit'
  BY <1>2 DEF WebInv, RowsFit
<1>5. WebTyped'
  BY <1>1 DEF WebInv, WebTyped
<1> QED
  BY <1>1, <1>3, <1>4, <1>5 DEF WebInv, CalmFits

LEMMA ApiFails == ASSUME WebInv, NEW r \in post, Web!Fails(r) PROVE WebInv'
<1>1. /\ Web!Slip /\ Web!Answered(r, "error", 0) /\ UNCHANGED <<row, jar, tab, closed>> /\ r \in Request
      /\ tab' \in [Tab -> Seat]
  BY DEF Web!Fails, WebInv, WebTyped
<1>2. PICK a \in Request :
         /\ a.tab = r.tab /\ a.kind = r.kind /\ a.jar = r.jar
         /\ a.at = "answer" /\ a.answer = "error" /\ a.token = 0
         /\ Web!Answered(r, "error", 0) => post' = (post \ {r}) \union {a}
  <2>1. PICK a \in Request : IsAnswer(a, r, "error", 0)
    BY <1>1, AnswerIs
  <2> QED
    BY <2>1 DEF IsAnswer, Web!Answered
<1>3. post' = (post \ {r}) \union {a} /\ Known(a.jar) /\ post \subseteq Request
  BY <1>1, <1>2 DEF WebInv, PostFits, WebTyped
<1> QED
  BY <1>1, <1>2, <1>3, SlipTangles

LEMMA RequestIsLost == ASSUME WebInv, NEW r \in post, Web!Lost(r) PROVE WebInv'
<1>1. Web!Slip /\ post' = post \ {r} /\ UNCHANGED <<row, jar, closed>> /\ post' \subseteq Request
  BY DEF Web!Lost, WebInv, WebTyped
<1>2. tab' \in [Tab -> Seat]
  <2>1. r.tab \in Tab /\ tab \in [Tab -> Seat]
    BY DEF WebInv, WebTyped, Request
  <2>2. PICK s \in Seat : s = tab[r.tab]
    BY <2>1
  <2>3. [status |-> "signedOut", access |-> "none"] \in Seat /\ [s EXCEPT !.status = "error"] \in Seat
    BY DEF Seat
  <2>4. CASE r.kind = "logout"
    <3>1. tab' = [tab EXCEPT ![r.tab] = [status |-> "signedOut", access |-> "none"]]
      BY <2>4 DEF Web!Lost
    <3> QED
      BY <2>1, <2>3, <3>1
  <2>5. CASE r.kind # "logout" /\ r.kind = "refresh" /\ tab[r.tab].status = "loading"
    <3>1. tab' = [tab EXCEPT ![r.tab] = [s EXCEPT !.status = "error"]]
      BY <2>2, <2>5 DEF Web!Lost
    <3> QED
      BY <2>1, <2>3, <3>1
  <2>6. CASE r.kind # "logout" /\ ~(r.kind = "refresh" /\ tab[r.tab].status = "loading")
    <3>1. tab' = [tab EXCEPT ![r.tab] = s]
      BY <2>2, <2>6 DEF Web!Lost
    <3> QED
      BY <2>1, <3>1
  <2> QED
    BY <2>4, <2>5, <2>6
<1> QED
  BY <1>1, <1>2, SlipTangles

\* What the jar holds after an answer.
LEMMA JarIs ==
  ASSUME WebInv, NEW r \in post
  PROVE  /\ Web!JarAfter(r) \in Jar /\ Known(Web!JarAfter(r))
         /\ r.token # 0 => Web!JarAfter(r).secure = r.token /\ Web!JarAfter(r).plain = jar.plain
         /\ r.token = 0 /\ r.kind # "login" => Web!JarAfter(r).plain = 0
         /\ r.token = 0 /\ r.kind = "login" => Web!JarAfter(r) = jar
<1>1. PICK j \in Jar : j = jar
  BY DEF WebInv, WebTyped
<1>2. PICK n \in {0} \union Web!Issued : n = r.token
  BY DEF WebInv, PostFits
<1>3. Web!Issued \subseteq Web!Token /\ n \in {0} \union Web!Token
  BY IssuedTokens DEF WebInv
<1>4. PICK e \in Jar : e = [j EXCEPT !.secure = n]
  BY <1>3 DEF Jar
<1>5. e.secure = n /\ e.plain = j.plain
  BY <1>4 DEF Jar
<1>6. Web!NoCookie \in Jar /\ Web!NoCookie.plain = 0 /\ Web!NoCookie.secure = 0
  BY DEF Web!NoCookie, Jar
<1>7. Known(jar)
  BY DEF WebInv, PostFits
<1>8. Web!JarAfter(r) = IF r.token # 0 THEN e ELSE IF r.kind = "login" THEN jar ELSE Web!NoCookie
  BY <1>1, <1>2, <1>4 DEF Web!JarAfter, Web!Emptied
<1> QED
  BY <1>1, <1>2, <1>5, <1>6, <1>7, <1>8 DEF Known

LEMMA AnswerIsReceived == ASSUME WebInv, NEW r \in post, Web!Receive(r) PROVE WebInv'
<1> USE DEF WebInv
<1>1. r.at = "answer" /\ jar' = Web!JarAfter(r) /\ UNCHANGED <<row, closed>> /\ r \in Request /\ r.tab \in Tab
  BY DEF Web!Receive, WebTyped, Request
<1>2. PICK t \in Tab : t = r.tab
  BY <1>1
<1>3. PICK person \in Web!Person \union {"none"} :
        person = IF r.token = 0 THEN "none" ELSE row[r.token].person
  <2>1. r.token # 0 => row[r.token].person \in Web!Person
    <3>1. r.token # 0 => r.token \in Web!Issued /\ r.token \in Web!Token
      BY IssuedTokens DEF PostFits
    <3> QED
      BY <3>1 DEF WebTyped, Session, Web!Issued
  <2> QED
    BY <2>1
<1>4. /\ Web!JarAfter(r) \in Jar /\ Known(Web!JarAfter(r))
      /\ r.token # 0 => Web!JarAfter(r).secure = r.token /\ Web!JarAfter(r).plain = jar.plain
      /\ r.token = 0 /\ r.kind # "login" => Web!JarAfter(r).plain = 0
      /\ r.token = 0 /\ r.kind = "login" => Web!JarAfter(r) = jar
  BY JarIs
<1>5. Web!Issued' = Web!Issued /\ RowsFit'
  BY <1>1 DEF RowsFit, Web!Issued
<1>6. jar' \in Jar /\ Known(jar)'
  BY <1>1, <1>4, <1>5 DEF Known
<1> DEFINE enters == r.kind = "login" \/ tab[t].status = "loading"
<1>7. CASE r.token # 0 /\ enters /\ person = "reporter"
  <2>1. Web!Bounce(r) /\ Web!TabAfter(t, tab[t].status, person)
    BY <1>2, <1>3, <1>7 DEF Web!Receive
  <2>2. tangled' = TRUE /\ slips' = slips
    BY <2>1 DEF Web!Bounce
  <2>3. tab' \in [Tab -> Seat]
    <3>1. PICK s \in Seat : s = [status |-> tab[t].status, access |-> person]
      BY DEF WebTyped, Seat
    <3> QED
      BY <2>1, <3>1 DEF Web!TabAfter, WebTyped
  <2>4. PICK p \in Request : /\ p = Web!Post(t, "logout") /\ p.tab = t /\ p.kind = "logout" /\ p.jar = jar
                             /\ p.at = "sent" /\ p.token = 0
    BY PostIs
  <2>5. PICK j \in Jar : j = Web!JarAfter(r)
    BY <1>4
  <2>6. PICK b \in Request : b = [p EXCEPT !.jar = j]
    BY DEF Request
  <2>7. b.jar = j /\ b.at = "sent" /\ b.token = 0
    BY <2>4, <2>6 DEF Request
  <2>8. post' = (post \ {r}) \union {b}
    BY <1>2, <2>1, <2>4, <2>5, <2>6 DEF Web!Bounce
  <2>9. PostFits'
    BY <1>4, <1>5, <1>6, <2>5, <2>7, <2>8 DEF PostFits, Known
  <2>10. WebTyped'
    BY <1>1, <1>6, <2>2, <2>3, <2>8 DEF WebTyped
  <2> QED
    BY <1>5, <2>2, <2>9, <2>10 DEF CalmFits
<1>8. CASE ~(r.token # 0 /\ enters /\ person = "reporter")
  <2>1. /\ post' = post \ {r} /\ Web!Even
        /\ CASE r.token # 0 /\ enters -> Web!TabAfter(t, "signedIn", person)
             [] r.token # 0 /\ ~enters -> Web!TabAfter(t, tab[t].status, person)
             [] r.answer = "error" /\ enters -> Web!TabAfter(t, "error", "none")
             [] r.answer = "error" /\ ~enters -> UNCHANGED tab
             [] OTHER -> Web!TabAfter(t, "signedOut", "none")
    BY <1>2, <1>3, <1>8 DEF Web!Receive
  <2>2. tangled' = tangled /\ slips' = slips
    BY <2>1 DEF Web!Even
  <2>3. \/ /\ r.token # 0 /\ Web!TabAfter(t, "signedIn", person)
        \/ /\ r.token # 0 /\ ~enters /\ Web!TabAfter(t, tab[t].status, person)
        \/ /\ r.answer = "error" /\ (Web!TabAfter(t, "error", "none") \/ UNCHANGED tab)
        \/ /\ r.token = 0 /\ Web!TabAfter(t, "signedOut", "none")
    BY <2>1
  <2>4. tab' \in [Tab -> Seat] /\ \A u \in Tab \ {t} : tab'[u] = tab[u]
    <3>1. ASSUME NEW status \in {"loading", "error", "signedOut", "signedIn"},
                 NEW access \in Web!Person \union {"none"}, Web!TabAfter(t, status, access)
          PROVE  tab' \in [Tab -> Seat] /\ \A u \in Tab \ {t} : tab'[u] = tab[u]
      <4>1. [status |-> status, access |-> access] \in Seat
        BY DEF Seat
      <4> QED
        BY <3>1, <4>1 DEF Web!TabAfter, WebTyped
    <3>2. tab[t].status \in {"loading", "error", "signedOut", "signedIn"}
      BY DEF WebTyped, Seat
    <3> QED
      BY <2>3, <3>1, <3>2 DEF WebTyped
  <2>5. PostFits'
    BY <1>5, <1>6, <2>1 DEF PostFits, Known
  <2>6. WebTyped'
    BY <1>1, <1>6, <2>1, <2>2, <2>4 DEF WebTyped
  <2>7. CalmFits'
    <3> SUFFICES ASSUME ~tangled PROVE CalmFits'
      BY <2>2 DEF CalmFits
    <3>1. post = {r} /\ post' = {} /\ r.kind # "logout" /\ r.answer # "error"
      BY <1>1, <2>1, OnlyOne DEF CalmFits
    <3>2. r.kind = "login" => tab[t].status = "signedOut" /\ jar.plain = 0
      BY <1>2, <3>1 DEF CalmFits
    <3>3. r.token # 0 => row[r.token].live /\ jar.plain = 0
      BY <1>1, <3>1, <3>2 DEF CalmFits, Request
    <3>4. /\ SomeoneIn /\ r.kind = "refresh" => r.token # 0
          /\ SomeoneIn /\ r.kind # "refresh" => jar.secure # 0 /\ row[jar.secure].live
      BY <1>1, <3>1 DEF CalmFits, Refreshed
    <3>5. r.kind \in {"refresh", "login"}
      BY <1>1, <3>1 DEF Request
    <3>6. CASE r.token # 0
      <4>1. jar'.secure # 0 /\ row'[jar'.secure].live /\ jar'.plain = 0
        BY <1>1, <1>4, <3>3, <3>6
      <4> QED
        BY <3>1, <4>1 DEF CalmFits
    <3>7. CASE r.token = 0
      <4>1. tab'[t].status = "signedOut"
        BY <2>3, <3>1, <3>7 DEF Web!TabAfter, WebTyped
      <4>2. jar'.plain = 0
        BY <1>1, <1>4, <3>2, <3>5, <3>7
      <4>3. SomeoneIn' => SomeoneIn
        BY <2>4, <4>1 DEF SomeoneIn
      <4>4. SomeoneIn' => jar'.secure # 0 /\ row'[jar'.secure].live
        BY <1>1, <1>4, <3>4, <3>5, <3>7, <4>3
      <4> QED
        BY <3>1, <4>2, <4>4 DEF CalmFits
    <3> QED
      BY <3>6, <3>7
  <2> QED
    BY <1>5, <2>5, <2>6, <2>7
<1> QED
  BY <1>7, <1>8

LEMMA WebStays == ASSUME WebInv, UNCHANGED webVars PROVE WebInv'
<1>1. UNCHANGED <<row, jar, tab, post, closed, tangled, slips>>
  BY DEF webVars
<1>2. Web!Issued' = Web!Issued
  BY <1>1 DEF Web!Issued
<1> QED
  BY <1>1, <1>2 DEF WebInv, WebTyped, RowsFit, PostFits, Known, CalmFits, SomeoneIn, Refreshed

LEMMA WebSteps == ASSUME WebInv, Web!WebNext \/ UNCHANGED webVars PROVE WebInv'
BY WebStays, TabsAsk, CookieIsRead, TokenIsSwapped, SomeoneLogsIn, SomeoneLogsOut, ApiFails,
   AnswerIsReceived, RequestIsLost DEF Web!WebNext

LEMMA WebHolds == ASSUME WebInv PROVE Web!WebTypeOK /\ Web!SignOutCloses
<1>1. Web!SignOutCloses
  BY DEF WebInv, RowsFit, Web!SignOutCloses
<1>2. Web!WebTypeOK
  <2>1. row \in [Web!Token -> Session] /\ tab \in [Tab -> Seat] /\ post \subseteq Request
        /\ slips \in 0 .. MaxSlips
    BY DEF WebInv, WebTyped
  <2>2. jar \in [secure : {0} \union Web!Token, plain : {0} \union Web!Token]
    <3>1. {0, 1} \subseteq {0} \union Web!Token
      BY WebAssumption DEF Web!Token
    <3> QED
      BY <3>1 DEF WebInv, WebTyped, Jar
  <2>3. closed \subseteq Web!Token
    BY IssuedTokens DEF WebInv, RowsFit
  <2> QED
    BY <2>1, <2>2, <2>3 DEF Web!WebTypeOK, Session, Seat, Request
<1> QED
  BY <1>1, <1>2

\* KeptWhileCalm's step: only an answer changes who is signed in while all is calm, and no
\* answer is a refusal then.
LEMMA CalmStep ==
  ASSUME WebInv, Web!WebNext \/ UNCHANGED webVars,
         NEW t \in Tab, tab[t].status = "signedIn", ~tangled'
  PROVE  tab'[t].status = "signedIn"
<1>1. CASE UNCHANGED tab
  BY <1>1
<1>2. ASSUME NEW u \in Tab, Web!Refresh(u) \/ Web!SignIn(u) \/ Web!SignOut(u)
      PROVE  tab'[t].status = "signedIn"
  <2>1. CASE UNCHANGED tab
    BY <2>1
  <2>2. CASE tab[u].status \in {"loading", "error"} /\ tab' = [tab EXCEPT ![u].status = "loading"]
    <3>1. u # t
      BY <2>2
    <3> QED
      BY <2>2, <3>1 DEF WebInv, WebTyped
  <2> QED
    BY <1>2, <2>1, <2>2 DEF Web!Refresh, Web!SignIn, Web!SignOut
<1>3. ASSUME NEW r \in post, Web!Receive(r) PROVE tab'[t].status = "signedIn"
  <2>1. r.at = "answer" /\ r \in Request
    BY <1>3 DEF Web!Receive, WebInv, WebTyped
  <2>2. tangled' = tangled
    BY <1>3 DEF Web!Receive, Web!Bounce, Web!Even
  <2>3. post = {r} /\ r.kind \in {"refresh", "login"} /\ r.answer # "error"
    BY <2>1, <2>2, OnlyOne DEF WebInv, CalmFits, Request
  <2>4. r.kind = "login" => r.tab # t
    BY <2>2 DEF WebInv, CalmFits
  <2>5. r.kind = "refresh" => r.token # 0
    BY <2>1, <2>2 DEF WebInv, CalmFits, SomeoneIn, Refreshed
  <2>6. PICK person \in Web!Person \union {"none"} :
          person = IF r.token = 0 THEN "none" ELSE row[r.token].person
    <3>1. r.token # 0 => row[r.token].person \in Web!Person
      <4>1. r.token # 0 => r.token \in Web!Issued /\ r.token \in Web!Token
        BY IssuedTokens DEF WebInv, PostFits
      <4> QED
        BY <4>1 DEF WebInv, WebTyped, Session, Web!Issued
    <3> QED
      BY <3>1
  <2>7. \E status, access : Web!TabAfter(r.tab, status, access) \/ UNCHANGED tab
    BY <1>3 DEF Web!Receive
  <2>8. CASE r.tab # t
    BY <2>7, <2>8 DEF Web!TabAfter, WebInv, WebTyped
  <2>9. CASE r.tab = t
    <3>1. r.token # 0 /\ r.kind = "refresh"
      BY <2>3, <2>4, <2>5, <2>9
    <3>2. ~(r.kind = "login" \/ tab[t].status = "loading")
      BY <3>1
    <3>3. PICK tt \in Tab : tt = r.tab /\ tt = t
      BY <2>9
    <3> DEFINE enters == r.kind = "login" \/ tab[tt].status = "loading"
    <3>4. ~enters
      BY <3>2, <3>3
    <3>5. /\ r.token # 0 /\ enters /\ person = "reporter" => FALSE
          /\ CASE r.token # 0 /\ enters -> Web!TabAfter(tt, "signedIn", person)
               [] r.token # 0 /\ ~enters -> Web!TabAfter(tt, tab[tt].status, person)
               [] r.answer = "error" /\ enters -> Web!TabAfter(tt, "error", "none")
               [] r.answer = "error" /\ ~enters -> UNCHANGED tab
               [] OTHER -> Web!TabAfter(tt, "signedOut", "none")
      BY <1>3, <2>6, <3>3, <3>4 DEF Web!Receive
    <3>6. Web!TabAfter(tt, tab[tt].status, person)
      <4> HIDE DEF enters
      <4> QED
        BY <2>3, <3>1, <3>4, <3>5
    <3> QED
      BY <3>3, <3>6 DEF Web!TabAfter, WebInv, WebTyped
  <2> QED
    BY <2>8, <2>9
<1>4. ASSUME NEW r \in post,
             Web!ReadCookie(r) \/ Web!Rotate(r) \/ Web!Login(r) \/ Web!Logout(r) \/ Web!Fails(r)
      PROVE  UNCHANGED tab
  BY <1>4 DEF Web!ReadCookie, Web!Rotate, Web!Login, Web!Logout, Web!Fails
<1>5. ASSUME NEW r \in post, Web!Lost(r) PROVE FALSE
  BY <1>5 DEF Web!Lost, Web!Slip
<1> QED
  BY <1>1, <1>2, <1>3, <1>4, <1>5 DEF Web!WebNext, webVars

-------------------------------------------------------------------------------
(* The probe of a deployment *)

ProbeTyped ==
  /\ Probe!ProbesTypeOK /\ front \in Seq(Aired)
  /\ probe = [pc |-> probe.pc, id |-> probe.id, codes |-> probe.codes, warned |-> probe.warned]
  /\ probe.id \in Aired \union {"none"}

\* What the probe has found so far has a cause, unless something happened beside it.
ProbeFits ==
  /\ probe.pc \in {"playback", "media"} => probe.id \in Aired
  /\ probe.pc = "routes" => probe.codes = {}
  /\ probe.pc # "judged" /\ ~disturbed => (probe.codes = {} \/ api # "up")
  /\ probe.pc # "judged" => probe.warned = {}
  /\ probe.pc = "playback" /\ ~disturbed => Probe!Published(probe.id)
  /\ probe.pc = "judged" =>
       /\ Probe!PassIsReachable
       /\ Probe!AlarmHasCause

ProbeInv == ProbeTyped /\ ProbeFits

LEMMA ProbeBegins == ASSUME Probe!ProbesInit PROVE ProbeInv
<1>1. /\ probe = [pc |-> "routes", id |-> "none", codes |-> {}, warned |-> {}]
      /\ reached = {} /\ disturbed = FALSE /\ turns = 0
  BY DEF Probe!ProbesInit, Probe!Idle
<1>2. front \in Seq(Aired)
  <2>1. CASE front = <<>>
    BY <2>1
  <2>2. ASSUME NEW c \in Aired, front = <<c>> PROVE front \in Seq(Aired)
    BY <2>2
  <2> QED
    BY <2>1, <2>2 DEF Probe!ProbesInit
<1>3. object \in [Aired -> Probe!Answer]
  BY DEF Probe!ProbesInit
<1>4. /\ probe.pc = "routes" /\ probe.id = "none" /\ probe.codes = {} /\ probe.warned = {}
  BY <1>1
<1>5. Probe!ProbesTypeOK
  <2>1. /\ api \in {"up", "noDb", "lacking", "down"}
        /\ host \in [kind : Probe!HostKind, octets : Octets, https : BOOLEAN]
    BY DEF Probe!ProbesInit
  <2>2. turns \in 0 .. MaxTurns
    BY <1>1, ProbeAssumption
  <2>3. /\ probe.pc \in {"routes", "feed", "playback", "media", "judged"}
        /\ reached \subseteq Aired /\ disturbed \in BOOLEAN
    BY <1>1, <1>4
  <2> QED
    BY <1>3, <2>1, <2>2, <2>3 DEF Probe!ProbesTypeOK
<1> QED
  BY <1>1, <1>2, <1>4, <1>5 DEF ProbeInv, ProbeTyped, ProbeFits

\* The leading octets of the private networks and of the overlay are those that their
\* prefixes say (classifyHostFailures).
LEMMA PrivateIs ==
  ASSUME NEW o \in (0 .. 255) \X (0 .. 255)
  PROVE  Probe!IsPrivateIpv4(o) <=>
           LET high == 256 * o[1] + o[2]
           IN  \/ high \div 256 = 10 \/ high \div 16 = 16 * 172 + 1
               \/ high = 256 * 192 + 168 \/ high \div 64 = 4 * 100 + 1
<1>1. PICK a \in 0 .. 255, b \in 0 .. 255 : o = <<a, b>> /\ o[1] = a /\ o[2] = b
  <2>1. o[1] \in 0 .. 255 /\ o[2] \in 0 .. 255 /\ o = <<o[1], o[2]>>
    OBVIOUS
  <2> QED
    BY <2>1
<1>2. (256 * a + b) \div 256 = a
  BY <1>1
<1>3. (256 * a + b) \div 16 = 16 * 172 + 1 <=> a = 172 /\ b \in 16 .. 31
  BY <1>1
<1>4. 256 * a + b = 256 * 192 + 168 <=> a = 192 /\ b = 168
  BY <1>1
<1>5. (256 * a + b) \div 64 = 4 * 100 + 1 <=> a = 100 /\ b \in 64 .. 127
  BY <1>1
<1>6. o = <<192, 168>> <=> a = 192 /\ b = 168
  BY <1>1
<1> QED
  BY <1>1, <1>2, <1>3, <1>4, <1>5, <1>6 DEF Probe!IsPrivateIpv4

\* Nothing is wrong with a host that a visitor can reach, and with no other.
LEMMA RoutableIs ==
  ASSUME ProbeInv
  PROVE  Probe!ClassifyHostFailures = {} <=> Probe!Routable
<1>1. /\ host.octets \in (0 .. 255) \X (0 .. 255) /\ host.https \in BOOLEAN
      /\ host.kind \in {"name", "ipv4", "loopback", "internal"}
  BY ProbeAssumption DEF ProbeInv, ProbeTyped, Probe!ProbesTypeOK, Probe!HostKind
<1>2. Probe!Routable <=>
        /\ host.https /\ host.kind \in {"name", "ipv4"}
        /\ host.kind = "ipv4" => ~Probe!IsPrivateIpv4(host.octets)
  BY <1>1, PrivateIs DEF Probe!Routable
<1>3. Probe!ClassifyHostFailures = {} <=>
        /\ host.https /\ host.kind \notin {"loopback", "internal"}
        /\ ~(host.kind = "ipv4" /\ Probe!IsPrivateIpv4(host.octets))
  BY <1>1 DEF Probe!ClassifyHostFailures
<1> QED
  BY <1>1, <1>2, <1>3

\* A judgement adds what it finds.
LEMMA Judged ==
  ASSUME ProbeInv, NEW C, Probe!Judge(C)
  PROVE  /\ probe' = [pc |-> "judged", id |-> probe.id, codes |-> probe.codes \union C,
                      warned |-> probe.warned]
         /\ probe'.pc = "judged" /\ probe'.id = probe.id /\ probe'.warned = probe.warned
         /\ probe'.codes = probe.codes \union C
BY DEF Probe!Judge, ProbeInv, ProbeTyped

LEMMA ProbeAsks ==
  ASSUME ProbeInv, Probe!ProbeRoutes \/ Probe!ReadFeed \/ Probe!ReadPlayback
  PROVE  ProbeInv'
<1>1. UNCHANGED <<api, front, object, host, turns, disturbed, reached>>
  BY DEF Probe!ProbeRoutes, Probe!ReadFeed, Probe!ReadPlayback, Probe!At
<1>2. /\ Probe!ProbesTypeOK /\ front \in Seq(Aired) /\ probe.id \in Aired \union {"none"}
      /\ probe = [pc |-> probe.pc, id |-> probe.id, codes |-> probe.codes, warned |-> probe.warned]
  BY DEF ProbeInv, ProbeTyped
<1>3. CASE Probe!ProbeRoutes
  <2>1. PICK C : C = Probe!RouteFailures
    OBVIOUS
  <2>2. C = {} \/ api # "up"
    BY <1>2, <2>1 DEF Probe!RouteFailures, Probe!ProbesTypeOK
  <2>3. probe' = [pc |-> "feed", id |-> probe.id, codes |-> C, warned |-> probe.warned]
    BY <1>2, <1>3, <2>1 DEF Probe!ProbeRoutes
  <2>4. /\ probe'.pc = "feed" /\ probe'.id = probe.id /\ probe'.codes = C
        /\ probe'.warned = probe.warned /\ probe.warned = {}
    BY <2>3, <1>3 DEF Probe!ProbeRoutes, Probe!At, ProbeInv, ProbeFits
  <2>5. ProbeTyped'
    BY <1>1, <1>2, <2>3, <2>4 DEF ProbeTyped, Probe!ProbesTypeOK
  <2> QED
    BY <1>1, <2>2, <2>4, <2>5 DEF ProbeInv, ProbeFits
<1>4. ASSUME NEW C, Probe!Judge(C), probe.pc \in {"feed", "playback"}, C # {}, ~disturbed => api # "up"
      PROVE  ProbeInv'
  <2>1. ProbeTyped'
    BY <1>1, <1>2, <1>4, Judged DEF ProbeTyped, Probe!ProbesTypeOK
  <2>2. probe'.pc = "judged" /\ probe'.codes # {}
    BY <1>4, Judged
  <2> QED
    BY <1>1, <1>4, <2>1, <2>2
       DEF ProbeInv, ProbeFits, Probe!PassIsReachable, Probe!AlarmHasCause
<1>5. CASE Probe!ReadFeed
  <2>1. probe.pc = "feed" /\ probe.warned = {} /\ (~disturbed => probe.codes = {} \/ api # "up")
    BY <1>5 DEF Probe!ReadFeed, Probe!At, ProbeInv, ProbeFits
  <2>2. CASE api \in {"noDb", "down"}
    BY <1>4, <1>5, <2>1, <2>2 DEF Probe!ReadFeed
  <2>3. CASE api \notin {"noDb", "down"} /\ front = <<>>
    <3>1. probe' = [pc |-> "judged", id |-> probe.id, codes |-> probe.codes, warned |-> {"empty-feed"}]
      BY <1>2, <1>5, <2>3 DEF Probe!ReadFeed
    <3>2. /\ probe'.pc = "judged" /\ probe'.id = probe.id /\ probe'.codes = probe.codes
          /\ probe'.warned # {}
      BY <3>1
    <3>3. ProbeTyped'
      BY <1>1, <1>2, <3>1, <3>2 DEF ProbeTyped, Probe!ProbesTypeOK
    <3> QED
      BY <1>1, <2>1, <3>2, <3>3
         DEF ProbeInv, ProbeFits, Probe!PassIsReachable, Probe!AlarmHasCause
  <2>4. CASE api \notin {"noDb", "down"} /\ front # <<>>
    <3>1. probe' = [pc |-> "playback", id |-> front[1], codes |-> probe.codes, warned |-> probe.warned]
      BY <1>2, <1>5, <2>4 DEF Probe!ReadFeed
    <3>2. /\ probe'.pc = "playback" /\ probe'.id = front[1] /\ probe'.codes = probe.codes
          /\ probe'.warned = probe.warned
      BY <3>1
    <3>3. front[1] \in Aired /\ 1 \in DOMAIN front
      BY <1>2, <2>4
    <3>4. ProbeTyped'
      BY <1>1, <1>2, <3>1, <3>2, <3>3 DEF ProbeTyped, Probe!ProbesTypeOK
    <3>5. Probe!Published(probe.id)'
      BY <1>1, <3>2, <3>3 DEF Probe!Published
    <3> QED
      BY <1>1, <2>1, <3>2, <3>3, <3>4, <3>5 DEF ProbeInv, ProbeFits
  <2> QED
    BY <2>2, <2>3, <2>4
<1>6. CASE Probe!ReadPlayback
  <2>1. /\ probe.pc = "playback" /\ probe.id \in Aired /\ probe.warned = {}
        /\ ~disturbed => Probe!Published(probe.id) /\ (probe.codes = {} \/ api # "up")
    BY <1>6 DEF Probe!ReadPlayback, Probe!At, ProbeInv, ProbeFits
  <2>2. CASE api \in {"noDb", "down"} \/ ~Probe!Published(probe.id)
    BY <1>4, <1>6, <2>1, <2>2 DEF Probe!ReadPlayback
  <2>3. CASE ~(api \in {"noDb", "down"} \/ ~Probe!Published(probe.id))
    <3>1. probe' = [pc |-> "media", id |-> probe.id, codes |-> probe.codes, warned |-> probe.warned]
      BY <1>2, <1>6, <2>3 DEF Probe!ReadPlayback
    <3>2. /\ probe'.pc = "media" /\ probe'.id = probe.id /\ probe'.codes = probe.codes
          /\ probe'.warned = probe.warned
      BY <3>1
    <3>3. ProbeTyped'
      BY <1>1, <1>2, <3>1, <3>2 DEF ProbeTyped, Probe!ProbesTypeOK
    <3> QED
      BY <1>1, <2>1, <3>2, <3>3 DEF ProbeInv, ProbeFits
  <2> QED
    BY <2>2, <2>3
<1> QED
  BY <1>3, <1>5, <1>6

LEMMA ProbeFetches == ASSUME ProbeInv, Probe!FetchMedia PROVE ProbeInv'
<1>1. /\ probe.pc = "media" /\ probe.id \in Aired /\ probe.warned = {}
      /\ ~disturbed => probe.codes = {} \/ api # "up"
      /\ UNCHANGED <<api, front, object, host, turns, disturbed>>
  BY DEF Probe!FetchMedia, Probe!At, ProbeInv, ProbeFits
<1>2. /\ Probe!ProbesTypeOK /\ front \in Seq(Aired) /\ object[probe.id] \in Probe!Answer
      /\ "none" \notin Aired
  BY <1>1, ProbeAssumption DEF ProbeInv, ProbeTyped, Probe!ProbesTypeOK
<1>3. PICK C : /\ Probe!Judge(C)
               /\ C = IF Probe!ClassifyHostFailures # {} THEN Probe!ClassifyHostFailures
                      ELSE Probe!Reachability(object[probe.id])
  BY DEF Probe!FetchMedia
<1>4. Probe!Reachability(object[probe.id]) = {} <=> object[probe.id] = "video"
  BY <1>2 DEF Probe!Reachability, Probe!Answer
<1>5. C = {} <=> Probe!Routable /\ object[probe.id] = "video"
  BY <1>3, <1>4, RoutableIs
<1>6. reached' = IF Probe!Routable /\ object[probe.id] = "video" THEN {probe.id} ELSE {}
  BY DEF Probe!FetchMedia
<1>7. /\ probe'.pc = "judged" /\ probe'.id = probe.id /\ probe'.warned = probe.warned
      /\ probe'.codes = probe.codes \union C
      /\ probe' = [pc |-> probe'.pc, id |-> probe'.id, codes |-> probe'.codes, warned |-> probe'.warned]
  BY <1>3, Judged
<1>8. ProbeTyped'
  BY <1>1, <1>2, <1>6, <1>7 DEF ProbeTyped, Probe!ProbesTypeOK
<1>9. Probe!Routable' <=> Probe!Routable
  BY <1>1 DEF Probe!Routable
<1>10. Probe!PassIsReachable'
  BY <1>5, <1>6, <1>7 DEF Probe!PassIsReachable
<1>11. Probe!AlarmHasCause'
  BY <1>1, <1>2, <1>5, <1>7, <1>9 DEF Probe!AlarmHasCause
<1> QED
  BY <1>7, <1>8, <1>10, <1>11 DEF ProbeInv, ProbeFits

LEMMA BesideProbe ==
  ASSUME ProbeInv, Probe!Publish \/ Probe!Archive \/ Probe!Change
  PROVE  ProbeInv'
<1>1. /\ turns' \in 0 .. MaxTurns /\ disturbed' = (disturbed \/ probe.pc # "routes")
      /\ UNCHANGED <<host, probe, reached>>
  BY ProbeAssumption
     DEF Probe!Publish, Probe!Archive, Probe!Change, Probe!Beside, ProbeInv, ProbeTyped,
         Probe!ProbesTypeOK
<1>2. front' \in Seq(Aired)
  <2>1. front \in Seq(Aired)
    BY DEF ProbeInv, ProbeTyped
  <2>2. ASSUME NEW c \in Aired, front' = <<c>> \o front PROVE front' \in Seq(Aired)
    BY <2>1, <2>2
  <2>3. ASSUME NEW i \in DOMAIN front,
               front' = SubSeq(front, 1, i - 1) \o SubSeq(front, i + 1, Len(front))
        PROVE  front' \in Seq(Aired)
    <3>1. i \in 1 .. Len(front) /\ Len(front) \in Nat
      BY <2>1
    <3>2. SubSeq(front, 1, i - 1) \in Seq(Aired) /\ SubSeq(front, i + 1, Len(front)) \in Seq(Aired)
      BY <2>1, <3>1, SubSeqProperties
    <3> QED
      BY <2>3, <3>2
  <2> QED
    BY <2>1, <2>2, <2>3 DEF Probe!Publish, Probe!Archive, Probe!Change, Probe!RemoveAt
<1>3. /\ api' \in {"up", "noDb", "lacking", "down"}
      /\ object' \in [Aired -> Probe!Answer]
  BY DEF Probe!Publish, Probe!Archive, Probe!Change, ProbeInv, ProbeTyped, Probe!ProbesTypeOK
<1>4. ProbeTyped'
  BY <1>1, <1>2, <1>3 DEF ProbeInv, ProbeTyped, Probe!ProbesTypeOK
<1>5. CASE probe.pc = "routes"
  BY <1>1, <1>4, <1>5 DEF ProbeInv, ProbeFits
<1>6. CASE probe.pc # "routes"
  BY <1>1, <1>4, <1>6 DEF ProbeInv, ProbeFits, Probe!PassIsReachable, Probe!AlarmHasCause
<1> QED
  BY <1>5, <1>6

LEMMA ProbeSteps == ASSUME ProbeInv, Probe!ProbesNext \/ UNCHANGED probeVars PROVE ProbeInv'
<1>1. CASE UNCHANGED probeVars
  BY <1>1 DEF probeVars, ProbeInv, ProbeTyped, ProbeFits, Probe!ProbesTypeOK, Probe!Published,
              Probe!PassIsReachable, Probe!AlarmHasCause, Probe!Routable
<1> QED
  BY <1>1, ProbeAsks, ProbeFetches, BesideProbe DEF Probe!ProbesNext

LEMMA ProbeHolds ==
  ASSUME ProbeInv
  PROVE  Probe!ProbesTypeOK /\ Probe!PassIsReachable /\ Probe!AlarmHasCause
BY DEF ProbeInv, ProbeTyped, ProbeFits, Probe!PassIsReachable, Probe!AlarmHasCause

-------------------------------------------------------------------------------
(* A viewer's page of a broadcast *)

Course == {"preparing", "live", "interrupted", "ended"}
Public == [status : {"none"} \union Course, url : BOOLEAN]
JoinTask == [n : Nat, pc : {"load", "enter", "answer"}, row : Public, at : Nat]
Notice == [to : Course \ {"preparing"}, at : Nat]

LiveTyped ==
  /\ Viewer!ViewingTypeOK /\ broadcast \in Course /\ playable \in BOOLEAN
  /\ initial \in Public /\ session \in Public
  /\ current \in Nat /\ entered \in Nat
  /\ joined \in BOOLEAN /\ member \in BOOLEAN /\ crossed \in BOOLEAN
  /\ joinTasks \subseteq JoinTask /\ notices \in Seq(Notice)
  /\ player \in [n : Nat, failed : BOOLEAN]

\* What is on the screen, and what runs.
ScreenFits == Viewer!OnePlayerRuns /\ (player.failed => Viewer!ShownUrl)

\* Outside of the room nothing of it is left.
Away ==
  /\ session = Viewer!NoSession /\ current = 0 /\ ~joined /\ entered = 0 /\ joinTasks = {}
  /\ ~member /\ notices = <<>> /\ ~crossed

\* What is on its way to the page are the latest moves, each once and in order.
NoticesFit ==
  /\ Len(notices) <= moves /\ (~member => notices = <<>>)
  /\ \A k \in 1 .. Len(notices) :
       /\ notices[k].at + Len(notices) = moves + k
       /\ notices[k].at = 1 => notices[k].to \in {"live", "ended"}
       /\ notices[k].to = "ended" => broadcast = "ended" /\ k = Len(notices)
       /\ k = Len(notices) => notices[k].to = broadcast

\* What a join has read was so when it was read.
TasksFit ==
  \A j \in joinTasks :
    /\ j.at <= moves
    /\ j.pc # "load" =>
         /\ j.row.status \in {"preparing", "live", "interrupted"}
         /\ j.row.url <=> j.row.status # "preparing"
         /\ j.row.status = "preparing" => j.at = 0
         /\ j.at = moves => j.row.status = broadcast

\* What the page shows was so when it was told.
PageFits ==
  /\ broadcast = "preparing" <=> moves = 0
  /\ current <= moves
  /\ session.status = "none" => ~session.url
  /\ joined => session.status # "none"
  /\ session.status = "preparing" => current = 0
  /\ session.status = "ended" => broadcast = "ended" /\ notices = <<>>
  /\ session.status # "none" /\ current = moves => session.status = broadcast

\* What the page has missed it will hear, unless answers crossed: from its room or from the
\* answer of a join that is on its way.
HeardFits ==
  ~crossed =>
    /\ member => moves <= entered + Len(notices) \/ moves <= current + Len(notices)
    /\ joined /\ joinTasks = {} =>
         /\ member => moves <= current + Len(notices)
         /\ session.status \in {"live", "interrupted"} => session.url

RoomFits == (stage # "room" => Away) /\ NoticesFit /\ TasksFit /\ PageFits /\ HeardFits

LiveInv == LiveTyped /\ ScreenFits /\ RoomFits

LEMMA NoSessionIs ==
  /\ Viewer!NoSession \in Public /\ Viewer!NoSession.status = "none" /\ ~Viewer!NoSession.url
  /\ \A s \in Public : s.status = "none" /\ ~s.url => s = Viewer!NoSession
BY DEF Viewer!NoSession, Public

\* A page that is away fits whatever goes on.
LEMMA AwayFits ==
  ASSUME Away, moves \in Nat, broadcast = "preparing" <=> moves = 0
  PROVE  RoomFits
BY NoSessionIs DEF Away, RoomFits, NoticesFit, TasksFit, PageFits, HeardFits

LEMMA LiveBegins == ASSUME Viewer!ViewingInit PROVE LiveInv
<1>1. /\ broadcast = "preparing" /\ moves = 0 /\ playable \in BOOLEAN /\ stage = "loading"
      /\ initial = Viewer!NoSession /\ session = Viewer!NoSession /\ current = 0
      /\ joined = FALSE /\ entered = 0 /\ joinTasks = {} /\ member = FALSE /\ notices = <<>>
      /\ crossed = FALSE /\ player = [n |-> 0, failed |-> FALSE] /\ running = {}
      /\ sent = 0 /\ faults = 0
  BY DEF Viewer!ViewingInit, Viewer!NoPlayer
<1>2. Away
  BY <1>1 DEF Away
<1>3. RoomFits
  BY <1>1, <1>2, AwayFits
<1>4. player.failed = FALSE /\ ~Viewer!ShownUrl
  BY <1>1 DEF Viewer!ShownUrl
<1>5. ScreenFits
  BY <1>1, <1>4 DEF ScreenFits, Viewer!OnePlayerRuns
<1>6. moves \in 0 .. MaxMoves /\ sent \in 0 .. MaxJoinsSent /\ faults \in 0 .. MaxFaults
  BY <1>1, LiveAssumption
<1>7. Viewer!ViewingTypeOK
  BY <1>1, <1>6 DEF Viewer!ViewingTypeOK
<1>8. player \in [n : Nat, failed : BOOLEAN] /\ notices \in Seq(Notice)
  BY <1>1
<1>9. LiveTyped
  BY <1>1, <1>7, <1>8, NoSessionIs DEF LiveTyped, Course
<1> QED
  BY <1>3, <1>5, <1>9 DEF LiveInv

-------------------------------------------------------------------------------
(* Its player *)

\* A page that is drawn again runs the player of the url it has now (HlsVideo).
LEMMA Rendered ==
  ASSUME LiveInv, NEW s, NEW url \in BOOLEAN, Viewer!Render(s, url),
         stage' = s, Viewer!ShownUrl' <=> url, playable' = playable
  PROVE  ScreenFits' /\ player' \in [n : Nat, failed : BOOLEAN]
<1>0. player \in [n : Nat, failed : BOOLEAN] /\ ScreenFits
  BY DEF LiveInv, LiveTyped
<1>1. PICK p \in [n : Nat, failed : BOOLEAN] : p = player
  BY <1>0
<1>2. CASE s = stage /\ url = Viewer!ShownUrl
  <2>1. UNCHANGED <<player, running>>
    BY <1>2 DEF Viewer!Render, Viewer!screen
  <2> QED
    BY <1>0, <1>2, <2>1 DEF ScreenFits, Viewer!OnePlayerRuns
<1>3. CASE ~(s = stage /\ url = Viewer!ShownUrl) /\ url
  <2>1. Viewer!Mount(player.n + 1)
    BY <1>3 DEF Viewer!Render
  <2>2. /\ player' = [n |-> p.n + 1, failed |-> FALSE]
        /\ running' = IF playable THEN {p.n + 1} ELSE {}
    BY <1>1, <2>1 DEF Viewer!Mount
  <2>3. player'.n = p.n + 1 /\ player'.failed = FALSE /\ p.n + 1 \in Nat
    BY <1>1, <2>2
  <2> QED
    BY <1>3, <2>2, <2>3 DEF ScreenFits, Viewer!OnePlayerRuns
<1>4. CASE ~(s = stage /\ url = Viewer!ShownUrl) /\ ~url
  <2>1. player' = [player EXCEPT !.failed = FALSE] /\ running' = {}
    BY <1>4 DEF Viewer!Render
  <2>2. player' \in [n : Nat, failed : BOOLEAN] /\ player'.failed = FALSE
    BY <1>0, <2>1
  <2> QED
    BY <1>4, <2>1, <2>2 DEF ScreenFits, Viewer!OnePlayerRuns
<1> QED
  BY <1>2, <1>3, <1>4

\* A page that is not drawn anew keeps its player.
LEMMA ScreenStays ==
  ASSUME LiveInv, UNCHANGED <<player, running, playable>>, Viewer!ShownUrl' <=> Viewer!ShownUrl
  PROVE  ScreenFits' /\ player' \in [n : Nat, failed : BOOLEAN]
BY DEF LiveInv, LiveTyped, ScreenFits, Viewer!OnePlayerRuns

LEMMA StreamStops == ASSUME LiveInv, Viewer!StreamFails \/ Viewer!Retry PROVE LiveInv'
<1>0. PICK p \in [n : Nat, failed : BOOLEAN] : p = player
  BY DEF LiveInv, LiveTyped
<1>1. /\ UNCHANGED <<broadcast, moves, playable, stage, initial, session, current, joined, crossed>>
      /\ UNCHANGED <<entered, joinTasks, member, notices, sent>>
  BY DEF Viewer!StreamFails, Viewer!Retry, Viewer!air, Viewer!page, Viewer!known, Viewer!link,
         Viewer!bounds
<1>2. faults' \in 0 .. MaxFaults
  <2>1. faults \in 0 .. MaxFaults /\ (faults' = faults \/ (faults < MaxFaults /\ faults' = faults + 1))
    BY DEF Viewer!StreamFails, Viewer!Retry, Viewer!Fault, Viewer!bounds, LiveInv, LiveTyped,
           Viewer!ViewingTypeOK
  <2> QED
    BY <2>1, LiveAssumption
<1>3. Viewer!ShownUrl' = Viewer!ShownUrl
  BY <1>1 DEF Viewer!ShownUrl
<1>4. ScreenFits' /\ player' \in [n : Nat, failed : BOOLEAN]
  <2>1. CASE Viewer!Retry
    <3>1. p.failed /\ Viewer!ShownUrl
      BY <1>0, <2>1 DEF Viewer!Retry, LiveInv, ScreenFits
    <3>2. /\ player' = [n |-> p.n + 1, failed |-> FALSE]
          /\ running' = IF playable THEN {p.n + 1} ELSE {}
      BY <1>0, <2>1 DEF Viewer!Retry, Viewer!Mount
    <3>3. player'.n = p.n + 1 /\ player'.failed = FALSE /\ p.n + 1 \in Nat
      BY <1>0, <3>2
    <3> QED
      BY <1>1, <1>3, <3>1, <3>2, <3>3 DEF ScreenFits, Viewer!OnePlayerRuns
  <2>2. CASE Viewer!StreamFails
    <3>1. PICK n \in running : running' = running \ {n} /\ player' = [player EXCEPT !.failed = TRUE]
      BY <2>2 DEF Viewer!StreamFails
    <3>2. running = {p.n} /\ Viewer!ShownUrl
      BY <1>0, <3>1 DEF LiveInv, ScreenFits, Viewer!OnePlayerRuns
    <3>3. player'.failed = TRUE /\ player' \in [n : Nat, failed : BOOLEAN]
      BY <1>0, <3>1
    <3> QED
      BY <1>1, <1>3, <3>1, <3>2, <3>3 DEF ScreenFits, Viewer!OnePlayerRuns
  <2> QED
    BY <2>1, <2>2
<1>5. LiveTyped'
  BY <1>1, <1>2, <1>4 DEF LiveInv, LiveTyped, Viewer!ViewingTypeOK
<1>6. RoomFits'
  BY <1>1 DEF LiveInv, RoomFits, Away, NoticesFit, TasksFit, PageFits, HeardFits
<1> QED
  BY <1>4, <1>5, <1>6 DEF LiveInv

-------------------------------------------------------------------------------
(* Its stages *)

\* What Public makes of the status of a session.
LEMMA PublicIs ==
  ASSUME NEW s \in Course
  PROVE  /\ Viewer!Public(s) \in Public /\ Viewer!Public(s).status = s
         /\ Viewer!Public(s).url <=> s \in {"live", "interrupted"}
<1>1. CASE s \in {"live", "interrupted"}
  <2>1. (s \in {"live", "interrupted"}) = TRUE
    BY <1>1
  <2>2. Viewer!Public(s) = [status |-> s, url |-> TRUE]
    BY <2>1 DEF Viewer!Public
  <2> QED
    BY <1>1, <2>2 DEF Public
<1>2. CASE s \notin {"live", "interrupted"}
  <2>1. (s \in {"live", "interrupted"}) = FALSE
    BY <1>2
  <2>2. Viewer!Public(s) = [status |-> s, url |-> FALSE]
    BY <2>1 DEF Viewer!Public
  <2> QED
    BY <1>2, <2>2 DEF Public
<1> QED
  BY <1>1, <1>2

LEMMA FaultCounts ==
  ASSUME LiveInv, faults' = faults \/ (faults < MaxFaults /\ faults' = faults + 1)
  PROVE  faults' \in 0 .. MaxFaults
<1>1. faults \in 0 .. MaxFaults
  BY DEF LiveInv, LiveTyped, Viewer!ViewingTypeOK
<1> QED
  BY <1>1, LiveAssumption

\* A page that leaves the room, or was not in it.
LEMMA PageLeaves ==
  ASSUME LiveInv, Away', UNCHANGED <<broadcast, moves, playable>>,
         stage' \in {"loading", "failed", "notFound", "gate", "left"},
         initial' \in Public, sent' = sent, faults' \in 0 .. MaxFaults,
         joined' \in BOOLEAN, member' \in BOOLEAN, crossed' \in BOOLEAN,
         ScreenFits', player' \in [n : Nat, failed : BOOLEAN]
  PROVE  LiveInv'
<1>1. /\ Viewer!ViewingTypeOK /\ broadcast \in Course /\ playable \in BOOLEAN /\ moves \in Nat
      /\ broadcast = "preparing" <=> moves = 0
  BY LiveAssumption DEF LiveInv, LiveTyped, Viewer!ViewingTypeOK, RoomFits, PageFits
<1>2. /\ session' \in Public /\ current' \in Nat /\ entered' \in Nat
      /\ joinTasks' \subseteq JoinTask /\ notices' \in Seq(Notice) /\ joinTasks' = {}
  <2>1. <<>> \in Seq(Notice)
    OBVIOUS
  <2> QED
    BY <2>1, NoSessionIs DEF Away, Viewer!NoSession
<1>3. LiveTyped'
  BY <1>1, <1>2 DEF LiveTyped, Viewer!ViewingTypeOK
<1>4. RoomFits'
  BY <1>1, NoSessionIs
     DEF Away, RoomFits, NoticesFit, TasksFit, PageFits, HeardFits, Viewer!NoSession
<1> QED
  BY <1>3, <1>4 DEF LiveInv

LEMMA SessionIsRead == ASSUME LiveInv, Viewer!Read PROVE LiveInv'
<1>1. /\ UNCHANGED <<broadcast, moves, playable, sent>> /\ stage \in {"loading", "gate", "room"}
      /\ broadcast \in Course /\ session \in Public /\ initial \in Public
      /\ joined \in BOOLEAN /\ member \in BOOLEAN /\ crossed \in BOOLEAN
  BY DEF Viewer!Read, Viewer!air, LiveInv, LiveTyped
<1>2. faults' \in 0 .. MaxFaults
  <2>1. faults' = faults \/ (faults < MaxFaults /\ faults' = faults + 1)
    BY DEF Viewer!Read, Viewer!Joinable
  <2> QED
    BY <2>1, FaultCounts
<1>3. PICK url \in BOOLEAN : /\ Viewer!Render(stage', url) /\ (Viewer!ShownUrl' <=> url)
                             /\ initial' \in Public
  <2>1. CASE /\ Viewer!Joinable /\ initial' = Viewer!Public(broadcast)
             /\ stage = "room" /\ stage' = "room" /\ Viewer!Render("room", session.url)
             /\ UNCHANGED <<session, current, joined, crossed>>
    BY <1>1, <2>1, PublicIs DEF Viewer!ShownUrl, Public
  <2>2. CASE /\ Viewer!Joinable /\ initial' = Viewer!Public(broadcast)
             /\ stage # "room" /\ stage' = "gate" /\ Viewer!Render("gate", initial'.url)
    BY <1>1, <2>2, PublicIs DEF Viewer!ShownUrl, Public
  <2>3. CASE /\ stage' \in {"failed", "notFound"} /\ Viewer!Render(stage', FALSE)
             /\ UNCHANGED initial
    BY <1>1, <2>3 DEF Viewer!ShownUrl
  <2> QED
    BY <2>1, <2>2, <2>3 DEF Viewer!Read, Viewer!known
<1>4. ScreenFits' /\ player' \in [n : Nat, failed : BOOLEAN]
  BY <1>1, <1>3, Rendered
<1>5. CASE Viewer!LeaveRoom /\ stage' \in {"failed", "notFound"}
  <2>1. Away' /\ joined' \in BOOLEAN /\ member' \in BOOLEAN /\ crossed' \in BOOLEAN
    BY <1>5 DEF Viewer!LeaveRoom, Away, Viewer!NoSession
  <2> QED
    BY <1>1, <1>2, <1>3, <1>4, <1>5, <2>1, PageLeaves
<1>6. CASE /\ stage' = IF stage = "room" THEN "room" ELSE "gate"
           /\ UNCHANGED <<session, current, joined, crossed, entered, joinTasks, member, notices>>
  <2>1. LiveTyped'
    BY <1>1, <1>2, <1>3, <1>4, <1>6 DEF LiveInv, LiveTyped, Viewer!ViewingTypeOK
  <2>2. RoomFits'
    BY <1>1, <1>6 DEF LiveInv, RoomFits, Away, NoticesFit, TasksFit, PageFits, HeardFits
  <2> QED
    BY <1>4, <2>1, <2>2 DEF LiveInv
<1> QED
  BY <1>5, <1>6 DEF Viewer!Read, Viewer!known, Viewer!link

LEMMA PageIsLeft == ASSUME LiveInv, Viewer!AnswerError \/ Viewer!Leave PROVE LiveInv'
<1>1. /\ UNCHANGED <<broadcast, moves, playable, sent, faults, initial>>
      /\ stage' \in {"loading", "left"} /\ ~Viewer!ShownUrl'
      /\ initial \in Public /\ faults \in 0 .. MaxFaults
      /\ joined \in BOOLEAN /\ member \in BOOLEAN /\ crossed \in BOOLEAN
  BY DEF Viewer!AnswerError, Viewer!Leave, Viewer!air, Viewer!bounds, Viewer!ShownUrl, LiveInv,
         LiveTyped, Viewer!ViewingTypeOK
<1>2. CASE Viewer!AnswerError
  <2>1. /\ UNCHANGED <<player, running>> /\ ~Viewer!ShownUrl
        /\ UNCHANGED <<session, current, joined, crossed, entered, joinTasks, member, notices>>
        /\ stage # "room"
    BY <1>2 DEF Viewer!AnswerError, Viewer!known, Viewer!link, Viewer!screen, Viewer!ShownUrl
  <2>2. ScreenFits' /\ player' \in [n : Nat, failed : BOOLEAN]
    BY <1>1, <2>1, ScreenStays
  <2>3. Away'
    BY <2>1 DEF LiveInv, RoomFits, Away, Viewer!NoSession
  <2> QED
    BY <1>1, <2>1, <2>2, <2>3, PageLeaves
<1>3. CASE Viewer!Leave
  <2>1. Viewer!Render("left", FALSE) /\ stage' = "left"
    BY <1>3 DEF Viewer!Leave
  <2>2. ScreenFits' /\ player' \in [n : Nat, failed : BOOLEAN]
    BY <1>1, <2>1, Rendered
  <2>3. Away' /\ joined' \in BOOLEAN /\ member' \in BOOLEAN /\ crossed' \in BOOLEAN
    BY <1>3 DEF Viewer!Leave, Viewer!LeaveRoom, Away, Viewer!NoSession
  <2> QED
    BY <1>1, <2>2, <2>3, PageLeaves
<1> QED
  BY <1>2, <1>3

\* A join that is sent.
LEMMA JoinIsSent ==
  ASSUME LiveInv, Viewer!SendJoin
  PROVE  /\ sent' \in 0 .. MaxJoinsSent
         /\ \E j \in JoinTask : /\ joinTasks' = joinTasks \union {j}
                                /\ j.pc = "load" /\ j.at = 0
<1>1. sent \in 0 .. MaxJoinsSent /\ sent < MaxJoinsSent /\ sent' = sent + 1
  BY DEF Viewer!SendJoin, LiveInv, LiveTyped, Viewer!ViewingTypeOK
<1>2. sent' \in 0 .. MaxJoinsSent /\ sent' \in Nat
  BY <1>1, LiveAssumption
<1>3. Viewer!Join(sent') \in JoinTask /\ Viewer!Join(sent').pc = "load" /\ Viewer!Join(sent').at = 0
  BY <1>2, NoSessionIs DEF Viewer!Join, JoinTask
<1> QED
  BY <1>2, <1>3 DEF Viewer!SendJoin

LEMMA RoomIsJoined == ASSUME LiveInv, Viewer!Enter \/ Viewer!Connect PROVE LiveInv'
<1>1. /\ UNCHANGED <<broadcast, moves, playable, initial, session, current, joined, crossed>>
      /\ UNCHANGED <<entered, member, notices, faults>>
      /\ stage' = "room" /\ Viewer!SendJoin
  BY DEF Viewer!Enter, Viewer!Connect, Viewer!air, Viewer!page, Viewer!known
<1>2. PICK j \in JoinTask : joinTasks' = joinTasks \union {j} /\ j.pc = "load" /\ j.at = 0
  BY <1>1, JoinIsSent
<1>3. /\ LiveTyped /\ RoomFits /\ moves \in Nat
  BY LiveAssumption DEF LiveInv, LiveTyped, Viewer!ViewingTypeOK
<1>4. ScreenFits' /\ player' \in [n : Nat, failed : BOOLEAN]
  <2>1. CASE Viewer!Enter
    <3>1. Viewer!Render("room", FALSE) /\ session = Viewer!NoSession
      BY <1>3, <2>1 DEF Viewer!Enter, RoomFits, Away
    <3>2. ~Viewer!ShownUrl'
      BY <1>1, <3>1, NoSessionIs DEF Viewer!ShownUrl
    <3> QED
      BY <1>1, <3>1, <3>2, Rendered
  <2>2. CASE Viewer!Connect
    <3>1. UNCHANGED <<player, running, stage>>
      BY <2>2 DEF Viewer!Connect, Viewer!screen, Viewer!page
    <3> QED
      BY <1>1, <3>1, ScreenStays DEF Viewer!ShownUrl
  <2> QED
    BY <2>1, <2>2
<1>5. LiveTyped'
  <2>1. joinTasks' \subseteq JoinTask /\ sent' \in 0 .. MaxJoinsSent
    BY <1>1, <1>2, <1>3, JoinIsSent DEF LiveTyped
  <2>2. Viewer!ViewingTypeOK'
    BY <1>1, <1>2, <1>3, <2>1 DEF LiveTyped, Viewer!ViewingTypeOK
  <2> QED
    BY <1>1, <1>3, <1>4, <2>1, <2>2 DEF LiveTyped
<1>6. TasksFit'
  BY <1>1, <1>2, <1>3 DEF RoomFits, TasksFit
<1>7. joinTasks' # {} /\ NoticesFit' /\ PageFits' /\ HeardFits'
  BY <1>1, <1>2, <1>3 DEF RoomFits, NoticesFit, PageFits, HeardFits
<1> QED
  BY <1>1, <1>4, <1>5, <1>6, <1>7 DEF LiveInv, RoomFits

LEMMA RoomIsLost == ASSUME LiveInv, Viewer!Disconnect PROVE LiveInv'
<1>1. /\ UNCHANGED <<broadcast, moves, playable, initial, session, current, crossed>>
      /\ UNCHANGED <<entered, stage, player, running, sent>>
      /\ stage = "room" /\ member' = FALSE /\ notices' = <<>> /\ joinTasks' = {}
      /\ joined' = (joined /\ joinTasks = {})
      /\ faults < MaxFaults /\ faults' = faults + 1
  BY DEF Viewer!Disconnect, Viewer!Fault, Viewer!air, Viewer!page, Viewer!screen
<1>2. LiveTyped /\ RoomFits /\ moves \in Nat
  BY LiveAssumption DEF LiveInv, LiveTyped, Viewer!ViewingTypeOK
<1>3. ScreenFits' /\ player' \in [n : Nat, failed : BOOLEAN]
  BY <1>1, ScreenStays DEF Viewer!ShownUrl
<1>4. joined' \in BOOLEAN /\ (joined' => joined /\ joinTasks = {})
  BY <1>1, <1>2 DEF LiveTyped
<1>5. LiveTyped'
  <2>1. <<>> \in Seq(Notice)
    OBVIOUS
  <2>2. faults' \in 0 .. MaxFaults
    BY <1>1, FaultCounts
  <2> QED
    BY <1>1, <1>2, <1>3, <1>4, <2>1, <2>2 DEF LiveTyped, Viewer!ViewingTypeOK
<1>6. RoomFits'
  BY <1>1, <1>2, <1>4 DEF RoomFits, NoticesFit, TasksFit, PageFits, HeardFits
<1> QED
  BY <1>3, <1>5, <1>6 DEF LiveInv

-------------------------------------------------------------------------------
(* Its room *)

\* Only in the room there are joins on their way.
LEMMA JoinersAreIn == ASSUME LiveInv, joinTasks # {} PROVE stage = "room"
BY DEF LiveInv, RoomFits, Away

LEMMA JoinIsLoaded == ASSUME LiveInv, NEW j \in joinTasks, Viewer!LoadForJoin(j) PROVE LiveInv'
<1>1. /\ UNCHANGED <<broadcast, moves, playable, stage, initial, session, current, crossed>>
      /\ UNCHANGED <<entered, member, notices, player, running, sent, faults>>
      /\ j.pc = "load" /\ joined' = (joined /\ broadcast # "ended")
      /\ joinTasks' = (joinTasks \ {j}) \union
           (IF broadcast # "ended"
            THEN {[j EXCEPT !.pc = "enter", !.row = Viewer!Public(broadcast), !.at = moves]}
            ELSE {})
  BY DEF Viewer!LoadForJoin, Viewer!air, Viewer!page, Viewer!screen, Viewer!bounds, Viewer!Joinable
<1>2. /\ LiveTyped /\ RoomFits /\ moves \in Nat /\ broadcast \in Course /\ j \in JoinTask
      /\ stage = "room"
  BY LiveAssumption, JoinersAreIn DEF LiveInv, LiveTyped, Viewer!ViewingTypeOK
<1>3. ScreenFits' /\ player' \in [n : Nat, failed : BOOLEAN]
  BY <1>1, ScreenStays DEF Viewer!ShownUrl
<1>4. joined' \in BOOLEAN /\ (joined' <=> joined /\ broadcast # "ended")
  BY <1>1, <1>2 DEF LiveTyped
<1>5. PICK p \in Public : p = Viewer!Public(broadcast)
  BY <1>2, PublicIs
<1>6. PICK i \in JoinTask : /\ i = [j EXCEPT !.pc = "enter", !.row = p, !.at = moves]
                            /\ i.pc = "enter" /\ i.row = p /\ i.at = moves
  <2>1. PICK i \in JoinTask : i = [j EXCEPT !.pc = "enter", !.row = p, !.at = moves]
    BY <1>2 DEF JoinTask
  <2>2. i.pc = "enter" /\ i.row = p /\ i.at = moves
    BY <1>2, <2>1 DEF JoinTask
  <2> QED
    BY <2>1, <2>2
<1>7. joinTasks' = (joinTasks \ {j}) \union (IF broadcast # "ended" THEN {i} ELSE {})
  BY <1>1, <1>5, <1>6
<1>8. LiveTyped'
  <2>1. joinTasks' \subseteq JoinTask
    BY <1>2, <1>6, <1>7 DEF LiveTyped
  <2>2. ASSUME NEW k \in joinTasks' PROVE k.pc \in {"load", "enter", "answer"} /\ k.at <= moves
    <3>1. CASE k \in joinTasks
      BY <1>2, <3>1 DEF LiveTyped, Viewer!ViewingTypeOK
    <3>2. CASE k = i
      <4>1. moves <= moves
        BY <1>2
      <4> QED
        BY <1>6, <3>2, <4>1
    <3> QED
      BY <1>7, <3>1, <3>2
  <2>3. Viewer!ViewingTypeOK'
    BY <1>1, <1>2, <2>2 DEF LiveTyped, Viewer!ViewingTypeOK
  <2> QED
    BY <1>1, <1>2, <1>3, <1>4, <2>1, <2>3 DEF LiveTyped
<1>9. TasksFit'
  <2>1. ASSUME NEW k \in joinTasks', k \in joinTasks
        PROVE  /\ k.at <= moves
               /\ k.pc # "load" =>
                    /\ k.row.status \in {"preparing", "live", "interrupted"}
                    /\ k.row.url <=> k.row.status # "preparing"
                    /\ k.row.status = "preparing" => k.at = 0
                    /\ k.at = moves => k.row.status = broadcast
    BY <1>2, <2>1 DEF RoomFits, TasksFit
  <2>2. broadcast # "ended" =>
          /\ i.at <= moves /\ p.status = broadcast
          /\ p.status \in {"preparing", "live", "interrupted"}
          /\ p.url <=> p.status # "preparing"
          /\ p.status = "preparing" => i.at = 0
    BY <1>2, <1>5, <1>6, PublicIs DEF RoomFits, PageFits, Course
  <2> QED
    BY <1>1, <1>6, <1>7, <2>1, <2>2 DEF TasksFit
<1>10. NoticesFit' /\ PageFits'
  BY <1>1, <1>2, <1>4 DEF RoomFits, NoticesFit, PageFits
<1>11. HeardFits'
  <2>1. joined' => joined /\ joinTasks' # {}
    BY <1>4, <1>7
  <2> QED
    BY <1>1, <1>2, <2>1 DEF RoomFits, HeardFits
<1> QED
  BY <1>1, <1>2, <1>3, <1>8, <1>9, <1>10, <1>11 DEF LiveInv, RoomFits

LEMMA RoomIsEntered == ASSUME LiveInv, NEW j \in joinTasks, Viewer!EnterRoom(j) PROVE LiveInv'
<1>1. /\ UNCHANGED <<broadcast, moves, playable, stage, initial, session, current, crossed, joined>>
      /\ UNCHANGED <<notices, player, running, sent, faults>>
      /\ j.pc = "enter" /\ member' = TRUE /\ entered' = IF member THEN entered ELSE moves
      /\ joinTasks' = (joinTasks \ {j}) \union {[j EXCEPT !.pc = "answer"]}
  BY DEF Viewer!EnterRoom, Viewer!air, Viewer!page, Viewer!screen, Viewer!bounds, Viewer!known
<1>2. /\ LiveTyped /\ RoomFits /\ moves \in Nat /\ j \in JoinTask /\ stage = "room"
  BY LiveAssumption, JoinersAreIn DEF LiveInv, LiveTyped, Viewer!ViewingTypeOK
<1>3. ScreenFits' /\ player' \in [n : Nat, failed : BOOLEAN]
  BY <1>1, ScreenStays DEF Viewer!ShownUrl
<1>4. PICK i \in JoinTask : /\ i = [j EXCEPT !.pc = "answer"]
                            /\ i.pc = "answer" /\ i.row = j.row /\ i.at = j.at
  <2>1. PICK i \in JoinTask : i = [j EXCEPT !.pc = "answer"]
    BY <1>2 DEF JoinTask
  <2>2. i.pc = "answer" /\ i.row = j.row /\ i.at = j.at
    BY <1>2, <2>1 DEF JoinTask
  <2> QED
    BY <2>1, <2>2
<1>5. joinTasks' = (joinTasks \ {j}) \union {i}
  BY <1>1, <1>4
<1>6. LiveTyped'
  <2>1. joinTasks' \subseteq JoinTask
    BY <1>2, <1>4, <1>5 DEF LiveTyped
  <2>2. Viewer!ViewingTypeOK'
    BY <1>1, <1>2, <1>4, <1>5 DEF LiveTyped, Viewer!ViewingTypeOK
  <2>3. entered' \in Nat /\ member' \in BOOLEAN
    BY <1>1, <1>2 DEF LiveTyped
  <2> QED
    BY <1>1, <1>2, <1>3, <2>1, <2>2, <2>3 DEF LiveTyped
<1>7. TasksFit'
  BY <1>1, <1>2, <1>4, <1>5 DEF RoomFits, TasksFit
<1>8. NoticesFit' /\ PageFits'
  BY <1>1, <1>2 DEF RoomFits, NoticesFit, PageFits
<1>9. HeardFits'
  <2>1. joinTasks' # {}
    BY <1>5
  <2>2. ~member => notices = <<>> /\ entered' = moves
    BY <1>1, <1>2 DEF RoomFits, NoticesFit
  <2> QED
    BY <1>1, <1>2, <2>1, <2>2 DEF RoomFits, HeardFits
<1> QED
  BY <1>1, <1>2, <1>3, <1>6, <1>7, <1>8, <1>9 DEF LiveInv, RoomFits

LEMMA JoinIsAnswered == ASSUME LiveInv, NEW j \in joinTasks, Viewer!AnswerJoin(j) PROVE LiveInv'
<1>1. /\ UNCHANGED <<broadcast, moves, playable, stage, initial, entered, member, notices>>
      /\ UNCHANGED <<sent, faults>>
      /\ j.pc = "answer" /\ joinTasks' = joinTasks \ {j}
      /\ session' = j.row /\ current' = j.at /\ joined' = TRUE
      /\ crossed' = (j.at # moves /\ (crossed \/ j.at < current \/ j.at < entered))
      /\ Viewer!Render(stage, j.row.url)
  BY DEF Viewer!AnswerJoin, Viewer!air, Viewer!page, Viewer!bounds
<1>2. /\ LiveTyped /\ RoomFits /\ moves \in Nat /\ j \in JoinTask /\ stage = "room"
      /\ j.row \in Public /\ j.at \in Nat /\ Len(notices) \in Nat
  BY LiveAssumption, JoinersAreIn DEF LiveInv, LiveTyped, Viewer!ViewingTypeOK, JoinTask
<1>3. /\ j.row.status \in {"preparing", "live", "interrupted"} /\ j.at <= moves
      /\ j.row.url <=> j.row.status # "preparing"
      /\ j.row.status = "preparing" => j.at = 0
      /\ j.at = moves => j.row.status = broadcast
  BY <1>1, <1>2 DEF RoomFits, TasksFit
<1>4. ScreenFits' /\ player' \in [n : Nat, failed : BOOLEAN]
  <2>1. Viewer!ShownUrl' <=> j.row.url
    BY <1>1, <1>2 DEF Viewer!ShownUrl
  <2>2. j.row.url \in BOOLEAN
    BY <1>2 DEF Public
  <2> QED
    BY <1>1, <2>1, <2>2, Rendered
<1>5. crossed' \in BOOLEAN
  BY <1>1
<1>6. LiveTyped'
  <2>1. joinTasks' \subseteq joinTasks
    BY <1>1
  <2>2. Viewer!ViewingTypeOK'
    BY <1>1, <1>2, <2>1 DEF LiveTyped, Viewer!ViewingTypeOK
  <2> QED
    BY <1>1, <1>2, <1>4, <1>5, <2>1, <2>2 DEF LiveTyped
<1>7. TasksFit' /\ NoticesFit'
  BY <1>1, <1>2 DEF RoomFits, TasksFit, NoticesFit
<1>8. PageFits'
  BY <1>1, <1>2, <1>3 DEF RoomFits, PageFits
<1>9. HeardFits'
  <2>1. ASSUME ~crossed', member' PROVE moves <= j.at + Len(notices)
    <3>1. CASE j.at = moves
      BY <1>2, <3>1
    <3>2. CASE j.at # moves
      <4>1. ~crossed /\ ~(j.at < current) /\ ~(j.at < entered)
        BY <1>1, <2>1, <3>2
      <4>2. current \in Nat /\ entered \in Nat
        BY <1>2 DEF LiveTyped
      <4>3. moves <= entered + Len(notices) \/ moves <= current + Len(notices)
        BY <1>1, <1>2, <2>1, <4>1 DEF RoomFits, HeardFits
      <4> QED
        BY <1>2, <4>1, <4>2, <4>3
    <3> QED
      BY <3>1, <3>2
  <2> QED
    BY <1>1, <1>3, <2>1 DEF HeardFits
<1> QED
  BY <1>1, <1>2, <1>4, <1>6, <1>7, <1>8, <1>9 DEF LiveInv, RoomFits

LEMMA JoinIsLost == ASSUME LiveInv, NEW j \in joinTasks, Viewer!JoinFails(j) PROVE LiveInv'
<1>1. /\ UNCHANGED <<broadcast, moves, playable, stage, initial, session, current, crossed>>
      /\ UNCHANGED <<entered, member, notices, player, running, sent>>
      /\ joinTasks' = joinTasks \ {j} /\ joined' = FALSE
      /\ faults < MaxFaults /\ faults' = faults + 1
  BY DEF Viewer!JoinFails, Viewer!Fault, Viewer!air, Viewer!page, Viewer!screen
<1>2. LiveTyped /\ RoomFits /\ stage = "room"
  BY JoinersAreIn DEF LiveInv
<1>3. ScreenFits' /\ player' \in [n : Nat, failed : BOOLEAN]
  BY <1>1, ScreenStays DEF Viewer!ShownUrl
<1>4. LiveTyped'
  <2>1. faults' \in 0 .. MaxFaults /\ joinTasks' \subseteq joinTasks
    BY <1>1, FaultCounts
  <2> QED
    BY <1>1, <1>2, <1>3, <2>1 DEF LiveTyped, Viewer!ViewingTypeOK
<1>5. RoomFits'
  BY <1>1, <1>2 DEF RoomFits, NoticesFit, TasksFit, PageFits, HeardFits
<1> QED
  BY <1>3, <1>4, <1>5 DEF LiveInv

LEMMA BroadcastMoves == ASSUME LiveInv, Viewer!Move PROVE LiveInv'
<1>0. LiveTyped /\ RoomFits /\ broadcast \in Course /\ moves \in 0 .. MaxMoves /\ moves \in Nat
  BY LiveAssumption DEF LiveInv, LiveTyped, Viewer!ViewingTypeOK
<1>1. /\ UNCHANGED <<playable, stage, initial, session, current, joined, crossed>>
      /\ UNCHANGED <<entered, joinTasks, member, player, running, sent, faults>>
      /\ moves < MaxMoves /\ moves' = moves + 1
      /\ notices' = IF member THEN Append(notices, [to |-> broadcast', at |-> moves']) ELSE notices
  BY DEF Viewer!Move, Viewer!page, Viewer!known, Viewer!screen, Viewer!bounds
<1>2. /\ broadcast' \in {"live", "interrupted", "ended"} /\ broadcast # "ended"
      /\ broadcast = "preparing" => broadcast' \in {"live", "ended"}
  BY <1>0 DEF Viewer!Move, Course
<1>3. moves' \in 0 .. MaxMoves /\ moves' \in Nat /\ moves' # 0 /\ moves < moves'
  BY <1>0, <1>1, LiveAssumption
<1>4. ScreenFits' /\ player' \in [n : Nat, failed : BOOLEAN]
  BY <1>1, ScreenStays DEF Viewer!ShownUrl
<1>5. PICK e \in Notice : e = [to |-> broadcast', at |-> moves'] /\ e.to = broadcast' /\ e.at = moves'
  <2>1. broadcast' \in Course \ {"preparing"}
    BY <1>2 DEF Course
  <2>2. [to |-> broadcast', at |-> moves'] \in Notice
    BY <1>3, <2>1 DEF Notice
  <2>3. PICK e \in Notice : e = [to |-> broadcast', at |-> moves']
    BY <2>2
  <2>4. e.to = broadcast' /\ e.at = moves'
    BY <2>3
  <2> QED
    BY <2>3, <2>4
<1>6. notices \in Seq(Notice) /\ Len(notices) \in Nat
  BY <1>0 DEF LiveTyped
<1>7. notices' \in Seq(Notice)
  BY <1>1, <1>5, <1>6
<1>8. LiveTyped'
  <2>1. \A j \in joinTasks : j.at \in Nat /\ j.at <= moves
    BY <1>0 DEF LiveTyped, JoinTask, Viewer!ViewingTypeOK
  <2>2. \A j \in joinTasks : j.at <= moves'
    BY <1>0, <1>3, <2>1
  <2>3. Viewer!ViewingTypeOK'
    BY <1>0, <1>1, <1>3, <2>2 DEF LiveTyped, Viewer!ViewingTypeOK
  <2>4. broadcast' \in Course
    BY <1>2 DEF Course
  <2> QED
    BY <1>0, <1>1, <1>4, <1>7, <2>3, <2>4 DEF LiveTyped
<1>9. TasksFit'
  <2>1. \A j \in joinTasks : j.at \in Nat /\ j.at <= moves
    BY <1>0 DEF LiveTyped, JoinTask, Viewer!ViewingTypeOK
  <2>2. \A j \in joinTasks : j.at <= moves' /\ j.at # moves'
    BY <1>0, <1>1, <2>1
  <2> QED
    BY <1>0, <1>1, <2>2 DEF RoomFits, TasksFit
<1>10. PageFits'
  <2>1. current \in Nat /\ current <= moves
    BY <1>0 DEF LiveTyped, RoomFits, PageFits
  <2>2. current <= moves' /\ current # moves'
    BY <1>0, <1>1, <2>1
  <2> QED
    BY <1>0, <1>1, <1>2, <1>3, <2>2 DEF RoomFits, PageFits
<1>11. CASE ~member
  <2>1. notices = <<>> /\ notices' = <<>>
    BY <1>0, <1>1, <1>11 DEF RoomFits, NoticesFit
  <2>2. NoticesFit'
    BY <1>3, <2>1 DEF NoticesFit
  <2>3. HeardFits'
    BY <1>0, <1>1, <1>11 DEF RoomFits, HeardFits
  <2>4. stage' # "room" => Away'
    BY <1>0, <1>1, <2>1 DEF RoomFits, Away, Viewer!NoSession
  <2> QED
    BY <1>4, <1>8, <1>9, <1>10, <2>2, <2>3, <2>4 DEF LiveInv, RoomFits
<1>12. CASE member
  <2>1. PICK n \in Nat : n = Len(notices)
    BY <1>6
  <2>2. /\ notices' = Append(notices, e) /\ Len(notices') = n + 1
        /\ notices'[n + 1] = e /\ \A k \in 1 .. n : notices'[k] = notices[k]
    BY <1>1, <1>5, <1>6, <1>12, <2>1
  <2>3. n <= moves
    BY <1>0, <2>1 DEF RoomFits, NoticesFit
  <2>4. ASSUME NEW k \in 1 .. n
        PROVE  /\ notices'[k].at + Len(notices') = moves' + k
               /\ notices'[k].at = 1 => notices'[k].to \in {"live", "ended"}
               /\ notices'[k].to # "ended" /\ k # n + 1
    <3>1. notices[k] \in Notice /\ k \in 1 .. Len(notices) /\ k \in Nat /\ k # n + 1
      BY <1>6, <2>1
    <3>2. /\ notices[k].at + n = moves + k
          /\ notices[k].at = 1 => notices[k].to \in {"live", "ended"}
          /\ notices[k].to = "ended" => broadcast = "ended"
      BY <1>0, <2>1, <3>1 DEF RoomFits, NoticesFit
    <3>3. PICK a \in Nat : a = notices[k].at
      BY <3>1 DEF Notice
    <3>4. a + (n + 1) = (moves + 1) + k
      BY <1>0, <2>1, <3>1, <3>2, <3>3
    <3>5. notices'[k].at + Len(notices') = moves' + k
      BY <1>1, <2>2, <3>3, <3>4
    <3> QED
      BY <1>2, <2>2, <3>1, <3>2, <3>5
  <2>5. /\ e.at + (n + 1) = moves' + (n + 1)
        /\ e.at = 1 => e.to \in {"live", "ended"}
    <3>1. moves' = 1 => broadcast = "preparing"
      BY <1>0, <1>1 DEF RoomFits, PageFits
    <3> QED
      BY <1>2, <1>5, <3>1
  <2>6. NoticesFit'
    <3>1. \A k \in 1 .. Len(notices') : k \in 1 .. n \/ k = n + 1
      BY <2>1, <2>2
    <3>2. Len(notices') <= moves'
      BY <1>0, <1>1, <2>1, <2>2, <2>3
    <3> QED
      BY <1>1, <1>5, <1>12, <2>2, <2>4, <2>5, <3>1, <3>2 DEF NoticesFit
  <2>7. \A c \in Nat : moves <= c + n => moves' <= c + (n + 1)
    BY <1>0, <1>1, <2>1
  <2>8. HeardFits'
    <3>1. current \in Nat /\ entered \in Nat
      BY <1>0 DEF LiveTyped
    <3> QED
      BY <1>0, <1>1, <2>1, <2>2, <2>7, <3>1 DEF RoomFits, HeardFits
  <2>9. stage' = "room"
    BY <1>0, <1>1, <1>12 DEF RoomFits, Away
  <2> QED
    BY <1>4, <1>8, <1>9, <1>10, <2>6, <2>8, <2>9 DEF LiveInv, RoomFits
<1> QED
  BY <1>11, <1>12

LEMMA NoticeIsHeard == ASSUME LiveInv, Viewer!Receive PROVE LiveInv'
<1>0. /\ LiveTyped /\ RoomFits /\ broadcast \in Course /\ moves \in Nat
      /\ notices \in Seq(Notice) /\ session \in Public
  BY LiveAssumption DEF LiveInv, LiveTyped, Viewer!ViewingTypeOK
<1>1. /\ UNCHANGED <<broadcast, moves, playable, stage, initial, entered, joined, crossed>>
      /\ UNCHANGED <<member, player, running, faults>>
      /\ notices # <<>> /\ notices' = Tail(notices)
      /\ current' = Head(notices).at
      /\ session' = IF session = Viewer!NoSession THEN session
                    ELSE [session EXCEPT !.status = Head(notices).to]
  BY DEF Viewer!Receive, Viewer!air, Viewer!page, Viewer!screen
<1>2. PICK n \in Nat : Len(notices) = n + 1
  <2>1. Len(notices) \in Nat /\ Len(notices) # 0
    BY <1>0, <1>1
  <2>2. Len(notices) - 1 \in Nat
    BY <2>1
  <2> QED
    BY <2>1, <2>2
<1>3. PICK e \in Notice : /\ e = Head(notices) /\ e = notices[1]
                          /\ e.to \in Course \ {"preparing"} /\ e.at \in Nat
  <2>1. notices[1] \in Notice /\ Head(notices) = notices[1]
    <3>1. 1 \in 1 .. Len(notices)
      BY <1>2
    <3> QED
      BY <1>0, <1>1, <3>1
  <2>2. PICK e \in Notice : e = notices[1]
    BY <2>1
  <2>3. e.to \in Course \ {"preparing"} /\ e.at \in Nat
    BY <2>2 DEF Notice
  <2> QED
    BY <2>1, <2>2, <2>3
<1>4. /\ notices' \in Seq(Notice) /\ Len(notices') = n
      /\ \A k \in 1 .. n : notices'[k] = notices[k + 1]
  BY <1>0, <1>1, <1>2
<1>5. /\ e.at + n = moves
      /\ e.at = 1 => e.to \in {"live", "ended"}
      /\ e.to = "ended" => broadcast = "ended" /\ n = 0
      /\ n = 0 => e.to = broadcast
      /\ e.to # "preparing" /\ n + 1 <= moves /\ member /\ stage = "room"
  <2>1. 1 \in 1 .. Len(notices) /\ (1 = n + 1 <=> n = 0)
    BY <1>2
  <2>2. /\ e.at + (n + 1) = moves + 1
        /\ e.at = 1 => e.to \in {"live", "ended"}
        /\ e.to = "ended" => broadcast = "ended" /\ 1 = n + 1
        /\ 1 = n + 1 => e.to = broadcast
    BY <1>0, <1>2, <1>3, <2>1 DEF RoomFits, NoticesFit
  <2>3. e.at + n = moves
    BY <1>0, <1>2, <1>3, <2>2
  <2>4. n + 1 <= moves
    BY <1>0, <1>2 DEF RoomFits, NoticesFit
  <2>5. member /\ stage = "room"
    BY <1>0, <1>1 DEF RoomFits, NoticesFit, Away
  <2>6. e.to = "ended" => n = 0
    BY <2>1, <2>2, <1>2
  <2>7. n = 0 => e.to = broadcast
    BY <2>1, <2>2, <1>2
  <2> QED
    BY <1>3, <2>2, <2>3, <2>4, <2>5, <2>6, <2>7
<1>6. /\ session' \in Public /\ session'.url = session.url
      /\ session'.status = IF session.status = "none" THEN "none" ELSE e.to
  <2>1. session = Viewer!NoSession <=> session.status = "none"
    BY <1>0, NoSessionIs DEF RoomFits, PageFits
  <2>2. CASE session.status = "none"
    BY <1>0, <1>1, <2>1, <2>2
  <2>3. CASE session.status # "none"
    <3>1. session' = [session EXCEPT !.status = e.to]
      BY <1>1, <1>3, <2>1, <2>3
    <3> QED
      BY <1>0, <1>3, <2>3, <3>1 DEF Public
  <2> QED
    BY <2>2, <2>3
<1>7. /\ sent' \in 0 .. MaxJoinsSent
      /\ \/ joinTasks' = joinTasks /\ e.to # "live"
         \/ \E j \in JoinTask : joinTasks' = joinTasks \union {j} /\ j.pc = "load" /\ j.at = 0
  <2>1. CASE e.to = "live"
    BY <1>3, <2>1, JoinIsSent DEF Viewer!Receive
  <2>2. CASE e.to # "live"
    BY <1>0, <1>3, <2>2 DEF Viewer!Receive, LiveTyped, Viewer!ViewingTypeOK
  <2> QED
    BY <2>1, <2>2
<1>8. ScreenFits' /\ player' \in [n : Nat, failed : BOOLEAN]
  BY <1>1, <1>6, ScreenStays DEF Viewer!ShownUrl
<1>9. joinTasks' \subseteq JoinTask /\ TasksFit'
  BY <1>0, <1>1, <1>7 DEF LiveTyped, RoomFits, TasksFit
<1>10. LiveTyped'
  <2>1. Viewer!ViewingTypeOK'
    BY <1>0, <1>1, <1>7, <1>9 DEF LiveTyped, Viewer!ViewingTypeOK, TasksFit, JoinTask
  <2>2. current' \in Nat
    BY <1>1, <1>3
  <2> QED
    BY <1>0, <1>1, <1>4, <1>6, <1>8, <1>9, <2>1, <2>2 DEF LiveTyped
<1>11. NoticesFit'
  <2>1. ASSUME NEW k \in 1 .. n
        PROVE  /\ notices'[k].at + n = moves + k
               /\ notices'[k].at = 1 => notices'[k].to \in {"live", "ended"}
               /\ notices'[k].to = "ended" => broadcast = "ended" /\ k = n
               /\ k = n => notices'[k].to = broadcast
    <3>1. k + 1 \in 1 .. Len(notices) /\ k \in Nat
      BY <1>2
    <3>2. notices[k + 1] \in Notice
      BY <1>0, <3>1
    <3>3. /\ notices[k + 1].at + (n + 1) = moves + (k + 1) /\ notices[k + 1].at \in Nat
          /\ notices[k + 1].at = 1 => notices[k + 1].to \in {"live", "ended"}
          /\ notices[k + 1].to = "ended" => broadcast = "ended" /\ k + 1 = n + 1
          /\ k + 1 = n + 1 => notices[k + 1].to = broadcast
      BY <1>0, <1>2, <3>1, <3>2 DEF RoomFits, NoticesFit, Notice
    <3>4. PICK a \in Nat : a = notices[k + 1].at
      BY <3>3
    <3>5. a + n = moves + k /\ (k + 1 = n + 1 <=> k = n)
      BY <1>0, <1>2, <3>1, <3>3, <3>4
    <3>6. notices'[k] = notices[k + 1]
      BY <1>4
    <3> QED
      BY <3>3, <3>4, <3>5, <3>6
  <2>2. n <= moves
    BY <1>0, <1>5
  <2>3. \A k \in 1 .. Len(notices') :
          /\ notices'[k].at + Len(notices') = moves' + k
          /\ notices'[k].at = 1 => notices'[k].to \in {"live", "ended"}
          /\ notices'[k].to = "ended" => broadcast' = "ended" /\ k = Len(notices')
          /\ k = Len(notices') => notices'[k].to = broadcast'
    BY <1>1, <1>4, <2>1
  <2>4. Len(notices') <= moves' /\ member'
    BY <1>1, <1>4, <1>5, <2>2
  <2> QED
    BY <2>3, <2>4 DEF NoticesFit
<1>12. PageFits'
  <2>1. current' <= moves /\ (current' = moves <=> n = 0)
    BY <1>0, <1>1, <1>3, <1>5
  <2>2. n = 0 => notices' = <<>>
    BY <1>4
  <2>3. session'.status \in {"none", e.to} /\ e.to # "preparing" /\ e.to # "none"
    BY <1>3, <1>6 DEF Course
  <2>4. session'.status = "none" => ~session'.url
    BY <1>0, <1>3, <1>6 DEF RoomFits, PageFits, Course
  <2>5. joined' => session'.status # "none"
    BY <1>0, <1>1, <1>6, <2>3 DEF RoomFits, PageFits
  <2>6. session'.status = "ended" => broadcast' = "ended" /\ notices' = <<>>
    BY <1>1, <1>5, <2>2, <2>3
  <2>7. session'.status # "none" /\ current' = moves' => session'.status = broadcast'
    BY <1>1, <1>5, <2>1, <2>3
  <2>8. broadcast' = "preparing" <=> moves' = 0
    BY <1>0, <1>1 DEF RoomFits, PageFits
  <2> QED
    BY <1>1, <2>1, <2>3, <2>4, <2>5, <2>6, <2>7, <2>8 DEF PageFits
<1>13. HeardFits'
  <2>1. moves <= current' + Len(notices')
    BY <1>0, <1>1, <1>3, <1>4, <1>5
  <2>2. ASSUME ~crossed, joined, joinTasks' = {}, session'.status \in {"live", "interrupted"}
        PROVE  session.url
    <3>1. joinTasks = {} /\ e.to = "interrupted" /\ session.status # "none"
      BY <1>6, <1>7, <2>2
    <3>2. session.status # "ended"
      BY <1>0, <1>1 DEF RoomFits, PageFits
    <3>3. session.status # "preparing"
      <4>1. moves <= current + (n + 1) /\ current \in Nat
        BY <1>0, <1>2, <1>5, <2>2, <3>1 DEF RoomFits, HeardFits, LiveTyped
      <4>2. e.at # 1
        BY <1>5, <3>1
      <4>3. current # 0
        BY <1>0, <1>3, <1>5, <4>1, <4>2
      <4> QED
        BY <1>0, <4>3 DEF RoomFits, PageFits
    <3> QED
      BY <1>0, <2>2, <3>1, <3>2, <3>3 DEF RoomFits, HeardFits, Public, Course
  <2> QED
    BY <1>1, <1>6, <2>1, <2>2 DEF HeardFits
<1> QED
  BY <1>1, <1>5, <1>8, <1>9, <1>10, <1>11, <1>12, <1>13 DEF LiveInv, RoomFits

LEMMA LiveSteps == ASSUME LiveInv, Viewer!ViewingNext \/ UNCHANGED liveVars PROVE LiveInv'
<1>1. CASE UNCHANGED liveVars
  <2>1. ScreenFits'
    BY <1>1, ScreenStays DEF liveVars, Viewer!ShownUrl
  <2>2. LiveTyped'
    BY <1>1 DEF liveVars, LiveInv, LiveTyped, Viewer!ViewingTypeOK
  <2>3. RoomFits'
    BY <1>1 DEF liveVars, LiveInv, RoomFits, Away, NoticesFit, TasksFit, PageFits, HeardFits
  <2> QED
    BY <2>1, <2>2, <2>3 DEF LiveInv
<1> QED
  BY <1>1, SessionIsRead, PageIsLeft, RoomIsJoined, RoomIsLost, StreamStops, BroadcastMoves,
     NoticeIsHeard, JoinIsLoaded, RoomIsEntered, JoinIsAnswered, JoinIsLost DEF Viewer!ViewingNext

LEMMA LiveHolds ==
  ASSUME LiveInv
  PROVE  Viewer!ViewingTypeOK /\ Viewer!OnePlayerRuns /\ Viewer!RoomFollowsBroadcast
<1>1. ASSUME joined, member, joinTasks = {}, notices = <<>>, ~crossed
      PROVE  session.status = broadcast /\ (broadcast \in {"live", "interrupted"} => session.url)
  <2>1. moves \in Nat /\ current \in Nat /\ Len(notices) = 0
    BY <1>1, LiveAssumption DEF LiveInv, LiveTyped, Viewer!ViewingTypeOK
  <2>2. moves <= current + Len(notices) /\ current <= moves
    BY <1>1 DEF LiveInv, RoomFits, HeardFits, PageFits
  <2>3. current = moves
    BY <2>1, <2>2
  <2>4. session.status = broadcast
    BY <1>1, <2>3 DEF LiveInv, RoomFits, PageFits
  <2> QED
    BY <1>1, <2>4 DEF LiveInv, RoomFits, HeardFits
<1> QED
  BY <1>1 DEF LiveInv, LiveTyped, ScreenFits, Viewer!RoomFollowsBroadcast

-------------------------------------------------------------------------------
(* A video, and the home page *)

\* What was offered is remembered, and is offered to somebody who has watched.
VideoInv ==
  /\ Viewer!WatchingTypeOK
  /\ memory \in [watched : BOOLEAN, seen : BOOLEAN]
  /\ offers \in {0, 1} /\ (offers = 1 => memory.seen)
  /\ \A t \in Tab : banner[t] # "hidden" => memory.watched

LEMMA VideoBegins == ASSUME Viewer!WatchingInit PROVE VideoInv
BY VideoAssumption DEF Viewer!WatchingInit, VideoInv, Viewer!WatchingTypeOK, Viewer!Variant

\* The page of the video: its URL has an age until it expires.
LEMMA PlaybackMoves ==
  ASSUME VideoInv,
         \/ Viewer!Open \/ Viewer!ReadPlayback \/ Viewer!Focus \/ Viewer!Blur
         \/ Viewer!Age \/ Viewer!PlaybackFails \/ Viewer!RetryPlayback
  PROVE  VideoInv'
<1>1. UNCHANGED <<banner, opened, offers>>
  BY DEF Viewer!Open, Viewer!ReadPlayback, Viewer!Focus, Viewer!Blur, Viewer!Age,
         Viewer!PlaybackFails, Viewer!RetryPlayback, Viewer!home
<1>2. /\ age' \in 0 .. ExpiresAt /\ focused' \in BOOLEAN
      /\ watch' \in {"closed", "loading", "error", "playing", "failed"}
  <2> USE VideoAssumption DEF VideoInv, Viewer!WatchingTypeOK
  <2>1. CASE Viewer!Open \/ Viewer!Blur \/ Viewer!PlaybackFails \/ Viewer!RetryPlayback
    BY <2>1 DEF Viewer!Open, Viewer!Blur, Viewer!PlaybackFails, Viewer!RetryPlayback
  <2>2. CASE Viewer!Age
    BY <2>2 DEF Viewer!Age
  <2>3. CASE Viewer!Answered
    <3>1. age' = 0 /\ focused' = TRUE /\ watch' \in {watch, "playing"}
      BY <2>3 DEF Viewer!Answered
    <3> QED
      BY <3>1
  <2>5. CASE Viewer!Refused
    BY <2>5 DEF Viewer!Refused
  <2>4. CASE Viewer!Focus /\ ~(Viewer!Answered \/ Viewer!Refused)
    BY <2>4 DEF Viewer!Focus
  <2> QED
    BY <2>1, <2>2, <2>3, <2>4, <2>5 DEF Viewer!ReadPlayback
<1>3. memory' = memory \/ memory' = [memory EXCEPT !.watched = TRUE]
  BY DEF Viewer!Open, Viewer!ReadPlayback, Viewer!Focus, Viewer!Blur, Viewer!Age,
         Viewer!PlaybackFails, Viewer!RetryPlayback
<1>4. /\ memory' \in [watched : BOOLEAN, seen : BOOLEAN]
      /\ memory'.seen = memory.seen /\ (memory.watched => memory'.watched)
  BY <1>3 DEF VideoInv
<1> QED
  BY <1>1, <1>2, <1>4 DEF VideoInv, Viewer!WatchingTypeOK

\* A home page that opens offers what has not been offered.
LEMMA HomeOpens == ASSUME VideoInv, NEW t \in Tab, Viewer!OpenHome(t) PROVE VideoInv'
<1>1. UNCHANGED <<age, watch, focused>> /\ opened' \in 0 .. MaxReloads
  BY VideoAssumption DEF Viewer!OpenHome, Viewer!playback, VideoInv, Viewer!WatchingTypeOK
<1>2. PICK v \in Viewer!Variant :
        /\ v = Viewer!HomeBannerVariant
        /\ v # "hidden" => memory.watched /\ ~memory.seen
  BY DEF Viewer!HomeBannerVariant, Viewer!Variant, VideoInv
<1>3. /\ banner' = [banner EXCEPT ![t] = v]
      /\ memory' = [memory EXCEPT !.seen = @ \/ v # "hidden"]
      /\ offers' = IF v = "hidden" THEN offers ELSE offers + 1
  BY <1>2 DEF Viewer!OpenHome, Viewer!Remember
<1>4. /\ memory' \in [watched : BOOLEAN, seen : BOOLEAN]
      /\ memory'.watched = memory.watched /\ memory'.seen = (memory.seen \/ v # "hidden")
  BY <1>3 DEF VideoInv
<1>5. offers' \in {0, 1} /\ (offers' = 1 => memory'.seen)
  BY <1>2, <1>3, <1>4 DEF VideoInv
<1>6. banner' \in [Tab -> Viewer!Variant] /\ \A u \in Tab : banner'[u] # "hidden" => memory'.watched
  BY <1>2, <1>3, <1>4 DEF VideoInv, Viewer!WatchingTypeOK
<1> QED
  BY <1>1, <1>4, <1>5, <1>6 DEF VideoInv, Viewer!WatchingTypeOK

LEMMA VideoSteps == ASSUME VideoInv, Viewer!WatchingNext \/ UNCHANGED videoVars PROVE VideoInv'
<1>1. CASE UNCHANGED videoVars
  BY <1>1 DEF videoVars, VideoInv, Viewer!WatchingTypeOK
<1>2. ASSUME NEW t \in Tab, Viewer!Dismiss(t) PROVE VideoInv'
  <2>1. /\ UNCHANGED <<age, watch, focused, memory, kakao, opened, offers>>
        /\ banner' = [banner EXCEPT ![t] = "hidden"]
    BY <1>2 DEF Viewer!Dismiss, Viewer!playback
  <2>2. banner' \in [Tab -> Viewer!Variant] /\ \A u \in Tab : banner'[u] # "hidden" => banner[u] # "hidden"
    BY <2>1 DEF VideoInv, Viewer!WatchingTypeOK, Viewer!Variant
  <2> QED
    BY <2>1, <2>2 DEF VideoInv, Viewer!WatchingTypeOK
<1> QED
  BY <1>1, <1>2, PlaybackMoves, HomeOpens DEF Viewer!WatchingNext

LEMMA VideoHolds == ASSUME VideoInv PROVE Viewer!WatchingTypeOK /\ Viewer!OfferedOnce
BY DEF VideoInv, Viewer!OfferedOnce

\* FocusRenews's step: what is not read again is younger than what is stale.
LEMMA FocusStep ==
  ASSUME VideoInv, Viewer!WatchingNext \/ UNCHANGED videoVars,
         ~focused, focused', watch' # "error"
  PROVE  age' < ExpiresAt
<1>1. Viewer!ReadPlayback \/ Viewer!Focus
  BY DEF Viewer!WatchingNext, videoVars, Viewer!Open, Viewer!Blur, Viewer!Age,
         Viewer!PlaybackFails, Viewer!RetryPlayback, Viewer!OpenHome, Viewer!Dismiss,
         Viewer!playback
<1> QED
  BY <1>1, VideoAssumption
     DEF Viewer!ReadPlayback, Viewer!Focus, Viewer!Answered, Viewer!Refused, Viewer!IsStale,
         VideoInv, Viewer!WatchingTypeOK

-------------------------------------------------------------------------------
(* The updates of the web app *)

Version == {0} \union App!Build
Window ==
  [run : Version, via : Version, cached : BOOLEAN, status : {"idle", "update-ready", "applying"},
   accepted : BOOLEAN, events : SUBSET {"waiting", "controlling"}]
Store == [shell : Version, assets : SUBSET App!Build]

AppTyped ==
  /\ App!UpdateTypeOK /\ online \in BOOLEAN /\ window \in [Tab -> Window]
  /\ cache \in [App!Build -> Store]

\* What a page has heard and asked for, and what there is for it; a closed one has nothing.
WindowFits(t) ==
  /\ window[t].run = 0 => window[t] = App!ClosedTab
  /\ window[t].accepted <=> window[t].status = "applying"
  /\ active = 0 => ~window[t].cached /\ window[t].status = "idle" /\ window[t].events = {}
  /\ t \notin switched /\ ~window[t].accepted =>
       /\ window[t].cached => App!HasAsset(window[t].run)
       /\ "waiting" \in window[t].events \/ window[t].status = "update-ready" => waiting # 0
  /\ t \notin switched /\ window[t].accepted =>
       "controlling" \in window[t].events \/ (skipping /\ waiting # 0)

AppInv == AppTyped /\ (active = 0 => waiting = 0) /\ \A t \in Tab : WindowFits(t)

\* A page that is closed.
LEMMA ClosedIs ==
  /\ App!ClosedTab \in Window
  /\ App!ClosedTab.run = 0 /\ ~App!ClosedTab.accepted /\ ~App!ClosedTab.cached
  /\ App!ClosedTab.status = "idle" /\ App!ClosedTab.events = {}
BY DEF App!ClosedTab, Window, Version

LEMMA AppBegins == ASSUME App!UpdateInit PROVE AppInv
<1>1. /\ deployed = 1 /\ online = TRUE /\ outages = 0 /\ active = 0 /\ waiting = 0
      /\ skipping = FALSE /\ switched = {}
      /\ cache = [b \in App!Build |-> App!NoCache]
      /\ window = [t \in Tab |-> App!ClosedTab]
  BY DEF App!UpdateInit
<1>2. App!NoCache \in Store
  BY DEF App!NoCache, Store, Version
<1>3. window \in [Tab -> Window] /\ cache \in [App!Build -> Store]
  BY <1>1, <1>2, ClosedIs
<1>4. App!UpdateTypeOK
  <2>1. deployed \in App!Build /\ active \in Version /\ waiting \in Version
    BY <1>1, AppAssumption DEF App!Build, Version
  <2>2. outages \in 0 .. MaxOutages
    BY <1>1, AppAssumption
  <2>3. skipping \in BOOLEAN /\ switched \subseteq Tab
    BY <1>1
  <2> QED
    BY <1>3, <2>1, <2>2, <2>3 DEF App!UpdateTypeOK, Window, Version, Store
<1>5. \A t \in Tab : WindowFits(t)
  BY <1>1, ClosedIs DEF WindowFits
<1> QED
  BY <1>1, <1>3, <1>4, <1>5 DEF AppInv, AppTyped

\* The type invariant follows from the sets of windows and stores.
LEMMA AppTypes ==
  ASSUME window \in [Tab -> Window], cache \in [App!Build -> Store],
         deployed \in App!Build, active \in Version, waiting \in Version,
         skipping \in BOOLEAN, switched \subseteq Tab, outages \in 0 .. MaxOutages,
         online \in BOOLEAN
  PROVE  AppTyped
BY DEF AppTyped, App!UpdateTypeOK, Window, Version, Store

LEMMA AppTyping ==
  ASSUME AppTyped
  PROVE  /\ window \in [Tab -> Window] /\ cache \in [App!Build -> Store]
         /\ deployed \in App!Build /\ active \in Version /\ waiting \in Version
         /\ skipping \in BOOLEAN /\ switched \subseteq Tab /\ outages \in 0 .. MaxOutages
         /\ online \in BOOLEAN /\ App!Build \subseteq Nat \ {0} /\ 0 \notin App!Build
BY DEF AppTyped, App!UpdateTypeOK, Version, App!Build

\* A page that nothing happens to, while nothing is taken away.
Grows ==
  /\ active' = 0 => active = 0
  /\ \A b \in App!Build : App!HasAsset(b) => App!HasAsset(b)'
  /\ waiting # 0 => waiting' # 0
  /\ skipping /\ waiting # 0 => skipping'

LEMMA WindowStays ==
  ASSUME AppInv, Grows, NEW t \in Tab, window'[t] = window[t], t \in switched => t \in switched'
  PROVE  WindowFits(t)'
<1>1. WindowFits(t) /\ window[t] \in Window
  BY AppTyping DEF AppInv
<1>2. window[t].cached /\ App!HasAsset(window[t].run) => App!HasAsset(window[t].run)'
  <2>1. CASE window[t].run = 0
    BY <1>1, <2>1, ClosedIs DEF WindowFits
  <2> QED
    BY <1>1, <2>1 DEF Window, Version, Grows
<1>3. (App!ClosedTab)' = App!ClosedTab
  BY DEF App!ClosedTab
<1> QED
  BY <1>1, <1>2, <1>3 DEF WindowFits, Grows

\* The server and the network.
LEMMA ServerMoves == ASSUME AppInv, App!Deploy \/ App!NetworkChanges PROVE AppInv'
<1>1. UNCHANGED <<active, waiting, skipping, switched, cache, window>>
  BY DEF App!Deploy, App!NetworkChanges, App!workers
<1>2. AppTyped
  BY DEF AppInv
<1>3. deployed' \in App!Build /\ outages' \in 0 .. MaxOutages /\ online' \in BOOLEAN
  <2>1. deployed \in App!Build /\ outages \in 0 .. MaxOutages /\ online \in BOOLEAN
    BY <1>2, AppTyping
  <2>2. CASE App!Deploy
    <3>1. deployed < MaxBuilds /\ deployed' = deployed + 1 /\ UNCHANGED <<online, outages>>
      BY <2>2 DEF App!Deploy
    <3> QED
      BY <2>1, <3>1, AppAssumption DEF App!Build
  <2>3. CASE App!NetworkChanges
    <3>1. /\ outages' = outages \/ (outages < MaxOutages /\ outages' = outages + 1)
          /\ deployed' = deployed
      BY <2>3 DEF App!NetworkChanges
    <3>2. outages' \in 0 .. MaxOutages
      BY <2>1, <3>1, AppAssumption
    <3>3. online' \in BOOLEAN
      BY <2>3 DEF App!NetworkChanges
    <3> QED
      BY <2>1, <3>1, <3>2, <3>3
  <2> QED
    BY <2>2, <2>3
<1>4. AppTyped'
  BY <1>1, <1>2, <1>3, AppTyping DEF AppTyped, App!UpdateTypeOK
<1>5. Grows
  BY <1>1 DEF Grows, App!HasAsset
<1>6. \A t \in Tab : WindowFits(t)'
  BY <1>1, <1>5, WindowStays
<1> QED
  BY <1>1, <1>4, <1>6 DEF AppInv

\* A page is loaded: with what came through the worker, or not at all.
LEMMA PageLoads == ASSUME AppInv, NEW t \in Tab, App!Load(t) PROVE AppInv'
<1>0. AppTyped /\ (active = 0 => waiting = 0)
  BY DEF AppInv
<1>1. PICK b \in Version, up \in BOOLEAN :
        /\ up => b # 0
        /\ window' = [window EXCEPT ![t] =
                        IF up THEN [App!ClosedTab EXCEPT !.run = b, !.via = active,
                                                         !.cached = active # 0]
                        ELSE App!ClosedTab]
        /\ cache' = IF active = 0 THEN cache
                    ELSE [cache EXCEPT ![active] =
                            [shell |-> IF online THEN b ELSE @.shell,
                             assets |-> IF up THEN @.assets \union {b} ELSE @.assets]]
  <2>1. App!Shell \in Version
    BY <1>0, AppTyping DEF App!Shell, Version, Store
  <2> QED
    BY <2>1 DEF App!Load
<1>2. /\ UNCHANGED <<deployed, online, outages, active, waiting, skipping>>
      /\ switched' = switched \ {t}
  BY DEF App!Load, App!server
<1>3. PICK w : /\ w = window'[t] /\ w \in Window
               /\ w = App!ClosedTab
                  \/ /\ w.run = b /\ up /\ w.cached = (active # 0) /\ w.status = "idle"
                     /\ ~w.accepted /\ w.events = {}
  <2>1. window'[t] = IF up THEN [App!ClosedTab EXCEPT !.run = b, !.via = active, !.cached = active # 0]
                     ELSE App!ClosedTab
    BY <1>0, <1>1, AppTyping
  <2>2. CASE up
    <3>1. window'[t] = [run |-> b, via |-> active, cached |-> active # 0, status |-> "idle",
                        accepted |-> FALSE, events |-> {}]
      BY <2>1, <2>2 DEF App!ClosedTab
    <3> QED
      BY <1>0, <2>2, <3>1, AppTyping DEF Window
  <2>3. CASE ~up
    BY <2>1, <2>3, ClosedIs
  <2> QED
    BY <2>2, <2>3
<1>4. window' \in [Tab -> Window] /\ \A u \in Tab \ {t} : window'[u] = window[u]
  BY <1>0, <1>1, <1>3, AppTyping
<1>5. /\ cache' \in [App!Build -> Store]
      /\ \A d \in App!Build : App!HasAsset(d) => App!HasAsset(d)'
      /\ active # 0 /\ up => App!HasAsset(b)'
  <2>1. CASE active = 0
    BY <1>0, <1>1, <1>2, <2>1, AppTyping DEF App!HasAsset
  <2>2. CASE active # 0
    <3>1. active \in App!Build /\ cache[active] \in Store
      BY <1>0, <2>2, AppTyping DEF Version
    <3>2. PICK s : s = [shell |-> IF online THEN b ELSE cache[active].shell,
                        assets |-> IF up THEN cache[active].assets \union {b}
                                   ELSE cache[active].assets]
      OBVIOUS
    <3>3. /\ s \in Store /\ cache[active].assets \subseteq s.assets /\ (up => b \in s.assets)
      BY <1>1, <3>1, <3>2 DEF Store, Version
    <3>4. cache' = [cache EXCEPT ![active] = s]
      BY <1>1, <2>2, <3>2
    <3> QED
      BY <1>0, <1>2, <2>2, <3>1, <3>3, <3>4, AppTyping DEF App!HasAsset
  <2> QED
    BY <2>1, <2>2
<1>6. AppTyped'
  <2>1. switched' \subseteq Tab
    BY <1>0, <1>2, AppTyping
  <2> QED
    BY <1>0, <1>2, <1>4, <1>5, <2>1, AppTyping DEF AppTyped, App!UpdateTypeOK, Window, Version, Store
<1>7. Grows
  BY <1>2, <1>5 DEF Grows
<1>8. WindowFits(t)'
  BY <1>1, <1>2, <1>3, <1>5, ClosedIs DEF WindowFits, App!ClosedTab
<1>9. \A u \in Tab : WindowFits(u)'
  BY <1>2, <1>4, <1>7, <1>8, WindowStays
<1> QED
  BY <1>0, <1>2, <1>6, <1>9 DEF AppInv

\* A worker becomes active: who had not asked for it is switched (Activate).
LEMMA WorkerActivates ==
  ASSUME AppInv, NEW b \in App!Build, NEW by, App!Activate(b, by),
         UNCHANGED <<deployed, online, outages>>,
         \A t \in App!Open : t \in by /\ ~window[t].accepted =>
           ~window[t].cached /\ "waiting" \notin window[t].events /\ window[t].status = "idle"
  PROVE  AppInv'
<1>0. AppTyped
  BY DEF AppInv
<1>1. /\ active' = b /\ waiting' = 0 /\ skipping' = FALSE /\ b # 0
      /\ cache' = [d \in App!Build |-> IF d = b THEN cache[d] ELSE App!NoCache]
      /\ switched' = switched \union (App!Open \ by)
  BY <1>0, AppTyping DEF App!Activate
<1>2. \A t \in Tab : window'[t] = IF window[t].run # 0
                                  THEN [window[t] EXCEPT !.via = b, !.events = @ \union {"controlling"}]
                                  ELSE window[t]
  BY DEF App!Activate, App!Open
<1>3. ASSUME NEW t \in Tab PROVE window'[t] \in Window /\ WindowFits(t)'
  <2>1. PICK w \in Window : w = window[t]
    BY <1>0, AppTyping
  <2>2. WindowFits(t)
    BY DEF AppInv
  <2>3. CASE w.run = 0
    BY <1>1, <1>2, <2>1, <2>2, <2>3, ClosedIs DEF WindowFits, App!ClosedTab
  <2>4. CASE w.run # 0
    <3>1. window'[t] = [w EXCEPT !.via = b, !.events = @ \union {"controlling"}]
      BY <1>2, <2>1, <2>4
    <3>2. PICK v \in Window : v = [w EXCEPT !.via = b, !.events = @ \union {"controlling"}]
      BY DEF Window, Version
    <3>3. /\ v.run = w.run /\ v.cached = w.cached /\ v.status = w.status
          /\ v.accepted = w.accepted /\ v.events = w.events \union {"controlling"}
      BY <3>2 DEF Window
    <3>4. t \in App!Open
      BY <2>1, <2>4 DEF App!Open
    <3>5. window'[t] = v
      BY <3>1, <3>2
    <3>6. t \notin switched' /\ ~w.accepted =>
            ~w.cached /\ "waiting" \notin w.events /\ w.status = "idle"
      BY <1>1, <2>1, <3>4
    <3> QED
      BY <1>1, <2>1, <2>2, <2>4, <3>3, <3>5, <3>6 DEF WindowFits
  <2> QED
    BY <2>3, <2>4
<1>4. window' \in [Tab -> Window]
  <2>1. window' = [t \in Tab |-> window'[t]]
    BY DEF App!Activate
  <2> QED
    BY <1>3, <2>1
<1>5. cache' \in [App!Build -> Store]
  <2>1. App!NoCache \in Store
    BY DEF App!NoCache, Store, Version
  <2> QED
    BY <1>0, <1>1, <2>1, AppTyping
<1>6. switched' \subseteq Tab
  BY <1>0, <1>1, AppTyping DEF App!Open
<1>7. AppTyped'
  BY <1>0, <1>1, <1>4, <1>5, <1>6, AppTyping DEF AppTyped, App!UpdateTypeOK, Window, Version, Store
<1> QED
  BY <1>1, <1>3, <1>7 DEF AppInv

LEMMA WorkerRegisters == ASSUME AppInv, NEW t \in Tab, App!Register(t) PROVE AppInv'
<1>0. AppTyped /\ (active = 0 => waiting = 0)
  BY DEF AppInv
<1>1. /\ window[t].run # 0 /\ window[t].run \in App!Build
      /\ UNCHANGED <<deployed, online, outages>>
  BY <1>0, AppTyping DEF App!Register, App!Open, App!server, Window, Version
<1>2. CASE active = 0
  <2>1. \A u \in Tab : ~window[u].cached /\ window[u].events = {} /\ window[u].status = "idle"
    BY <1>2 DEF AppInv, WindowFits
  <2>2. App!Activate(window[t].run, App!Open)
    BY <1>2 DEF App!Register
  <2> QED
    BY <1>1, <2>1, <2>2, WorkerActivates DEF App!Open
<1>3. CASE active # 0
  <2>1. /\ waiting' = window[t].run
        /\ UNCHANGED <<active, cache, skipping, switched>>
        /\ window' = [u \in Tab |-> IF window[u].run # 0
                                    THEN [window[u] EXCEPT !.events = @ \union {"waiting"}]
                                    ELSE window[u]]
    BY <1>3 DEF App!Register, App!Open
  <2>2. Grows
    BY <1>1, <2>1 DEF Grows, App!HasAsset
  <2>3. ASSUME NEW u \in Tab PROVE window'[u] \in Window /\ WindowFits(u)'
    <3>1. PICK w \in Window : w = window[u]
      BY <1>0, AppTyping
    <3>2. WindowFits(u)
      BY DEF AppInv
    <3>3. CASE w.run = 0
      BY <2>1, <2>2, <3>1, <3>3, WindowStays
    <3>4. CASE w.run # 0
      <4>1. PICK v \in Window : v = [w EXCEPT !.events = @ \union {"waiting"}]
        BY DEF Window
      <4>2. /\ v.run = w.run /\ v.cached = w.cached /\ v.status = w.status
            /\ v.accepted = w.accepted /\ v.events = w.events \union {"waiting"}
        BY <4>1 DEF Window
      <4>3. window'[u] = v
        BY <2>1, <3>1, <3>4, <4>1
      <4> QED
        BY <1>1, <1>3, <2>1, <3>1, <3>2, <3>4, <4>2, <4>3 DEF WindowFits, App!HasAsset
    <3> QED
      BY <3>3, <3>4
  <2>4. window' \in [Tab -> Window]
    BY <2>1, <2>3
  <2>5. AppTyped'
    BY <1>0, <1>1, <2>1, <2>4, AppTyping DEF AppTyped, App!UpdateTypeOK, Window, Version, Store
  <2> QED
    BY <1>1, <1>3, <2>1, <2>3, <2>5 DEF AppInv
<1> QED
  BY <1>2, <1>3

LEMMA SkipArrives == ASSUME AppInv, App!SkipWaiting PROVE AppInv'
<1>0. AppTyped /\ UNCHANGED <<deployed, online, outages>>
  BY DEF AppInv, App!SkipWaiting, App!server
<1>1. CASE waiting = 0
  <2>1. skipping' = FALSE /\ UNCHANGED <<active, waiting, cache, window, switched>>
    BY <1>1 DEF App!SkipWaiting
  <2>2. Grows
    BY <1>1, <2>1 DEF Grows, App!HasAsset
  <2>3. \A t \in Tab : WindowFits(t)'
    BY <2>1, <2>2, WindowStays
  <2>4. AppTyped'
    BY <1>0, <2>1 DEF AppTyped, App!UpdateTypeOK
  <2> QED
    BY <2>1, <2>3, <2>4 DEF AppInv
<1>2. CASE waiting # 0
  <2>1. App!Activate(waiting, {t \in App!Open : window[t].accepted})
    BY <1>2 DEF App!SkipWaiting
  <2>2. waiting \in App!Build
    BY <1>0, <1>2, AppTyping DEF Version
  <2> QED
    BY <1>0, <2>1, <2>2, WorkerActivates
<1> QED
  BY <1>1, <1>2

LEMMA TabCloses == ASSUME AppInv, NEW t \in Tab, App!Close(t) PROVE AppInv'
<1>0. AppTyped /\ UNCHANGED <<deployed, online, outages>>
  BY DEF AppInv, App!Close, App!server
<1>1. /\ window' = [window EXCEPT ![t] = App!ClosedTab]
      /\ window'[t] = App!ClosedTab /\ \A u \in Tab \ {t} : window'[u] = window[u]
      /\ window' \in [Tab -> Window]
  BY <1>0, ClosedIs, AppTyping DEF App!Close
<1>2. WindowFits(t)'
  BY <1>1, ClosedIs DEF WindowFits, App!ClosedTab
<1>3. CASE App!Open = {t} /\ waiting # 0
  <2>1. /\ active' = waiting /\ waiting' = 0 /\ skipping' = FALSE /\ switched' = {}
        /\ cache' = [d \in App!Build |-> IF d = waiting THEN cache[d] ELSE App!NoCache]
    BY <1>3 DEF App!Close
  <2>2. App!NoCache \in Store
    BY DEF App!NoCache, Store, Version
  <2>3. cache' \in [App!Build -> Store]
    BY <1>0, <2>1, <2>2, AppTyping
  <2>4. ASSUME NEW u \in Tab \ {t} PROVE WindowFits(u)'
    <3>1. window[u].run = 0 /\ WindowFits(u)
      BY <1>3 DEF App!Open, AppInv
    <3>2. window'[u] = App!ClosedTab
      BY <1>1, <3>1 DEF WindowFits
    <3> QED
      BY <3>2, ClosedIs DEF WindowFits, App!ClosedTab
  <2>5. AppTyped'
    BY <1>0, <1>1, <2>1, <2>3, AppTyping DEF AppTyped, App!UpdateTypeOK, Window, Version, Store
  <2> QED
    BY <1>2, <1>3, <2>1, <2>4, <2>5 DEF AppInv
<1>4. CASE ~(App!Open = {t} /\ waiting # 0)
  <2>1. UNCHANGED <<active, waiting, skipping, cache>> /\ switched' = switched \ {t}
    BY <1>4 DEF App!Close
  <2>2. Grows
    BY <2>1 DEF Grows, App!HasAsset
  <2>3. \A u \in Tab : WindowFits(u)'
    BY <1>1, <1>2, <2>1, <2>2, WindowStays
  <2>4. switched' \subseteq Tab
    BY <1>0, <2>1, AppTyping
  <2>5. AppTyped'
    BY <1>0, <1>1, <2>1, <2>4, AppTyping DEF AppTyped, App!UpdateTypeOK, Window, Version, Store
  <2> QED
    BY <2>1, <2>3, <2>5 DEF AppInv
<1> QED
  BY <1>3, <1>4

\* One page's step that leaves the workers alone.
LEMMA WindowMoves ==
  ASSUME AppInv, NEW t \in Tab, NEW v \in Window, window' = [window EXCEPT ![t] = v],
         UNCHANGED <<deployed, online, outages, active, waiting, switched, cache>>,
         skipping' \in BOOLEAN, skipping => skipping', WindowFits(t)'
  PROVE  AppInv'
<1>0. AppTyped
  BY DEF AppInv
<1>1. window' \in [Tab -> Window] /\ \A u \in Tab \ {t} : window'[u] = window[u]
  BY <1>0, AppTyping
<1>2. Grows
  BY DEF Grows, App!HasAsset
<1>3. \A u \in Tab : WindowFits(u)'
  BY <1>1, <1>2, WindowStays
<1>4. AppTyped'
  BY <1>0, <1>1, AppTyping DEF AppTyped, App!UpdateTypeOK, Window, Version, Store
<1> QED
  BY <1>3, <1>4 DEF AppInv

LEMMA UpdateIsShown == ASSUME AppInv, NEW t \in Tab, App!OnWaiting(t) PROVE AppInv'
<1>1. PICK w \in Window : w = window[t]
  BY AppTyping DEF AppInv
<1>2. /\ "waiting" \in w.events
      /\ UNCHANGED <<deployed, online, outages, active, waiting, skipping, switched, cache>>
  BY <1>1 DEF App!OnWaiting, App!server, App!workers
<1>3. PICK s \in {"idle", "update-ready", "applying"} :
        s = IF w.via = 0 \/ w.status = "applying" THEN w.status ELSE "update-ready"
  BY DEF Window
<1>4. PICK v \in Window : v = [w EXCEPT !.events = @ \ {"waiting"}, !.status = s]
  BY DEF Window
<1>5. /\ v.run = w.run /\ v.cached = w.cached /\ v.status = s
      /\ v.accepted = w.accepted /\ v.events = w.events \ {"waiting"}
  BY <1>4 DEF Window
<1>6. window' = [window EXCEPT ![t] = v] /\ window'[t] = v
  BY <1>1, <1>3, <1>4, AppTyping DEF App!OnWaiting, AppInv
<1>7. WindowFits(t) /\ skipping \in BOOLEAN
  BY AppTyping DEF AppInv
<1>8. w.run # 0
  BY <1>1, <1>2, <1>7, ClosedIs DEF WindowFits
<1>9. WindowFits(t)'
  BY <1>1, <1>2, <1>3, <1>5, <1>6, <1>7, <1>8 DEF WindowFits, App!HasAsset
<1> QED
  BY <1>2, <1>6, <1>7, <1>9, WindowMoves

LEMMA UpdateIsAccepted == ASSUME AppInv, NEW t \in Tab, App!Accept(t) PROVE AppInv'
<1>1. PICK w \in Window : w = window[t]
  BY AppTyping DEF AppInv
<1>2. /\ w.status = "update-ready" /\ skipping' = TRUE
      /\ UNCHANGED <<deployed, online, outages, active, waiting, switched, cache>>
  BY <1>1 DEF App!Accept, App!server
<1>4. PICK v \in Window : v = [w EXCEPT !.status = "applying", !.accepted = TRUE]
  BY DEF Window
<1>5. /\ v.run = w.run /\ v.cached = w.cached /\ v.status = "applying"
      /\ v.accepted = TRUE /\ v.events = w.events
  BY <1>4 DEF Window
<1>6. window' = [window EXCEPT ![t] = v] /\ window'[t] = v
  BY <1>1, <1>4, AppTyping DEF App!Accept, AppInv
<1>7. WindowFits(t)
  BY DEF AppInv
<1>8. w.run # 0
  BY <1>1, <1>2, <1>7, ClosedIs DEF WindowFits
<1>9. WindowFits(t)'
  BY <1>1, <1>2, <1>5, <1>6, <1>7, <1>8 DEF WindowFits, App!HasAsset
<1> QED
  BY <1>2, <1>6, <1>9, WindowMoves

LEMMA ControllerChanged == ASSUME AppInv, NEW t \in Tab, App!OnControllerChange(t) PROVE AppInv'
<1>1. PICK w \in Window : w = window[t]
  BY AppTyping DEF AppInv
<1>2. CASE w.accepted
  BY <1>1, <1>2, PageLoads DEF App!OnControllerChange, App!MayReload
<1>3. CASE ~w.accepted
  <2>1. /\ "controlling" \in w.events
        /\ window' = [window EXCEPT ![t].events = @ \ {"controlling"}]
        /\ UNCHANGED <<deployed, online, outages, active, waiting, skipping, switched, cache>>
    BY <1>1, <1>3 DEF App!OnControllerChange, App!MayReload, App!server, App!workers
  <2>2. PICK v \in Window : v = [w EXCEPT !.events = @ \ {"controlling"}]
    BY DEF Window
  <2>3. /\ v.run = w.run /\ v.cached = w.cached /\ v.status = w.status
        /\ v.accepted = w.accepted /\ v.events = w.events \ {"controlling"}
    BY <2>2 DEF Window
  <2>4. window' = [window EXCEPT ![t] = v] /\ window'[t] = v
    BY <1>1, <2>1, <2>2, AppTyping DEF AppInv
  <2>5. WindowFits(t) /\ skipping \in BOOLEAN
    BY AppTyping DEF AppInv
  <2>6. w.run # 0
    BY <1>1, <2>1, <2>5, ClosedIs DEF WindowFits
  <2>7. WindowFits(t)'
    BY <1>1, <1>3, <2>1, <2>3, <2>4, <2>5, <2>6 DEF WindowFits, App!HasAsset
  <2> QED
    BY <2>1, <2>4, <2>5, <2>7, WindowMoves
<1> QED
  BY <1>2, <1>3

LEMMA AppSteps == ASSUME AppInv, App!UpdateNext \/ UNCHANGED appVars PROVE AppInv'
<1>1. CASE UNCHANGED appVars
  <2>1. Grows /\ UNCHANGED <<window, switched>>
    BY <1>1 DEF appVars, Grows, App!HasAsset
  <2>2. \A t \in Tab : WindowFits(t)'
    BY <2>1, WindowStays
  <2> QED
    BY <1>1, <2>2 DEF appVars, AppInv, AppTyped, App!UpdateTypeOK
<1> QED
  BY <1>1, ServerMoves, SkipArrives, PageLoads, WorkerRegisters, TabCloses, UpdateIsShown,
     UpdateIsAccepted, ControllerChanged DEF App!UpdateNext, App!OpenTab

LEMMA AppHolds ==
  ASSUME AppInv PROVE App!UpdateTypeOK /\ App!KeepsItsAssets /\ App!AcceptedIsApplied
BY DEF AppInv, AppTyped, WindowFits, App!Open, App!KeepsItsAssets, App!AcceptedIsApplied

\* NoForcedReload's step: a page runs another build if it is closed or was asked to.
LEMMA ReloadStep ==
  ASSUME AppInv, App!UpdateNext \/ UNCHANGED appVars, NEW t \in App!Open
  PROVE  window'[t].run \in {0, window[t].run} \/ window[t].accepted
<1>0. t \in Tab /\ window[t].run # 0 /\ window \in [Tab -> Window]
  BY AppTyping DEF App!Open, AppInv
<1>1. ASSUME NEW u \in Tab, u # t \/ window[t].accepted, App!Load(u)
      PROVE  window'[t] = window[t] \/ window[t].accepted
  BY <1>0, <1>1 DEF App!Load
<1>2. ASSUME NEW b, NEW by, App!Activate(b, by) PROVE window'[t].run = window[t].run
  BY <1>0, <1>2 DEF App!Activate, Window
<1>3. ASSUME NEW u \in Tab, App!Register(u) PROVE window'[t].run = window[t].run
  <2>1. CASE active = 0
    BY <1>2, <1>3, <2>1 DEF App!Register
  <2>2. CASE active # 0
    BY <1>0, <1>3, <2>2 DEF App!Register, Window
  <2> QED
    BY <2>1, <2>2
<1>4. ASSUME NEW u \in Tab, App!Close(u) PROVE window'[t].run \in {0, window[t].run}
  BY <1>0, <1>4, ClosedIs DEF App!Close
<1>5. ASSUME NEW u \in Tab, App!OnWaiting(u) \/ App!Accept(u) PROVE window'[t].run = window[t].run
  BY <1>0, <1>5 DEF App!OnWaiting, App!Accept, Window
<1>6. CASE App!SkipWaiting
  BY <1>2, <1>6 DEF App!SkipWaiting
<1>7. CASE App!Deploy \/ App!NetworkChanges \/ UNCHANGED appVars
  BY <1>7 DEF App!Deploy, App!NetworkChanges, appVars
<1>8. ASSUME NEW u \in Tab, App!OpenTab(u) PROVE window'[t] = window[t] \/ window[t].accepted
  BY <1>0, <1>1, <1>8 DEF App!OpenTab, App!Open
<1>9. ASSUME NEW u \in Tab, App!OnControllerChange(u)
      PROVE  window'[t].run = window[t].run \/ window[t].accepted
  <2>1. CASE App!MayReload(u)
    BY <1>1, <1>9, <2>1 DEF App!OnControllerChange, App!MayReload
  <2>2. CASE ~App!MayReload(u)
    BY <1>0, <1>9, <2>2 DEF App!OnControllerChange, Window
  <2> QED
    BY <2>1, <2>2
<1> QED
  BY <1>3, <1>4, <1>5, <1>6, <1>7, <1>8, <1>9 DEF App!UpdateNext

-------------------------------------------------------------------------------
(* The programme *)

ScheduleTyped ==
  /\ App!ScheduleTypeOK /\ built \in App!Address \union {App!NoAddress}
  /\ page = [open |-> page.open, at |-> page.at, notice |-> page.notice, failed |-> page.failed,
             rows |-> page.rows, next |-> page.next]

ScheduleInv ==
  ScheduleTyped /\ App!WeekStartsToday /\ App!NextLiveIsSoonest /\ App!PlaysOnlyStreams

\* The days of the week, by what is left when it is gone round.
LEMMA DaysGoRound ==
  ASSUME NEW m \in Nat, NEW k \in Nat
  PROVE  ((m % 7) + k) % 7 = (m + k) % 7 /\ m % 7 \in 0 .. 6
OBVIOUS

\* kstWeekday tells Jeju's day.
LEMMA TodayIs ==
  ASSUME NEW t \in 0 .. MaxTime, firstDay \in 0 .. 6
  PROVE  /\ App!JejuDay(t) = firstDay + (t + 3) \div 8 /\ App!JejuDay(t) \in Nat
         /\ App!KstWeekday(t) = App!JejuDay(t) % 7 /\ App!KstWeekday(t) \in 0 .. 6
<1> DEFINE Fits(n) == n * App!StepsInDay <= t + 3 /\ t + 3 < (n + 1) * App!StepsInDay
           day == (t + 3) \div 8
<1>1. day \in 0 .. MaxTime /\ day * 8 <= t + 3 /\ t + 3 < (day + 1) * 8
  BY ScheduleAssumption
<1>2. Fits(day)
  BY <1>1 DEF App!StepsInDay
<1>3. ASSUME NEW n \in 0 .. MaxTime, Fits(n) PROVE n = day
  BY <1>1, <1>3, ScheduleAssumption DEF App!StepsInDay
<1>4. (CHOOSE n \in 0 .. MaxTime : Fits(n)) = day
  <2> HIDE DEF Fits, day
  <2> QED
    BY <1>1, <1>2, <1>3
<1>5. App!JejuDay(t) = firstDay + day
  BY <1>4 DEF App!JejuDay
<1>6. App!KstWeekday(t) = (firstDay + day) % 7
  BY DEF App!KstWeekday, App!StepsInDay, App!DaysInWeek
<1> QED
  BY <1>1, <1>5, <1>6, ScheduleAssumption

\* Every day has its slot, and the broadcasts are at the weekend (WEEKLY_SCHEDULE).
LEMMA SlotsAre ==
  ASSUME NEW d \in 0 .. 6
  PROVE  /\ App!On(d, {"live", "vod"}) = {d + 1}
         /\ App!On(d, {"live"}) # {} <=> d \in {0, 6}
<1>1. DOMAIN App!Weekly = 1 .. 7
  BY DEF App!Weekly, App!DaysInWeek
<1>2. \A k \in 1 .. 7 : /\ App!Weekly[k].weekday = k - 1
                        /\ App!Weekly[k].kind = IF k - 1 \in {0, 6} THEN "live" ELSE "vod"
  BY DEF App!Weekly, App!DaysInWeek
<1>3. App!On(d, {"live", "vod"}) = {k \in 1 .. 7 : k - 1 = d}
  BY <1>1, <1>2 DEF App!On
<1>4. App!On(d, {"live"}) = {k \in 1 .. 7 : k - 1 = d /\ k - 1 \in {0, 6}}
  BY <1>1, <1>2 DEF App!On
<1>5. \A k \in 1 .. 7 : k - 1 = d <=> k = d + 1
  OBVIOUS
<1>6. d + 1 \in 1 .. 7
  OBVIOUS
<1> QED
  BY <1>3, <1>4, <1>5, <1>6

\* scheduleFromToday: the seven days from Jeju's today on.
LEMMA WeekIs ==
  ASSUME NEW t \in 0 .. MaxTime, firstDay \in 0 .. 6
  PROVE  /\ Len(App!FromToday(t)) = 7
         /\ \A k \in 1 .. 7 : App!FromToday(t)[k] = (App!JejuDay(t) + k - 1) % 7
<1> DEFINE K == App!KstWeekday(t)
           Of(ahead) == App!On((App!KstWeekday(t) + ahead) % App!DaysInWeek, {"live", "vod"})
           Day(k) == (CHOOSE j \in Of(k) : TRUE) - 1
           Rule(f) == [n \in 0 .. App!DaysInWeek |->
                         IF n = 0 THEN <<>>
                         ELSE IF Of(n - 1) = {} THEN f[n - 1] ELSE Append(f[n - 1], Day(n - 1))]
           of == CHOOSE f : f = Rule(f)
           Week(n) == [k \in 1 .. n |-> (K + k - 1) % 7]
           week == [n \in 0 .. 7 |-> Week(n)]
<1>1. K \in 0 .. 6
  BY TodayIs
<1>2. ASSUME NEW k \in 0 .. 6 PROVE Of(k) # {} /\ Day(k) = (K + k) % 7
  <2>1. PICK d \in 0 .. 6 : d = (K + k) % 7
    BY <1>1
  <2>2. Of(k) = {d + 1}
    BY <2>1, SlotsAre DEF App!DaysInWeek
  <2>3. Day(k) = (d + 1) - 1
    BY <2>2
  <2> HIDE DEF Of, Day
  <2> QED
    BY <2>1, <2>2, <2>3
<1>3. ASSUME NEW n \in 1 .. 7
      PROVE  Append(Week(n - 1), (K + n - 1) % 7) = Week(n)
  <2>1. PICK m \in Nat : m = n - 1
    OBVIOUS
  <2>2. PICK w : w = Week(m)
    OBVIOUS
  <2>3. w = [k \in 1 .. m |-> (K + k - 1) % 7]
    BY <2>2
  <2>4. w \in Seq(0 .. 6) /\ Len(w) = m
    <3>1. \A k \in 1 .. m : (K + k - 1) % 7 \in 0 .. 6
      BY <1>1
    <3>2. PICK U : U = 0 .. 6
      OBVIOUS
    <3>3. w \in [1 .. m -> U]
      BY <2>3, <3>1, <3>2
    <3> QED
      BY <2>1, <3>2, <3>3
  <2>5. PICK d \in 0 .. 6 : d = (K + n - 1) % 7
    BY <1>1
  <2>6. PICK a : a = Append(w, d)
    OBVIOUS
  <2>7. /\ Len(a) = m + 1 /\ a[m + 1] = d /\ \A k \in 1 .. m : a[k] = w[k]
        /\ a \in Seq(0 .. 6)
    BY <2>4, <2>6
  <2>8. n = m + 1 /\ \A k \in 1 .. n : k \in 1 .. m \/ k = n
    BY <2>1
  <2>9. \A k \in 1 .. n : a[k] = (K + k - 1) % 7
    BY <2>3, <2>5, <2>7, <2>8
  <2>10. a = [k \in 1 .. n |-> a[k]]
    BY <2>7, <2>8
  <2>11. a = Append(Week(n - 1), (K + n - 1) % 7)
    BY <2>1, <2>2, <2>5, <2>6
  <2> QED
    BY <2>9, <2>10, <2>11
<1>4. week = Rule(week)
  <2>1. ASSUME NEW n \in 0 .. 7
        PROVE  Week(n) = IF n = 0 THEN <<>>
                         ELSE IF Of(n - 1) = {} THEN week[n - 1] ELSE Append(week[n - 1], Day(n - 1))
    <3>1. CASE n = 0
      BY <3>1
    <3>2. CASE n # 0
      <4>1. n \in 1 .. 7 /\ n - 1 \in 0 .. 6 /\ n - 1 \in 0 .. 7
        BY <3>2
      <4>2. Of(n - 1) # {} /\ Day(n - 1) = (K + n - 1) % 7
        <5>1. K + (n - 1) = K + n - 1
          BY <1>1, <4>1
        <5> HIDE DEF Of, Day
        <5> QED
          BY <1>2, <4>1, <5>1
      <4>3. week[n - 1] = Week(n - 1)
        BY <4>1
      <4> HIDE DEF Of, Day, Week, week
      <4> QED
        BY <1>3, <3>2, <4>1, <4>2, <4>3
    <3> QED
      BY <3>1, <3>2
  <2> HIDE DEF Of, Day, Week
  <2> QED
    BY <2>1 DEF App!DaysInWeek
<1>5. of = Rule(of)
  <2> HIDE DEF week
  <2> QED
    BY <1>4
<1>6. App!FromToday(t) = of[App!DaysInWeek]
  BY DEF App!FromToday
<1> HIDE DEF of
<1>7. of[0] = Week(0)
  <2>1. of[0] = Rule(of)[0]
    BY <1>5
  <2> QED
    BY <2>1 DEF App!DaysInWeek
<1>8. ASSUME NEW n \in 1 .. 7, of[n - 1] = Week(n - 1) PROVE of[n] = Week(n)
  <2>1. n \in 0 .. 7 /\ n # 0 /\ n - 1 \in 0 .. 6
    OBVIOUS
  <2>2. of[n] = Rule(of)[n]
    BY <1>5
  <2>3. Rule(of)[n] = IF Of(n - 1) = {} THEN of[n - 1] ELSE Append(of[n - 1], Day(n - 1))
    <3> HIDE DEF Of, Day
    <3> QED
      BY <2>1 DEF App!DaysInWeek
  <2>4. Of(n - 1) # {} /\ Day(n - 1) = (K + n - 1) % 7
    <3>1. K + (n - 1) = K + n - 1
      BY <1>1, <2>1
    <3> HIDE DEF Of, Day
    <3> QED
      BY <1>2, <2>1, <3>1
  <2> HIDE DEF Of, Day, Rule, Week
  <2> QED
    BY <1>3, <1>8, <2>2, <2>3, <2>4
<1>9. of[7] = Week(7)
  <2> HIDE DEF Week
  <2>1. of[1] = Week(1) /\ of[2] = Week(2) /\ of[3] = Week(3)
    <3>1. of[1] = Week(1)
      BY <1>7, <1>8
    <3>2. of[2] = Week(2)
      BY <1>8, <3>1
    <3> QED
      BY <1>8, <3>1, <3>2
  <2>2. of[4] = Week(4)
    BY <1>8, <2>1
  <2>3. of[5] = Week(5)
    BY <1>8, <2>2
  <2>4. of[6] = Week(6)
    BY <1>8, <2>3
  <2> QED
    BY <1>8, <2>4
<1>10. Len(Week(7)) = 7 /\ \A k \in 1 .. 7 : Week(7)[k] = (K + k - 1) % 7
  OBVIOUS
<1>11. ASSUME NEW k \in 1 .. 7 PROVE (K + k - 1) % 7 = (App!JejuDay(t) + k - 1) % 7
  <2>1. K = App!JejuDay(t) % 7 /\ App!JejuDay(t) \in Nat
    BY TodayIs
  <2>2. PICK m \in Nat : m = App!JejuDay(t)
    BY <2>1
  <2>3. ((m % 7) + (k - 1)) % 7 = (m + (k - 1)) % 7
    BY <2>2, DaysGoRound
  <2> QED
    BY <2>1, <2>2, <2>3
<1>12. App!FromToday(t) = Week(7)
  BY <1>6, <1>9 DEF App!DaysInWeek
<1> HIDE DEF Week, K
<1> QED
  BY <1>10, <1>11, <1>12

\* nextLive: the first weekend day to come, today's included.
LEMMA NextIs ==
  ASSUME NEW t \in 0 .. MaxTime, firstDay \in 0 .. 6
  PROVE  LET next == App!NextLive(t) IN
         /\ next.weekday = (App!JejuDay(t) + next.ahead) % 7
         /\ next.weekday \in {0, 6}
         /\ \A d \in 0 .. next.ahead - 1 : (App!JejuDay(t) + d) % 7 \notin {0, 6}
<1> DEFINE days == {d \in 0 .. App!DaysInWeek - 1 :
                      App!On((App!KstWeekday(t) + d) % App!DaysInWeek, {"live"}) # {}}
           first == CHOOSE d \in days : \A e \in days : d <= e
<1>1. PICK K \in 0 .. 6, m \in Nat :
        K = App!KstWeekday(t) /\ m = App!JejuDay(t) /\ K = m % 7
  BY TodayIs
<1>2. PICK n \in 0 .. 6 : n = IF K \in {0, 6} THEN 0 ELSE 6 - K
  OBVIOUS
<1>3. \A d \in 0 .. 6 : d \in days <=> (K + d) % 7 \in {0, 6}
  <2>1. ASSUME NEW d \in 0 .. 6 PROVE App!On((K + d) % 7, {"live"}) # {} <=> (K + d) % 7 \in {0, 6}
    <3>1. PICK w \in 0 .. 6 : w = (K + d) % 7
      OBVIOUS
    <3> QED
      BY <3>1, SlotsAre
  <2>2. \A d \in 0 .. 6 : d \in days <=> App!On((App!KstWeekday(t) + d) % 7, {"live"}) # {}
    BY DEF App!DaysInWeek
  <2> HIDE DEF days
  <2> QED
    BY <1>1, <2>1, <2>2
<1>4. days \subseteq 0 .. 6
  BY DEF App!DaysInWeek
<1>5. (K + n) % 7 \in {0, 6} /\ \A d \in 0 .. n - 1 : (K + d) % 7 \notin {0, 6}
  BY <1>2
<1>6. n \in days /\ \A e \in days : n <= e
  <2> HIDE DEF days
  <2> QED
    BY <1>3, <1>4, <1>5
<1>7. first = n
  <2>1. \A d \in days : d \in Nat
    BY <1>4
  <2> HIDE DEF days
  <2>2. ASSUME NEW d \in days, \A e \in days : d <= e PROVE d = n
    BY <1>6, <2>1, <2>2
  <2> QED
    BY <1>6, <2>2
<1>8. App!NextLive(t) = [weekday |-> (App!KstWeekday(t) + first) % App!DaysInWeek, ahead |-> first]
  <2>1. days # {}
    BY <1>6
  <2>2. App!NextLive(t) = IF days = {} THEN App!NoNext
          ELSE [weekday |-> (App!KstWeekday(t) + first) % App!DaysInWeek, ahead |-> first]
    BY DEF App!NextLive
  <2> HIDE DEF days, first
  <2> QED
    BY <2>1, <2>2
<1> HIDE DEF first, days
<1>9. App!NextLive(t).weekday = (K + n) % 7 /\ App!NextLive(t).ahead = n
  <2>1. PICK w : w = (App!KstWeekday(t) + first) % App!DaysInWeek
    OBVIOUS
  <2>2. App!NextLive(t) = [weekday |-> w, ahead |-> n]
    BY <1>7, <1>8, <2>1
  <2>3. w = (K + n) % 7
    BY <1>1, <1>7, <2>1 DEF App!DaysInWeek
  <2> QED
    BY <2>2, <2>3
<1>10. \A d \in 0 .. 6 : (K + d) % 7 = (m + d) % 7
  BY <1>1, DaysGoRound
<1>11. \A d \in 0 .. n - 1 : d \in 0 .. 6 /\ (m + d) % 7 \notin {0, 6}
  BY <1>5, <1>10
<1> QED
  BY <1>1, <1>5, <1>9, <1>10, <1>11

LEMMA ScheduleBegins == ASSUME App!ScheduleInit PROVE ScheduleInv
<1>1. /\ time = 0 /\ firstDay \in 0 .. App!DaysInWeek - 1 /\ zone \in Zones
      /\ built = App!NoAddress /\ air = "before" /\ page = App!NoPage
  BY DEF App!ScheduleInit
<1>2. page.open = FALSE /\ page.notice = App!NoAddress
  BY <1>1 DEF App!NoPage
<1>3. page = [open |-> page.open, at |-> page.at, notice |-> page.notice, failed |-> page.failed,
              rows |-> page.rows, next |-> page.next]
  BY <1>1 DEF App!NoPage
<1>4. time \in 0 .. MaxTime
  BY <1>1, ScheduleAssumption
<1>5. App!ScheduleTypeOK
  BY <1>1, <1>2, <1>4 DEF App!ScheduleTypeOK
<1> QED
  BY <1>1, <1>2, <1>3, <1>5
     DEF ScheduleInv, ScheduleTyped, App!WeekStartsToday, App!NextLiveIsSoonest, App!PlaysOnlyStreams

\* A page that is opened tells the week and the next broadcast as they are.
LEMMA ProgrammeOpens == ASSUME ScheduleInv, App!OpenProgramme PROVE ScheduleInv'
<1>1. /\ App!ScheduleTypeOK /\ built \in App!Address \union {App!NoAddress}
      /\ time \in 0 .. MaxTime /\ firstDay \in 0 .. 6
  BY DEF ScheduleInv, ScheduleTyped, App!ScheduleTypeOK, App!DaysInWeek
<1>2. PICK slots, next, notice :
        slots = App!FromToday(time) /\ next = App!NextLive(time) /\ notice = App!Parsed(built)
  OBVIOUS
<1>3. /\ page' = [open |-> TRUE, at |-> time, notice |-> notice, failed |-> FALSE,
                  rows |-> slots, next |-> next]
      /\ UNCHANGED <<time, firstDay, zone, built, air>>
  BY <1>2 DEF App!OpenProgramme
<1>4. /\ page'.open = TRUE /\ page'.at = time /\ page'.notice = notice /\ page'.failed = FALSE
      /\ page'.rows = slots /\ page'.next = next
  BY <1>3
<1>5. /\ notice \in App!Address \union {App!NoAddress}
      /\ notice # App!NoAddress => notice = [scheme |-> "https:", path |-> ".m3u8"]
  BY <1>1, <1>2 DEF App!Parsed, App!Address, App!NoAddress
<1>6. App!JejuDay(time)' = App!JejuDay(time)
  BY <1>3 DEF App!JejuDay
<1>7. App!WeekStartsToday'
  <2>1. Len(slots) = 7 /\ \A k \in 1 .. 7 : slots[k] = (App!JejuDay(time) + k - 1) % 7
    BY <1>1, <1>2, WeekIs
  <2>2. App!JejuDay(page.at)' = App!JejuDay(time)
    BY <1>3, <1>4 DEF App!JejuDay
  <2> QED
    BY <1>4, <2>1, <2>2 DEF App!WeekStartsToday, App!DaysInWeek
<1>8. App!NextLiveIsSoonest'
  <2>1. /\ next.weekday = (App!JejuDay(time) + next.ahead) % 7
        /\ next.weekday \in {0, 6}
        /\ \A d \in 0 .. next.ahead - 1 : (App!JejuDay(time) + d) % 7 \notin {0, 6}
    BY <1>1, <1>2, NextIs
  <2>2. App!JejuDay(page.at)' = App!JejuDay(time)
    BY <1>3, <1>4 DEF App!JejuDay
  <2> QED
    BY <1>4, <2>1, <2>2 DEF App!NextLiveIsSoonest, App!DaysInWeek
<1>9. ScheduleTyped'
  <2>1. App!ScheduleTypeOK'
    BY <1>1, <1>3, <1>4, <1>5 DEF App!ScheduleTypeOK
  <2> QED
    BY <1>1, <1>3, <1>4, <2>1 DEF ScheduleTyped
<1> QED
  BY <1>4, <1>5, <1>7, <1>8, <1>9 DEF ScheduleInv, App!PlaysOnlyStreams

\* A page stays as it was drawn, whatever goes on.
LEMMA ProgrammeStays ==
  ASSUME ScheduleInv, UNCHANGED <<firstDay, page>>, ScheduleTyped' PROVE ScheduleInv'
<1>1. App!JejuDay(page.at)' = App!JejuDay(page.at)
  BY DEF App!JejuDay
<1> QED
  BY <1>1 DEF ScheduleInv, App!WeekStartsToday, App!NextLiveIsSoonest, App!PlaysOnlyStreams,
              App!DaysInWeek, App!JejuDay

LEMMA PlayerMoves == ASSUME ScheduleInv, App!Fails \/ App!Retry PROVE ScheduleInv'
<1>1. PICK f : page' = [page EXCEPT !.failed = f]
  BY DEF App!Fails, App!Retry
<1>2. page' = [open |-> page.open, at |-> page.at, notice |-> page.notice, failed |-> f,
               rows |-> page.rows, next |-> page.next]
  BY <1>1 DEF ScheduleInv, ScheduleTyped
<1>3. /\ page'.open = page.open /\ page'.at = page.at /\ page'.notice = page.notice
      /\ page'.failed = f /\ page'.rows = page.rows /\ page'.next = page.next
  BY <1>2
<1>4. UNCHANGED <<time, firstDay, zone, built, air>>
  BY DEF App!Fails, App!Retry
<1>5. App!JejuDay(page.at)' = App!JejuDay(page.at)
  BY <1>3, <1>4 DEF App!JejuDay
<1>6. ScheduleTyped'
  BY <1>2, <1>3, <1>4 DEF ScheduleInv, ScheduleTyped, App!ScheduleTypeOK
<1>7. App!WeekStartsToday'
  BY <1>3, <1>5 DEF ScheduleInv, App!WeekStartsToday, App!DaysInWeek
<1>8. App!NextLiveIsSoonest'
  BY <1>3, <1>5 DEF ScheduleInv, App!NextLiveIsSoonest, App!DaysInWeek
<1> QED
  BY <1>3, <1>6, <1>7, <1>8 DEF ScheduleInv, App!PlaysOnlyStreams

LEMMA ScheduleSteps == ASSUME ScheduleInv, App!ScheduleNext \/ UNCHANGED scheduleVars PROVE ScheduleInv'
<1>1. CASE App!Publish \/ App!Air \/ App!Pass \/ UNCHANGED scheduleVars
  <2>1. UNCHANGED <<firstDay, page, zone>>
    BY <1>1 DEF App!Publish, App!Air, App!Pass, scheduleVars
  <2>2. time' \in 0 .. MaxTime
    <3>1. time \in 0 .. MaxTime /\ (time' = time \/ (time < MaxTime /\ time' = time + 1))
      BY <1>1 DEF App!Publish, App!Air, App!Pass, scheduleVars, ScheduleInv, ScheduleTyped,
                  App!ScheduleTypeOK
    <3> QED
      BY <3>1, ScheduleAssumption
  <2>3. built' \in App!Address \union {App!NoAddress}
    BY <1>1 DEF App!Publish, App!Air, App!Pass, scheduleVars, ScheduleInv, ScheduleTyped
  <2>4. air' \in {"before", "on", "over"}
    BY <1>1 DEF App!Publish, App!Air, App!Pass, scheduleVars, ScheduleInv, ScheduleTyped,
                App!ScheduleTypeOK
  <2>5. ScheduleTyped'
    BY <2>1, <2>2, <2>3, <2>4 DEF ScheduleInv, ScheduleTyped, App!ScheduleTypeOK
  <2> QED
    BY <2>1, <2>5, ProgrammeStays
<1> QED
  BY <1>1, ProgrammeOpens, PlayerMoves DEF App!ScheduleNext

LEMMA ScheduleHolds ==
  ASSUME ScheduleInv
  PROVE  /\ App!ScheduleTypeOK /\ App!WeekStartsToday
         /\ App!NextLiveIsSoonest /\ App!PlaysOnlyStreams
BY DEF ScheduleInv, ScheduleTyped

-------------------------------------------------------------------------------
(* The pages together *)

\* A step of one part leaves the others where they are.
LEMMA PagesStep ==
  ASSUME Next \/ UNCHANGED vars
  PROVE  /\ Page!ResidentPageNext \/ UNCHANGED residentVars
         /\ Form!FormNext \/ UNCHANGED formVars
         /\ List!BoardNext \/ UNCHANGED boardsVars
         /\ Web!WebNext \/ UNCHANGED webVars
<1>1. CASE UNCHANGED vars
  BY <1>1 DEF vars
<1>2. CASE Next
  <2>1. \A f \in Focus : Only(f) => \A g \in Focus \ {f} : Still(g)
    BY DEF Only
  <2>2. /\ Still("resident") => UNCHANGED residentVars
        /\ Still("form") => UNCHANGED formVars
        /\ Still("boards") => UNCHANGED boardsVars
        /\ Still("web") => UNCHANGED webVars
    BY DEF Still
  <2>3. Page!ResidentPageNext \/ Still("resident")
    BY <1>2, <2>1 DEF Next, Focus
  <2>4. Form!FormNext \/ Still("form")
    BY <1>2, <2>1 DEF Next, Focus
  <2>5. List!BoardNext \/ Still("boards")
    BY <1>2, <2>1 DEF Next, Focus
  <2>6. Web!WebNext \/ Still("web")
    BY <1>2, <2>1 DEF Next, Focus
  <2> QED
    BY <2>2, <2>3, <2>4, <2>5, <2>6
<1> QED
  BY <1>1, <1>2

\* PagesTellTheTruth: a resident's page speaks of the link and its uploads as they are, a list
\* read to its end skips no row and what the reader knows to be decided leaves it, what a form
\* sends is accepted, and a sign-out, and in calm times nothing else, closes the session
\* (upload page, content list and board, live form, AuthProvider and refresh rotation).
THEOREM PagesStayTrue == Spec => PagesTellTheTruth
<1> DEFINE Inv == PageInv /\ BoardInv /\ FormInv /\ WebInv
           Resident == focus = "resident" =>
                         /\ Page!ResidentPageTypeOK /\ Page!FormKnowsTheFile
                         /\ Page!StoppedIsNotReceived /\ Page!DeadEndIsTrue
                         /\ Page!ViewKnowsItsUploads
           Lists == focus = "boards" =>
                      /\ List!BoardTypeOK /\ List!NothingIsSkipped
                      /\ List!FilterIsKept /\ List!DecidedLeavesTheList
           Forms == focus = "form" =>
                      Form!FormTypeOK /\ Form!SubmittedIsAccepted /\ Form!RefusalIsShown
           Sessions == focus = "web" => Web!WebTypeOK /\ Web!SignOutCloses
           Kept == \A t \in Tab :
                     tab[t].status = "signedIn" /\ ~tangled' => tab'[t].status = "signedIn"
<1>1. Init => Inv
  BY PageBegins, BoardBegins, FormBegins, WebBegins DEF Init
<1>2. Inv /\ [Next]_vars => Inv'
  <2> SUFFICES ASSUME Inv, [Next]_vars PROVE Inv'
    OBVIOUS
  <2>1. PageInv'
    BY PagesStep, PageSteps
  <2>2. BoardInv'
    BY PagesStep, BoardSteps
  <2>3. FormInv'
    BY PagesStep, FormSteps
  <2>4. WebInv'
    BY PagesStep, WebSteps
  <2> QED
    BY <2>1, <2>2, <2>3, <2>4
<1>3. Inv => Resident /\ Lists /\ Forms /\ Sessions
  BY PageHolds, BoardHolds, FormHolds, WebHolds
<1>4. Inv /\ [Next]_vars => [Kept]_(Web!webVars)
  <2> SUFFICES ASSUME Inv, [Next]_vars PROVE Kept
    OBVIOUS
  <2> QED
    BY PagesStep, CalmStep
<1> QED
  BY <1>1, <1>2, <1>3, <1>4, PTL DEF Spec, PagesTellTheTruth, Web!KeptWhileCalm

-------------------------------------------------------------------------------
(* What a visitor meets *)

LEMMA VisitsStep ==
  ASSUME Next \/ UNCHANGED vars
  PROVE  /\ Probe!ProbesNext \/ UNCHANGED probeVars
         /\ Viewer!ViewingNext \/ UNCHANGED liveVars
         /\ Viewer!WatchingNext \/ UNCHANGED videoVars
         /\ App!UpdateNext \/ UNCHANGED appVars
         /\ App!ScheduleNext \/ UNCHANGED scheduleVars
<1>1. CASE UNCHANGED vars
  BY <1>1 DEF vars
<1>2. CASE Next
  <2>1. \A f \in Focus : Only(f) => \A g \in Focus \ {f} : Still(g)
    BY DEF Only
  <2>2. /\ Still("probe") => UNCHANGED probeVars
        /\ Still("live") => UNCHANGED liveVars
        /\ Still("video") => UNCHANGED videoVars
        /\ Still("app") => UNCHANGED appVars
        /\ Still("schedule") => UNCHANGED scheduleVars
    BY DEF Still
  <2>3. Probe!ProbesNext \/ Still("probe")
    BY <1>2, <2>1 DEF Next, Focus
  <2>4. Viewer!ViewingNext \/ Still("live")
    BY <1>2, <2>1 DEF Next, Focus
  <2>5. Viewer!WatchingNext \/ Still("video")
    BY <1>2, <2>1 DEF Next, Focus
  <2>6. App!UpdateNext \/ Still("app")
    BY <1>2, <2>1 DEF Next, Focus
  <2>7. App!ScheduleNext \/ Still("schedule")
    BY <1>2, <2>1 DEF Next, Focus
  <2> QED
    BY <2>2, <2>3, <2>4, <2>5, <2>6, <2>7
<1> QED
  BY <1>1, <1>2

\* VisitorsAreServed: the probe passes when and only when a visitor can reach the videos, one
\* player runs and a room in contact shows its broadcast, a page that comes to the front has a
\* URL that plays, an update keeps the assets of what it serves and reloads nobody who did not
\* accept it, and the programme starts today (deploy probe, live page, playback query, service
\* worker, schedule).
THEOREM VisitorsServed == Spec => VisitorsAreServed
<1> DEFINE Inv == ProbeInv /\ LiveInv /\ VideoInv /\ AppInv /\ ScheduleInv
           Probing == focus = "probe" =>
                        Probe!ProbesTypeOK /\ Probe!PassIsReachable /\ Probe!AlarmHasCause
           Live == focus = "live" =>
                     Viewer!ViewingTypeOK /\ Viewer!OnePlayerRuns /\ Viewer!RoomFollowsBroadcast
           Video == focus = "video" => Viewer!WatchingTypeOK /\ Viewer!OfferedOnce
           Updates == focus = "app" =>
                        App!UpdateTypeOK /\ App!KeepsItsAssets /\ App!AcceptedIsApplied
           Programme == focus = "schedule" =>
                          /\ App!ScheduleTypeOK /\ App!WeekStartsToday
                          /\ App!NextLiveIsSoonest /\ App!PlaysOnlyStreams
           Renewed == ~focused /\ focused' /\ watch' # "error" => age' < ExpiresAt
           Chosen == \A t \in App!Open :
                       window'[t].run \in {0, window[t].run} \/ window[t].accepted
<1>1. Init => Inv
  BY ProbeBegins, LiveBegins, VideoBegins, AppBegins, ScheduleBegins DEF Init
<1>2. Inv /\ [Next]_vars => Inv'
  <2> SUFFICES ASSUME Inv, [Next]_vars PROVE Inv'
    OBVIOUS
  <2>1. ProbeInv'
    BY VisitsStep, ProbeSteps
  <2>2. LiveInv'
    BY VisitsStep, LiveSteps
  <2>3. VideoInv'
    BY VisitsStep, VideoSteps
  <2>4. AppInv'
    BY VisitsStep, AppSteps
  <2>5. ScheduleInv'
    BY VisitsStep, ScheduleSteps
  <2> QED
    BY <2>1, <2>2, <2>3, <2>4, <2>5
<1>3. Inv => Probing /\ Live /\ Video /\ Updates /\ Programme
  BY ProbeHolds, LiveHolds, VideoHolds, AppHolds, ScheduleHolds
<1>4. Inv /\ [Next]_vars => [Renewed]_(Viewer!watchingVars)
  <2> SUFFICES ASSUME Inv, [Next]_vars PROVE Renewed
    OBVIOUS
  <2> QED
    BY VisitsStep, FocusStep
<1>5. Inv /\ [Next]_vars => [Chosen]_(App!updateVars)
  <2> SUFFICES ASSUME Inv, [Next]_vars, ~UNCHANGED App!updateVars PROVE Chosen
    OBVIOUS
  <2> QED
    BY VisitsStep, ReloadStep
<1> QED
  BY <1>1, <1>2, <1>3, <1>4, <1>5, PTL
     DEF Spec, VisitorsAreServed, Viewer!FocusRenews, App!NoForcedReload
===============================================================================
