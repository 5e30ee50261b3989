---------------------------- MODULE Services_proofs ----------------------------
(***************************************************************************)
(* What the public sees is what is published: for any number of contents,  *)
(* restarts and moments, any page size, buckets, settings and times to     *)
(* live.  And what people write is kept: for any number of editors, admins *)
(* and writes.  The parts share no state, so each has an invariant of its  *)
(* own.                                                                    *)
(***************************************************************************)
EXTENDS MC_Services, SequenceTheorems, TLAPS

-------------------------------------------------------------------------------
(* The feed *)

\* What a reader has is above its cursor, and what was public when it began is there or still
\* to come.
FeedInv ==
  /\ moment \in Nat /\ publishedAt \in [1 .. Contents -> Nat] /\ seen \in Seq(1 .. Contents)
  /\ reading \in {"no", "pages", "end"}
  /\ \A i \in 1 .. Len(seen) : publishedAt[seen[i]] # 0
  /\ \A i, j \in 1 .. Len(seen) : seen[i] = seen[j] => i = j
  /\ before \subseteq {c \in 1 .. Contents : publishedAt[c] # 0}
  /\ reading = "no" => cursor = <<>> /\ seen = <<>>
  /\ reading = "pages" =>
       /\ \E c \in 1 .. Contents : cursor = <<publishedAt[c], c>> /\ publishedAt[c] # 0
       /\ \A i \in 1 .. Len(seen) : ~ Reader!Behind(seen[i])
       /\ \A c \in before \ archived : (\E i \in 1 .. Len(seen) : seen[i] = c) \/ Reader!Behind(c)
  /\ reading = "end" => \A c \in before \ archived : \E i \in 1 .. Len(seen) : seen[i] = c

\* The keyset condition after a page: what is below its last item.
LEMMA BehindLast ==
  ASSUME FeedInv, NEW c \in 1 .. Contents, NEW d \in 1 .. Contents, cursor = <<publishedAt[c], c>>
  PROVE  Reader!Behind(d) <=> Reader!Above(c, d)
BY DEF Reader!Behind, Reader!Above, FeedInv

\* The order of the query is strict.
LEMMA AboveIsStrict ==
  ASSUME FeedInv, NEW c \in 1 .. Contents, NEW d \in 1 .. Contents, NEW e \in 1 .. Contents,
         Reader!Above(c, d)
  PROVE  ~ Reader!Above(d, c) /\ c # d /\ (Reader!Above(d, e) => Reader!Above(c, e))
BY DEF Reader!Above, FeedInv

\* A page: rows the cursor and the status admit, each below the one before; what it leaves
\* out is below all of them, and nothing is left out of one that is not full.
LEMMA ThePage ==
  ASSUME FeedInv, Reader!ReadPage
  PROVE  \E size \in 0 .. Limit : \E rows \in [1 .. size -> Reader!Matching] :
           /\ \A i, j \in 1 .. size : i < j => Reader!Above(rows[i], rows[j])
           /\ \A i \in 1 .. size, c \in Reader!Matching :
                (\A j \in 1 .. size : rows[j] # c) => Reader!Above(rows[i], c)
           /\ seen' = seen \o rows
           /\ \/ /\ \A c \in Reader!Matching : \E j \in 1 .. size : rows[j] = c
                 /\ reading' = "end" /\ cursor' = cursor
              \/ /\ size = Limit /\ reading' = "pages"
                 /\ cursor' = <<publishedAt[rows[Limit]], rows[Limit]>>
<1>1. PICK size \in 0 .. Limit : \E rows \in [1 .. size -> Reader!Matching] :
        /\ Reader!IsPage(rows) /\ seen' = seen \o rows
        /\ reading' = IF Reader!ToSet(rows) # Reader!Matching THEN "pages" ELSE "end"
        /\ cursor' = IF Reader!ToSet(rows) # Reader!Matching
                       THEN <<publishedAt[rows[Limit]], rows[Limit]>> ELSE cursor
  BY DEF Reader!ReadPage
<1>2. PICK rows \in [1 .. size -> Reader!Matching] :
        /\ Reader!IsPage(rows) /\ seen' = seen \o rows
        /\ reading' = IF Reader!ToSet(rows) # Reader!Matching THEN "pages" ELSE "end"
        /\ cursor' = IF Reader!ToSet(rows) # Reader!Matching
                       THEN <<publishedAt[rows[Limit]], rows[Limit]>> ELSE cursor
  BY <1>1
<1>3. size \in Nat /\ size <= Limit /\ Limit \in Nat
  BY LibraryAssumption
<1>4. DOMAIN rows = 1 .. size /\ Len(rows) = size /\ rows \in Seq(Reader!Matching)
  BY <1>3
<1>5. \A c : c \in Reader!ToSet(rows) <=> \E j \in 1 .. size : rows[j] = c
  BY <1>4 DEF Reader!ToSet
<1>6. /\ \A i, j \in 1 .. size : i < j => Reader!Above(rows[i], rows[j])
      /\ \A i \in 1 .. size, c \in Reader!Matching :
           (\A j \in 1 .. size : rows[j] # c) => Reader!Above(rows[i], c)
  BY <1>2, <1>4, <1>5 DEF Reader!IsPage
<1>7. size < Limit => Reader!ToSet(rows) = Reader!Matching
  BY <1>2, <1>4 DEF Reader!IsPage
<1>8. CASE Reader!ToSet(rows) = Reader!Matching
  <2>1. /\ \A c \in Reader!Matching : \E j \in 1 .. size : rows[j] = c
        /\ reading' = "end" /\ cursor' = cursor
    BY <1>2, <1>5, <1>8
  <2> QED
    BY <1>2, <1>6, <2>1
<1>9. CASE Reader!ToSet(rows) # Reader!Matching
  <2>1. /\ size = Limit /\ reading' = "pages"
        /\ cursor' = <<publishedAt[rows[Limit]], rows[Limit]>>
    BY <1>2, <1>3, <1>7, <1>9
  <2> QED
    BY <1>2, <1>6, <2>1
<1> QED
  BY <1>8, <1>9

\* A page gives the reader nothing twice, and leaves what it left out below the next cursor.
LEMMA ReadPageKeeps == ASSUME FeedInv, Reader!ReadPage PROVE FeedInv'
<1>0. /\ publishedAt \in [1 .. Contents -> Nat] /\ seen \in Seq(1 .. Contents)
      /\ reading \in {"no", "pages"} /\ UNCHANGED <<moment, publishedAt, archived>>
      /\ before' = IF reading = "no" THEN Reader!Public ELSE before
      /\ Contents \in Nat /\ Limit \in Nat \ {0}
  BY LibraryAssumption DEF FeedInv, Reader!ReadPage
<1>1. \A c \in Reader!Matching : /\ c \in 1 .. Contents /\ publishedAt[c] # 0 /\ c \notin archived
                                 /\ Reader!Behind(c)
  BY DEF Reader!Matching, Reader!Public
<1>2. PICK size \in 0 .. Limit : \E rows \in [1 .. size -> Reader!Matching] :
           /\ \A i, j \in 1 .. size : i < j => Reader!Above(rows[i], rows[j])
           /\ \A i \in 1 .. size, c \in Reader!Matching :
                (\A j \in 1 .. size : rows[j] # c) => Reader!Above(rows[i], c)
           /\ seen' = seen \o rows
           /\ \/ /\ \A c \in Reader!Matching : \E j \in 1 .. size : rows[j] = c
                 /\ reading' = "end" /\ cursor' = cursor
              \/ /\ size = Limit /\ reading' = "pages"
                 /\ cursor' = <<publishedAt[rows[Limit]], rows[Limit]>>
  BY ThePage
<1>3. PICK rows \in [1 .. size -> Reader!Matching] :
           /\ \A i, j \in 1 .. size : i < j => Reader!Above(rows[i], rows[j])
           /\ \A i \in 1 .. size, c \in Reader!Matching :
                (\A j \in 1 .. size : rows[j] # c) => Reader!Above(rows[i], c)
           /\ seen' = seen \o rows
           /\ \/ /\ \A c \in Reader!Matching : \E j \in 1 .. size : rows[j] = c
                 /\ reading' = "end" /\ cursor' = cursor
              \/ /\ size = Limit /\ reading' = "pages"
                 /\ cursor' = <<publishedAt[rows[Limit]], rows[Limit]>>
  BY <1>2
<1>4. size \in Nat /\ Len(seen) \in Nat
  BY <1>0
<1> DEFINE n == Len(seen)
<1>5. /\ seen' \in Seq(1 .. Contents) /\ Len(seen') = n + size
      /\ \A i \in 1 .. n : seen'[i] = seen[i]
      /\ \A i \in 1 .. size : seen'[n + i] = rows[i]
      /\ \A i \in 1 .. size : rows[i] \in Reader!Matching /\ rows[i] \in 1 .. Contents
      /\ \A i \in 1 .. n : seen[i] \in 1 .. Contents
  <2>0. rows \in [1 .. size -> 1 .. Contents]
    BY <1>1
  <2>1. rows \in Seq(1 .. Contents) /\ Len(rows) = size
    <3>1. DOMAIN rows = 1 .. size /\ size \in Nat
      BY <1>4, <2>0
    <3>2. rows \in Seq(1 .. Contents)
      BY <2>0, <3>1, SeqDef
    <3> QED
      BY <3>1, <3>2, LenProperties
  <2>2. /\ seen \o rows \in Seq(1 .. Contents) /\ Len(seen \o rows) = n + size
        /\ \A i \in 1 .. n + size : (seen \o rows)[i] = IF i <= n THEN seen[i] ELSE rows[i - n]
    BY <1>0, <2>1, ConcatProperties
  <2>3. ASSUME NEW i \in 1 .. size PROVE (seen \o rows)[n + i] = rows[i]
    <3>1. n + i \in 1 .. n + size /\ ~ (n + i <= n) /\ (n + i) - n = i
      BY <1>4
    <3> QED
      BY <2>2, <3>1
  <2>4. ASSUME NEW i \in 1 .. n PROVE (seen \o rows)[i] = seen[i]
    <3>1. i \in 1 .. n + size /\ i <= n
      BY <1>4
    <3> QED
      BY <2>2, <3>1
  <2>5. seen' = seen \o rows
    BY <1>3
  <2>6. \A i \in 1 .. size : rows[i] \in Reader!Matching /\ rows[i] \in 1 .. Contents
    BY <1>1
  <2>7. \A i \in 1 .. n : seen[i] \in 1 .. Contents
    BY <1>0, ElementOfSeq
  <2> QED
    BY <2>2, <2>3, <2>4, <2>5, <2>6, <2>7
<1>6. ASSUME NEW i \in 1 .. n + size PROVE i \in 1 .. n \/ \E k \in 1 .. size : i = n + k
  <2>1. CASE i > n
    <3>1. i - n \in 1 .. size /\ i = n + (i - n)
      BY <1>4, <2>1
    <3> QED
      BY <3>1
  <2>2. CASE i <= n
    BY <1>4, <2>2
  <2> QED
    BY <1>4, <2>1, <2>2
<1> HIDE DEF n
<1>7. ASSUME NEW i \in 1 .. n, NEW c \in Reader!Matching PROVE seen[i] # c
  <2>1. reading = "pages" => ~ Reader!Behind(seen[i])
    BY DEF FeedInv, n
  <2>2. reading = "no" => n = 0
    BY DEF FeedInv, n
  <2>3. n \in Nat /\ n # 0
    BY <1>4, <2>2 DEF n
  <2> QED
    BY <1>0, <1>1, <2>1, <2>2, <2>3
<1>8. \A i, k \in 1 .. size : rows[i] = rows[k] => i = k
  <2> SUFFICES ASSUME NEW i \in 1 .. size, NEW k \in 1 .. size, i < k PROVE rows[i] # rows[k]
    BY <1>4
  <2> QED
    BY <1>3, <1>5, AboveIsStrict
<1>9. ASSUME NEW i \in 1 .. n + size, NEW k \in 1 .. n + size, seen'[i] = seen'[k] PROVE i = k
  <2>1. CASE i \in 1 .. n /\ k \in 1 .. n
    BY <1>5, <1>9, <2>1 DEF FeedInv, n
  <2>2. CASE i \in 1 .. n /\ \E h \in 1 .. size : k = n + h
    BY <1>5, <1>7, <1>9, <2>2
  <2>3. CASE k \in 1 .. n /\ \E h \in 1 .. size : i = n + h
    BY <1>5, <1>7, <1>9, <2>3
  <2>4. CASE (\E h \in 1 .. size : i = n + h) /\ \E h \in 1 .. size : k = n + h
    <3>1. PICK g \in 1 .. size : i = n + g
      BY <2>4
    <3>2. PICK h \in 1 .. size : k = n + h
      BY <2>4
    <3>3. rows[g] = rows[h]
      BY <1>5, <1>9, <3>1, <3>2
    <3> QED
      BY <1>8, <3>1, <3>2, <3>3
  <2> QED
    BY <1>6, <2>1, <2>2, <2>3, <2>4
<1>10. ASSUME NEW i \in 1 .. n + size PROVE publishedAt[seen'[i]] # 0
  <2>1. CASE i \in 1 .. n
    BY <1>5, <2>1 DEF FeedInv, n
  <2>2. CASE \E k \in 1 .. size : i = n + k
    BY <1>1, <1>5, <2>2
  <2> QED
    BY <1>6, <2>1, <2>2
<1>11. before' \subseteq {c \in 1 .. Contents : publishedAt[c] # 0}
  BY <1>0 DEF FeedInv, Reader!Public
<1>12. ASSUME NEW c \in before' \ archived
       PROVE  (\E i \in 1 .. n : seen[i] = c) \/ c \in Reader!Matching
  <2>1. CASE reading = "no"
    BY <1>0, <1>12, <2>1 DEF FeedInv, Reader!Matching, Reader!Public, Reader!Behind
  <2>2. CASE reading = "pages"
    BY <1>0, <1>12, <2>2 DEF FeedInv, Reader!Matching, Reader!Public, n
  <2> QED
    BY <1>0, <2>1, <2>2
<1>13. ASSUME NEW c, (\E i \in 1 .. n : seen[i] = c) \/ \E k \in 1 .. size : rows[k] = c
       PROVE  \E i \in 1 .. n + size : seen'[i] = c
  <2>1. \A i \in 1 .. n : i \in 1 .. n + size
    BY <1>4 DEF n
  <2>2. \A k \in 1 .. size : n + k \in 1 .. n + size
    BY <1>4 DEF n
  <2> QED
    BY <1>5, <1>13, <2>1, <2>2
<1>14. CASE reading' = "end"
  <2>1. \A c \in Reader!Matching : \E j \in 1 .. size : rows[j] = c
    BY <1>3, <1>14
  <2>2. \A c \in before' \ archived : \E i \in 1 .. n + size : seen'[i] = c
    BY <1>12, <1>13, <2>1
  <2> QED
    BY <1>0, <1>5, <1>9, <1>10, <1>11, <1>14, <2>2 DEF FeedInv
<1>15. CASE reading' = "pages"
  <2> DEFINE last == rows[Limit]
  <2>1. /\ size = Limit /\ Limit \in 1 .. size /\ last \in Reader!Matching /\ last \in 1 .. Contents
        /\ cursor' = <<publishedAt[last], last>> /\ publishedAt[last] # 0
    BY <1>0, <1>1, <1>3, <1>4, <1>5, <1>15
  <2> HIDE DEF last
  <2>2. ASSUME NEW d \in 1 .. Contents PROVE Reader!Behind(d)' <=> Reader!Above(last, d)
    <3>1. Reader!Behind(d)' <=> \/ cursor' = <<>> \/ publishedAt[d] < cursor'[1]
                                \/ publishedAt[d] = cursor'[1] /\ d < cursor'[2]
      BY <1>0 DEF Reader!Behind
    <3>2. cursor' # <<>> /\ cursor'[1] = publishedAt[last] /\ cursor'[2] = last
      BY <2>1
    <3> QED
      BY <1>0, <2>1, <3>1, <3>2 DEF Reader!Above
  <2>3. ASSUME NEW i \in 1 .. n PROVE ~ Reader!Above(last, seen[i])
    <3>1. reading = "pages"
      BY <1>0, <1>4, <2>3 DEF FeedInv, n
    <3>2. PICK c \in 1 .. Contents : cursor = <<publishedAt[c], c>>
      BY <3>1 DEF FeedInv
    <3>3. Reader!Above(c, last)
      BY <1>1, <2>1, <3>2, BehindLast
    <3>4. ~ Reader!Above(c, seen[i]) /\ seen[i] \in 1 .. Contents
      BY <1>5, <3>1, <3>2, BehindLast DEF FeedInv, n
    <3> QED
      BY <2>1, <3>3, <3>4, AboveIsStrict
  <2>4. ASSUME NEW k \in 1 .. size PROVE ~ Reader!Above(last, rows[k])
    <3>1. CASE k = Limit
      BY <2>1, <3>1, AboveIsStrict DEF last
    <3>2. CASE k # Limit
      <4>1. k < Limit
        BY <1>4, <2>1, <3>2
      <4>2. Reader!Above(rows[k], last)
        BY <1>3, <2>1, <4>1 DEF last
      <4> QED
        BY <1>5, <2>1, <4>2, AboveIsStrict
    <3> QED
      BY <3>1, <3>2
  <2>5. ASSUME NEW i \in 1 .. n + size PROVE ~ Reader!Behind(seen[i])'
    <3>1. seen'[i] \in 1 .. Contents /\ ~ Reader!Above(last, seen'[i])
      <4>1. CASE i \in 1 .. n
        BY <1>5, <2>3, <4>1
      <4>2. CASE \E k \in 1 .. size : i = n + k
        BY <1>5, <2>4, <4>2
      <4> QED
        BY <1>6, <4>1, <4>2
    <3>2. \A d \in 1 .. Contents : Reader!Above(last, d) \/
             ~ (\/ cursor' = <<>> \/ publishedAt'[d] < cursor'[1]
                \/ publishedAt'[d] = cursor'[1] /\ d < cursor'[2])
      BY <2>2 DEF Reader!Behind
    <3> QED
      BY <3>1, <3>2 DEF Reader!Behind
  <2>6. ASSUME NEW c \in before' \ archived
        PROVE  (\E i \in 1 .. n + size : seen'[i] = c) \/ Reader!Behind(c)'
    <3>1. CASE c \in Reader!Matching /\ \A k \in 1 .. size : rows[k] # c
      BY <1>1, <1>3, <2>1, <2>2, <3>1 DEF last
    <3>2. CASE (\E i \in 1 .. n : seen[i] = c) \/ \E k \in 1 .. size : rows[k] = c
      BY <1>13, <3>2
    <3> QED
      BY <1>12, <2>6, <3>1, <3>2
  <2>7. \E c \in 1 .. Contents : cursor' = <<publishedAt'[c], c>> /\ publishedAt'[c] # 0
    BY <1>0, <2>1
  <2> QED
    BY <1>0, <1>5, <1>9, <1>10, <1>11, <1>15, <2>5, <2>6, <2>7 DEF FeedInv
<1> QED
  BY <1>3, <1>14, <1>15

\* A content that is published is in nobody's hands, and the cursor is of another.
LEMMA PublishContentKeeps == ASSUME FeedInv, Reader!PublishContent PROVE FeedInv'
<1>1. PICK c \in 1 .. Contents : publishedAt[c] = 0 /\ publishedAt' = [publishedAt EXCEPT ![c] = moment]
  BY DEF Reader!PublishContent
<1>2. UNCHANGED <<moment, archived, cursor, seen, reading, before>>
  BY DEF Reader!PublishContent
<1>3. /\ publishedAt' \in [1 .. Contents -> Nat]
      /\ \A d \in 1 .. Contents : publishedAt[d] # 0 => publishedAt'[d] = publishedAt[d]
  BY <1>1 DEF FeedInv
<1>0. seen \in Seq(1 .. Contents)
  BY DEF FeedInv
<1>4. \A i \in 1 .. Len(seen) : seen[i] \in 1 .. Contents
  BY <1>0, ElementOfSeq
<1>5. \A d \in 1 .. Contents : publishedAt[d] # 0 => (Reader!Behind(d)' <=> Reader!Behind(d))
  BY <1>2, <1>3 DEF Reader!Behind
<1>6. \A i \in 1 .. Len(seen) : publishedAt'[seen[i]] # 0 /\ (Reader!Behind(seen[i])' <=> Reader!Behind(seen[i]))
  <2> SUFFICES ASSUME NEW i \in 1 .. Len(seen)
               PROVE  publishedAt'[seen[i]] # 0 /\ (Reader!Behind(seen[i])' <=> Reader!Behind(seen[i]))
    OBVIOUS
  <2>1. seen[i] \in 1 .. Contents /\ publishedAt[seen[i]] # 0
    BY <1>4 DEF FeedInv
  <2>2. publishedAt'[seen[i]] = publishedAt[seen[i]]
    BY <1>3, <2>1
  <2> QED
    BY <1>2, <2>1, <2>2 DEF Reader!Behind
<1>7. \A d \in before : d \in 1 .. Contents /\ publishedAt[d] # 0 /\ publishedAt'[d] # 0
  BY <1>3 DEF FeedInv
<1>8. ASSUME reading = "pages"
      PROVE  /\ \E d \in 1 .. Contents : cursor = <<publishedAt'[d], d>> /\ publishedAt'[d] # 0
             /\ \A i \in 1 .. Len(seen) : ~ Reader!Behind(seen[i])'
             /\ \A d \in before \ archived : (\E i \in 1 .. Len(seen) : seen[i] = d) \/ Reader!Behind(d)'
  BY <1>3, <1>5, <1>6, <1>7, <1>8 DEF FeedInv
<1>9. before \subseteq {d \in 1 .. Contents : publishedAt'[d] # 0}
  BY <1>7
<1> QED
  BY <1>2, <1>3, <1>6, <1>8, <1>9 DEF FeedInv, Reader!Behind

\* What is archived leaves, and the reader keeps what it has.
LEMMA FeedRests ==
  ASSUME FeedInv, UNCHANGED <<publishedAt, cursor, seen, reading, before>>,
         moment' \in Nat, archived \subseteq archived'
  PROVE  FeedInv'
BY DEF FeedInv, Reader!Behind

\* A step of the feed.
LEMMA FeedSteps == ASSUME FeedInv, Reader!FeedNext \/ UNCHANGED readerVars PROVE FeedInv'
<1>1. CASE Reader!ReadPage
  BY <1>1, ReadPageKeeps
<1>2. CASE Reader!PublishContent
  BY <1>2, PublishContentKeeps
<1>3. CASE Reader!ArchiveContent
  BY <1>3, FeedRests DEF Reader!ArchiveContent, FeedInv
<1>4. CASE Reader!Pass
  BY <1>4, FeedRests DEF Reader!Pass, FeedInv
<1>5. CASE UNCHANGED readerVars
  BY <1>5, FeedRests DEF readerVars, FeedInv
<1> QED
  BY <1>1, <1>2, <1>3, <1>4, <1>5 DEF Reader!FeedNext

\* What the invariant says to the reader.
LEMMA FeedInvReads == FeedInv => Reader!FeedIsComplete /\ Reader!SeenOnce
<1> SUFFICES ASSUME FeedInv PROVE Reader!FeedIsComplete /\ Reader!SeenOnce
  OBVIOUS
<1>1. DOMAIN seen = 1 .. Len(seen)
  BY DEF FeedInv
<1>2. Reader!FeedIsComplete
  <2>1. reading = "end" => \A c \in before \ archived : \E i \in DOMAIN seen : seen[i] = c
    BY <1>1 DEF FeedInv
  <2> QED
    BY <2>1 DEF Reader!FeedIsComplete, Reader!ToSet
<1>3. Reader!SeenOnce
  BY <1>1 DEF FeedInv, Reader!SeenOnce, Reader!IsInjective
<1> QED
  BY <1>2, <1>3

-------------------------------------------------------------------------------
(* The short link *)

Bodies == {"none", "notFound", "linked", "unlinked", "redirect"}

Answers == [body : Bodies, at : Nat, ttl : Nat, revalidate : Nat, stale : Nat]

\* An answer that is kept has the directives of its kind, and what has become wrong since
\* was made before the content moved.
AnswerFits(r) ==
  /\ r \in Answers /\ r.at <= tick
  /\ r.body = "redirect" => r.ttl = Reader!RedirectTtl /\ r.revalidate = 0 /\ r.stale = 0
  /\ r.body = "linked" => r.ttl = CacheTtl /\ r.revalidate = RevalidateTtl
  /\ r.body = "unlinked" => r.ttl = 0 /\ r.revalidate = 0 /\ r.stale = 0
  /\ r.body = "notFound" => r.ttl = NotFoundTtl /\ r.revalidate = 0 /\ r.stale = 0
  /\ r.body = "notFound" /\ linkStatus = "published" => r.at <= since
  /\ r.body = "linked" /\ linkStatus = "archived" => r.at <= since

LinkInv ==
  /\ tick \in Nat /\ since \in 0 .. tick /\ watchBase \in BOOLEAN /\ apiUp \in BOOLEAN
  /\ linkStatus \in {"review", "published", "archived"}
  /\ cached \in [{"page", "thumb"} -> Answers]
  /\ \A what \in {"page", "thumb"} : AnswerFits(cached[what])
  /\ served \in [what : {"page", "thumb"}, response : Answers, when : 0 .. tick, late : BOOLEAN]
  /\ Reader!RedirectIsAlive /\ Reader!ErrorsHeal /\ Reader!ArchivedFades

\* A redirect is kept for no longer than its signature lives.
LEMMA RedirectsAreShort ==
  Reader!RedirectTtl \in Nat /\ Reader!RedirectTtl <= PresignTtl
<1>1. PresignTtl \div 2 \in Nat /\ PresignTtl \div 2 <= PresignTtl
  BY LifetimeAssumption
<1> QED
  BY <1>1, LifetimeAssumption DEF Reader!RedirectTtl

\* The api's answer fits the moment it is made.
LEMMA OriginFits ==
  ASSUME LinkInv, NEW what \in {"page", "thumb"}
  PROVE  /\ AnswerFits(Reader!Origin(what)) /\ Reader!Origin(what).at = tick
         /\ Reader!Origin(what).body = "notFound" => linkStatus # "published"
         /\ Reader!Origin(what).body = "linked" => linkStatus = "published"
BY RedirectsAreShort, LifetimeAssumption
   DEF LinkInv, AnswerFits, Answers, Bodies, Reader!Origin, Reader!RenderContentShare,
       Reader!ResolveThumbnail, Reader!SharePage, Reader!Body, Reader!NotFound, Reader!Response

\* What the edge may hand out still holds good then.
LEMMA KeptIsGood ==
  ASSUME LinkInv, NEW r, AnswerFits(r), Reader!Fresh(r) \/ Reader!Stale(r)
  PROVE  /\ r.body = "redirect" => tick < r.at + PresignTtl
         /\ r.body # "unlinked"
         /\ r.body = "notFound" => tick < r.at + NotFoundTtl
         /\ r.body = "linked" /\ apiUp => tick < r.at + CacheTtl + RevalidateTtl
<1>1. /\ tick \in Nat /\ r.at \in Nat /\ r.at <= tick /\ r.ttl \in Nat
      /\ {CacheTtl, NotFoundTtl, PresignTtl, RevalidateTtl} \subseteq Nat
  BY LifetimeAssumption DEF LinkInv, AnswerFits, Answers
<1>2. r.body \in {"redirect", "unlinked", "notFound"} =>
        r.revalidate = 0 /\ r.stale = 0 /\ tick < r.at + r.ttl
  BY <1>1 DEF AnswerFits, Reader!Fresh, Reader!Stale
<1>3. r.body = "linked" /\ apiUp => tick < r.at + CacheTtl + RevalidateTtl
  BY <1>1 DEF AnswerFits, Reader!Fresh, Reader!Stale
<1> QED
  BY <1>1, <1>2, <1>3, RedirectsAreShort DEF AnswerFits

\* A visitor is served what is kept, or what the api answers.
LEMMA VisitKeeps ==
  ASSUME LinkInv, NEW what \in {"page", "thumb"}, Reader!Visit(what) PROVE LinkInv'
<1>0. /\ tick \in Nat /\ since \in 0 .. tick /\ cached \in [{"page", "thumb"} -> Answers]
      /\ UNCHANGED <<tick, linkStatus, since, watchBase, apiUp>>
      /\ apiUp \in BOOLEAN
      /\ {CacheTtl, NotFoundTtl, PresignTtl, RevalidateTtl} \subseteq Nat
      /\ RevalidateTtl > 0 /\ PresignTtl > 0
  BY LifetimeAssumption DEF LinkInv, Reader!Visit
<1>1. /\ cached' \in [{"page", "thumb"} -> Answers]
      /\ \A w \in {"page", "thumb"} : AnswerFits(cached'[w])
  <2>1. AnswerFits(Reader!Origin(what)) /\ Reader!Origin(what) \in Answers
    BY OriginFits DEF AnswerFits
  <2>2. cached' \in {cached, [cached EXCEPT ![what] = Reader!Origin(what)]}
    BY DEF Reader!Visit
  <2>3. \A w \in {"page", "thumb"} : cached'[w] \in {cached[w], Reader!Origin(w)}
    BY <1>0, <2>2
  <2>4. \A w \in {"page", "thumb"} : AnswerFits(cached'[w])
    BY <2>3, OriginFits DEF LinkInv
  <2> QED
    BY <1>0, <2>1, <2>2, <2>4
<1>2. \A w \in {"page", "thumb"} : AnswerFits(cached[w])'
  BY <1>0, <1>1 DEF AnswerFits, Reader!RedirectTtl
<1>3. PICK r \in Answers, unheard \in BOOLEAN :
        /\ served' = [what |-> what, response |-> r, when |-> tick, late |-> unheard]
        /\ AnswerFits(r)
        /\ \/ r = Reader!Origin(what)
           \/ (Reader!Fresh(r) \/ Reader!Stale(r)) /\ unheard = ~ apiUp
  <2>1. CASE /\ Reader!Fresh(cached[what]) \/ Reader!Stale(cached[what])
             /\ served' = [what |-> what, response |-> cached[what], when |-> tick, late |-> ~ apiUp]
    BY <1>0, <2>1 DEF LinkInv
  <2>2. CASE served' = [what |-> what, response |-> Reader!Origin(what), when |-> tick, late |-> FALSE]
    BY <2>2, OriginFits DEF AnswerFits
  <2> QED
    BY <2>1, <2>2 DEF Reader!Visit
<1>4. /\ r.body = "redirect" => tick < r.at + PresignTtl
      /\ r.body = "unlinked" => tick = r.at
      /\ r.body = "notFound" /\ linkStatus = "published" /\ tick > since => tick < since + NotFoundTtl
      /\ r.body = "linked" /\ linkStatus = "archived" /\ ~ unheard =>
           tick < since + CacheTtl + RevalidateTtl
  <2>0. r.at \in Nat
    BY DEF Answers
  <2>1. CASE r = Reader!Origin(what)
    BY <1>0, <2>1, OriginFits
  <2>2. CASE (Reader!Fresh(r) \/ Reader!Stale(r)) /\ unheard = ~ apiUp
    <3>1. /\ r.body = "redirect" => tick < r.at + PresignTtl
          /\ r.body # "unlinked"
          /\ r.body = "notFound" => tick < r.at + NotFoundTtl
          /\ r.body = "linked" /\ apiUp => tick < r.at + CacheTtl + RevalidateTtl
      BY <1>3, <2>2, KeptIsGood
    <3>2. /\ r.body = "notFound" /\ linkStatus = "published" => r.at <= since
          /\ r.body = "linked" /\ linkStatus = "archived" => r.at <= since
      BY <1>3 DEF AnswerFits
    <3>3. r.body = "notFound" /\ linkStatus = "published" => tick < since + NotFoundTtl
      BY <1>0, <2>0, <3>1, <3>2
    <3>5. unheard \/ apiUp
      BY <1>0, <2>2
    <3>4. r.body = "linked" /\ linkStatus = "archived" /\ ~ unheard => tick < since + CacheTtl + RevalidateTtl
      BY <1>0, <2>0, <3>1, <3>2, <3>5
    <3> QED
      BY <3>1, <3>3, <3>4
  <2> QED
    BY <1>3, <2>1, <2>2
<1>5. /\ served' \in [what : {"page", "thumb"}, response : Answers, when : 0 .. tick, late : BOOLEAN]
      /\ served'.response = r /\ served'.when = tick /\ served'.late = unheard
  BY <1>0, <1>3
<1>6. Reader!RedirectIsAlive' /\ Reader!ErrorsHeal' /\ Reader!ArchivedFades'
  BY <1>0, <1>4, <1>5 DEF Reader!RedirectIsAlive, Reader!ErrorsHeal, Reader!ArchivedFades
<1> QED
  BY <1>0, <1>1, <1>2, <1>5, <1>6 DEF LinkInv

\* The content moves: from now on what was answered before is old.
LEMMA MoveKeeps == ASSUME LinkInv, Reader!Move PROVE LinkInv'
<1>1. /\ since' = tick /\ UNCHANGED <<tick, watchBase, apiUp, cached, served>>
      /\ linkStatus' \in {"published", "archived"}
      /\ tick \in Nat /\ served.when \in 0 .. tick /\ cached \in [{"page", "thumb"} -> Answers]
  BY DEF Reader!Move, LinkInv
<1>2. \A w \in {"page", "thumb"} : AnswerFits(cached[w])'
  BY <1>1 DEF LinkInv, AnswerFits, Reader!RedirectTtl
<1>3. Reader!RedirectIsAlive' /\ Reader!ErrorsHeal' /\ Reader!ArchivedFades'
  BY <1>1, LifetimeAssumption
     DEF LinkInv, Reader!RedirectIsAlive, Reader!ErrorsHeal, Reader!ArchivedFades
<1> QED
  BY <1>1, <1>2, <1>3 DEF LinkInv

\* Time passes, the api stops and starts, the destination is set, or nothing happens.
LEMMA LinkRests ==
  ASSUME LinkInv, UNCHANGED <<linkStatus, since, cached, served>>,
         tick' \in Nat, tick' >= tick, watchBase' \in BOOLEAN, apiUp' \in BOOLEAN
  PROVE  LinkInv'
<1>1. tick \in Nat /\ since \in 0 .. tick' /\ served.when \in 0 .. tick'
  BY DEF LinkInv
<1>2. \A w \in {"page", "thumb"} : AnswerFits(cached[w])'
  <2> SUFFICES ASSUME NEW w \in {"page", "thumb"} PROVE AnswerFits(cached[w])'
    OBVIOUS
  <2>1. AnswerFits(cached[w]) /\ cached[w].at \in Nat
    BY DEF LinkInv, Answers
  <2> QED
    BY <1>1, <2>1 DEF AnswerFits, Reader!RedirectTtl
<1>3. Reader!RedirectIsAlive' /\ Reader!ErrorsHeal' /\ Reader!ArchivedFades'
  BY DEF LinkInv, Reader!RedirectIsAlive, Reader!ErrorsHeal, Reader!ArchivedFades
<1>4. served' \in [what : {"page", "thumb"}, response : Answers, when : 0 .. tick', late : BOOLEAN]
  BY <1>1 DEF LinkInv
<1> QED
  BY <1>1, <1>2, <1>3, <1>4 DEF LinkInv

\* A step of the link.
LEMMA LinkSteps == ASSUME LinkInv, Reader!GoNext \/ UNCHANGED linkVars PROVE LinkInv'
<1>1. CASE Reader!Visit("page") \/ Reader!Visit("thumb")
  BY <1>1, VisitKeeps
<1>2. CASE Reader!Move
  BY <1>2, MoveKeeps
<1>3. CASE Reader!SetDestination
  BY <1>3, LinkRests DEF Reader!SetDestination, LinkInv
<1>4. CASE Reader!ApiToggles
  BY <1>4, LinkRests DEF Reader!ApiToggles, LinkInv
<1>5. CASE Reader!TimePasses
  BY <1>5, LinkRests DEF Reader!TimePasses, LinkInv
<1>6. CASE UNCHANGED linkVars
  BY <1>6, LinkRests DEF linkVars, LinkInv
<1> QED
  BY <1>1, <1>2, <1>3, <1>4, <1>5, <1>6 DEF Reader!GoNext

-------------------------------------------------------------------------------
(* The public copies *)

CopyStatus == {"distributing", "published", "archived"}

\* The assets that today's settings select, and their copies in today's bucket.
Selected == {Copies!SelectRendition(settings.height), "thumbnail"}
Own == {<<settings.bucket, a>> : a \in Selected}

Place == Bucket \X Copies!Asset
Removal ==
  [pc : {"none", "select", "clear", "delete", "done", "lost"},
   targets : SUBSET Place, urls : SUBSET Place]

CopiesTyped ==
  /\ contentStatus \in CopyStatus /\ settings \in Copies!Settings
  /\ record \in [Copies!Asset -> Bucket \union {Nowhere}]
  /\ syncing \in [todo : Seq(Copies!Asset), copied : BOOLEAN]
  /\ syncing.copied => syncing.todo # <<>>
  /\ removing \in Removal

\* What is on record is in its bucket until the content is archived, and so is what is about
\* to be put on record (RecordCopy after Copy; nothing is deleted before).
RecordIsTrue ==
  contentStatus # "archived" =>
    /\ removing.pc = "none"
    /\ \A a \in Copies!Asset : record[a] # Nowhere => <<record[a], a>> \in objects
    /\ syncing.copied => <<settings.bucket, Head(syncing.todo)>> \in objects

\* While nothing goes wrong all is within what the settings select, and the removal gets
\* from where it selects to where nothing is left.
RemovalFits ==
  /\ objects \subseteq Own /\ edge \subseteq Own
  /\ \A a \in Copies!Asset : record[a] \in {Nowhere, settings.bucket}
  /\ \A i \in 1 .. Len(syncing.todo) : syncing.todo[i] \in Selected
  /\ ~ settings.serving => objects = {} /\ edge = {} /\ syncing.todo = <<>>
  /\ contentStatus = "archived" => syncing.todo = <<>>
  /\ removing.pc = "clear" => removing.targets = Own
  /\ removing.pc = "delete" =>
       /\ removing.targets \subseteq Own /\ objects \subseteq removing.targets
       /\ edge \subseteq removing.targets \union removing.urls
  /\ removing.pc = "done" => objects = {} /\ edge = {}

CopiesInv == CopiesTyped /\ RecordIsTrue /\ (trouble = {} => RemovalFits)

\* What is selected is an asset.
LEMMA SelectedAreAssets ==
  /\ \A h : Copies!SelectRendition(h) \in Copies!Asset
  /\ "thumbnail" \in Copies!Asset /\ Selected \subseteq Copies!Asset
  /\ Copies!SelectPublicAssets \in Seq(Selected) /\ Len(Copies!SelectPublicAssets) = 2
  /\ Copies!Range(Copies!SelectPublicAssets) = Selected
<1>1. Copies!Range(<<"1080p", "720p">>) = {"1080p", "720p"}
  BY DEF Copies!Range
<1>2. \A h : Copies!SelectRendition(h) \in Copies!Asset
  BY <1>1 DEF Copies!SelectRendition, Copies!Asset
<1>3. Copies!SelectPublicAssets = <<Copies!SelectRendition(settings.height), "thumbnail">>
  BY DEF Copies!SelectPublicAssets
<1>4. /\ Copies!SelectPublicAssets \in Seq(Selected) /\ Len(Copies!SelectPublicAssets) = 2
      /\ Copies!Range(Copies!SelectPublicAssets) = Selected
  BY <1>3 DEF Selected, Copies!Range
<1>5. "thumbnail" \in Copies!Asset
  BY DEF Copies!Asset
<1> QED
  BY <1>2, <1>4, <1>5 DEF Selected

\* The bucket of the settings has a name, which no empty column has.
LEMMA BucketIsNamed == ASSUME CopiesTyped PROVE settings.bucket \in Bucket /\ settings.bucket # Nowhere
BY LibraryAssumption DEF CopiesTyped, Copies!Settings

\* The hook after the publication has yet to copy what is selected.
LEMMA PublishKeeps == ASSUME CopiesInv, Copies!Publish PROVE CopiesInv'
<1>0. CopiesTyped /\ RecordIsTrue /\ (trouble = {} => RemovalFits)
  BY DEF CopiesInv
<1>1. /\ contentStatus = "distributing" /\ contentStatus' = "published"
      /\ syncing' = [todo |-> IF settings.serving THEN Copies!SelectPublicAssets ELSE <<>>,
                     copied |-> FALSE]
      /\ UNCHANGED <<settings, objects, record, removing, edge, trouble>>
  BY DEF Copies!Publish
<1> DEFINE todo == IF settings.serving THEN Copies!SelectPublicAssets ELSE <<>>
<1>2. /\ todo \in Seq(Copies!Asset) /\ (~ settings.serving => todo = <<>>)
      /\ \A i \in 1 .. Len(todo) : todo[i] \in Selected
  <2>1. CASE settings.serving
    <3>1. todo \in Seq(Selected)
      BY <2>1, SelectedAreAssets
    <3>2. todo \in Seq(Copies!Asset)
      BY <3>1, SelectedAreAssets, SeqMonotonic
    <3> HIDE DEF todo
    <3> QED
      BY <2>1, <3>1, <3>2, ElementOfSeq
  <2>2. CASE ~ settings.serving
    BY <2>2
  <2> QED
    BY <2>1, <2>2
<1>3. syncing'.todo = todo /\ syncing'.copied = FALSE /\ syncing' = [todo |-> todo, copied |-> FALSE]
  BY <1>1
<1> HIDE DEF todo
<1>4. CopiesTyped'
  BY <1>0, <1>1, <1>2, <1>3 DEF CopiesTyped, CopyStatus
<1>5. RecordIsTrue'
  BY <1>0, <1>1, <1>3 DEF RecordIsTrue
<1>6. ASSUME trouble' = {} PROVE RemovalFits'
  <2>1. removing.pc = "none" /\ RemovalFits /\ Own' = Own /\ Selected' = Selected
    BY <1>0, <1>1, <1>6 DEF RecordIsTrue, Own, Selected, Copies!SelectRendition
  <2> QED
    BY <1>1, <1>2, <1>3, <2>1 DEF RemovalFits
<1> QED
  BY <1>4, <1>5, <1>6 DEF CopiesInv

\* What is left to copy, without its first.
LEMMA TheRest ==
  ASSUME CopiesTyped, syncing.todo # <<>>
  PROVE  /\ Head(syncing.todo) \in Copies!Asset /\ Tail(syncing.todo) \in Seq(Copies!Asset)
         /\ Head(syncing.todo) = syncing.todo[1] /\ 1 \in 1 .. Len(syncing.todo)
         /\ \A i \in 1 .. Len(Tail(syncing.todo)) :
              i + 1 \in 1 .. Len(syncing.todo) /\ Tail(syncing.todo)[i] = syncing.todo[i + 1]
<1>1. syncing.todo \in Seq(Copies!Asset)
  BY DEF CopiesTyped
<1>2. /\ Head(syncing.todo) \in Copies!Asset /\ Tail(syncing.todo) \in Seq(Copies!Asset)
      /\ Len(Tail(syncing.todo)) = Len(syncing.todo) - 1
      /\ \A i \in 1 .. Len(Tail(syncing.todo)) : Tail(syncing.todo)[i] = syncing.todo[i + 1]
  BY <1>1, HeadTailProperties
<1>3. Len(syncing.todo) \in Nat /\ Len(syncing.todo) # 0
  BY <1>1, EmptySeq, LenProperties
<1>4. Head(syncing.todo) = syncing.todo[1]
  BY <1>1
<1> QED
  BY <1>2, <1>3, <1>4

\* What is copied is selected, and in the bucket before it is put on record.
LEMMA CopyKeeps == ASSUME CopiesInv, Copies!Copy PROVE CopiesInv'
<1>0. CopiesTyped /\ RecordIsTrue /\ (trouble = {} => RemovalFits)
  BY DEF CopiesInv
<1>1. /\ syncing.todo # <<>> /\ UNCHANGED <<contentStatus, settings, record, removing, edge, trouble>>
      /\ syncing \in [todo : Seq(Copies!Asset), copied : BOOLEAN]
  BY <1>0 DEF Copies!Copy, CopiesTyped
<1>2. Own' = Own /\ Selected' = Selected
  BY <1>1 DEF Own, Selected, Copies!SelectRendition
<1>3. CASE /\ objects' = objects \union {<<settings.bucket, Head(syncing.todo)>>}
           /\ syncing' = [syncing EXCEPT !.copied = TRUE]
  <2>1. syncing'.todo = syncing.todo /\ syncing' \in [todo : Seq(Copies!Asset), copied : BOOLEAN]
    BY <1>1, <1>3
  <2>2. CopiesTyped' /\ RecordIsTrue'
    BY <1>0, <1>1, <1>3, <2>1 DEF CopiesTyped, RecordIsTrue
  <2>3. ASSUME trouble' = {} PROVE RemovalFits'
    <3>1. RemovalFits /\ settings.serving /\ contentStatus # "archived" /\ removing.pc = "none"
      BY <1>0, <1>1, <2>3 DEF RemovalFits, RecordIsTrue, CopiesTyped, Copies!Settings
    <3>2. Head(syncing.todo) \in Selected
      BY <1>0, <1>1, <3>1, TheRest DEF RemovalFits
    <3>3. objects' \subseteq Own
      BY <1>3, <3>1, <3>2 DEF RemovalFits, Own
    <3> QED
      BY <1>1, <1>2, <2>1, <3>1, <3>3 DEF RemovalFits
  <2> QED
    BY <2>2, <2>3 DEF CopiesInv
<1>4. CASE syncing' = [syncing EXCEPT !.todo = Tail(@)] /\ ~ syncing.copied /\ UNCHANGED objects
  <2> DEFINE rest == Tail(syncing.todo)
  <2>0. /\ rest \in Seq(Copies!Asset)
        /\ \A i \in 1 .. Len(rest) : i + 1 \in 1 .. Len(syncing.todo) /\ rest[i] = syncing.todo[i + 1]
    BY <1>0, <1>1, TheRest
  <2>1. /\ syncing'.todo = rest /\ syncing'.copied = FALSE
        /\ syncing' \in [todo : Seq(Copies!Asset), copied : BOOLEAN]
    BY <1>1, <1>4, <2>0
  <2> HIDE DEF rest
  <2>2. CopiesTyped' /\ RecordIsTrue'
    BY <1>0, <1>1, <1>4, <2>1 DEF CopiesTyped, RecordIsTrue
  <2>3. ASSUME trouble' = {} PROVE RemovalFits'
    <3>1. RemovalFits /\ settings.serving /\ contentStatus # "archived" /\ removing.pc = "none"
      BY <1>0, <1>1, <2>3 DEF RemovalFits, RecordIsTrue, CopiesTyped, Copies!Settings
    <3>2. \A i \in 1 .. Len(rest) : rest[i] \in Selected
      BY <2>0, <3>1 DEF RemovalFits
    <3> QED
      BY <1>1, <1>2, <1>4, <2>1, <3>1, <3>2 DEF RemovalFits
  <2> QED
    BY <2>2, <2>3 DEF CopiesInv
<1> QED
  BY <1>3, <1>4 DEF Copies!Copy

\* What is put on record is what was copied.
LEMMA RecordCopyKeeps == ASSUME CopiesInv, Copies!RecordCopy PROVE CopiesInv'
<1>0. CopiesTyped /\ RecordIsTrue /\ (trouble = {} => RemovalFits)
  BY DEF CopiesInv
<1> DEFINE rest == Tail(syncing.todo)
           one == Head(syncing.todo)
<1>1. /\ syncing.copied /\ syncing.todo # <<>>
      /\ syncing' = [todo |-> rest, copied |-> FALSE]
      /\ record' \in {record, [record EXCEPT ![one] = settings.bucket]}
      /\ UNCHANGED <<contentStatus, settings, objects, removing, edge, trouble>>
  BY <1>0 DEF Copies!RecordCopy, CopiesTyped
<1>2. Own' = Own /\ Selected' = Selected
  BY <1>1 DEF Own, Selected, Copies!SelectRendition
<1>3. /\ rest \in Seq(Copies!Asset) /\ one \in Copies!Asset
      /\ \A i \in 1 .. Len(rest) : i + 1 \in 1 .. Len(syncing.todo) /\ rest[i] = syncing.todo[i + 1]
  BY <1>0, <1>1, TheRest
<1>4. RecordIsTrue /\ (contentStatus # "archived" => <<settings.bucket, one>> \in objects)
  BY <1>0, <1>1 DEF RecordIsTrue
<1> HIDE DEF rest, one
<1>5. /\ syncing'.todo = rest /\ syncing'.copied = FALSE
      /\ syncing' \in [todo : Seq(Copies!Asset), copied : BOOLEAN]
  BY <1>1, <1>3
<1>6. /\ record' \in [Copies!Asset -> Bucket \union {Nowhere}]
      /\ \A a \in Copies!Asset : record'[a] = record[a] \/ (a = one /\ record'[a] = settings.bucket)
  BY <1>0, <1>1, <1>3, BucketIsNamed DEF CopiesTyped
<1>7. CopiesTyped'
  BY <1>0, <1>1, <1>5, <1>6 DEF CopiesTyped
<1>8. RecordIsTrue'
  BY <1>1, <1>4, <1>5, <1>6 DEF RecordIsTrue
<1>9. ASSUME trouble' = {} PROVE RemovalFits'
  <2>1. RemovalFits /\ settings.serving /\ contentStatus # "archived" /\ removing.pc = "none"
    BY <1>0, <1>1, <1>9 DEF RemovalFits, RecordIsTrue, CopiesTyped, Copies!Settings
  <2>2. \A i \in 1 .. Len(rest) : rest[i] \in Selected
    BY <1>3, <2>1 DEF RemovalFits
  <2>3. \A a \in Copies!Asset : record'[a] \in {Nowhere, settings.bucket}
    BY <1>6, <2>1 DEF RemovalFits
  <2> QED
    BY <1>1, <1>2, <1>5, <2>1, <2>2, <2>3 DEF RemovalFits
<1> QED
  BY <1>7, <1>8, <1>9 DEF CopiesInv

\* From here on the content is archived, and nothing is promised of the record any more.
LEMMA ArchiveKeeps == ASSUME CopiesInv, Copies!Archive PROVE CopiesInv'
<1>0. CopiesTyped /\ (trouble = {} => RemovalFits)
  BY DEF CopiesInv
<1>1. /\ contentStatus' = "archived" /\ removing' = [pc |-> "select", targets |-> {}, urls |-> {}]
      /\ trouble' = IF syncing.todo # <<>> THEN trouble \union {"overtaken"} ELSE trouble
      /\ UNCHANGED <<settings, objects, record, syncing, edge>>
  BY DEF Copies!Archive, Copies!noRemoval
<1>2. CopiesTyped' /\ RecordIsTrue'
  BY <1>0, <1>1 DEF CopiesTyped, RecordIsTrue, CopyStatus, Removal
<1>3. ASSUME trouble' = {} PROVE RemovalFits'
  <2>1. RemovalFits /\ syncing.todo = <<>> /\ Own' = Own /\ Selected' = Selected
    BY <1>0, <1>1, <1>3 DEF Own, Selected, Copies!SelectRendition
  <2> QED
    BY <1>1, <2>1 DEF RemovalFits
<1> QED
  BY <1>2, <1>3 DEF CopiesInv

\* A step of the removal: the content is archived, so the record may be cleared.
LEMMA RemovalMoves ==
  ASSUME CopiesInv, removing.pc # "none", removing'.pc # "none", removing' \in Removal,
         UNCHANGED <<contentStatus, settings, syncing>>,
         record' \in [Copies!Asset -> Bucket \union {Nowhere}],
         trouble' = {} => /\ trouble = {} /\ objects' \subseteq objects /\ edge' \subseteq edge
                          /\ \A a \in Copies!Asset : record'[a] \in {record[a], Nowhere}
                          /\ removing'.pc = "clear" => removing'.targets = Own
                          /\ removing'.pc = "delete" =>
                               /\ removing'.targets \subseteq Own
                               /\ objects' \subseteq removing'.targets
                               /\ edge' \subseteq removing'.targets \union removing'.urls
                          /\ removing'.pc = "done" => objects' = {} /\ edge' = {}
  PROVE  CopiesInv'
<1>0. CopiesTyped /\ RecordIsTrue /\ (trouble = {} => RemovalFits)
  BY DEF CopiesInv
<1>1. contentStatus' = "archived"
  BY <1>0 DEF RecordIsTrue
<1>2. CopiesTyped' /\ RecordIsTrue'
  BY <1>0, <1>1 DEF CopiesTyped, RecordIsTrue
<1>3. ASSUME trouble' = {} PROVE RemovalFits'
  <2>1. RemovalFits /\ Own' = Own /\ Selected' = Selected
    BY <1>0, <1>3 DEF Own, Selected, Copies!SelectRendition
  <2>2. \A a \in Copies!Asset : record'[a] \in {Nowhere, settings.bucket}
    BY <1>3, <2>1 DEF RemovalFits
  <2> QED
    BY <1>3, <2>1, <2>2 DEF RemovalFits
<1> QED
  BY <1>2, <1>3 DEF CopiesInv

\* What is selected for the removal is all there is, as long as nothing went wrong.
LEMMA SelectForRemovalKeeps == ASSUME CopiesInv, Copies!SelectForRemoval PROVE CopiesInv'
<1>0. CopiesTyped /\ (trouble = {} => RemovalFits)
  BY DEF CopiesInv
<1>1. /\ removing.pc = "select" /\ removing'.pc = "clear" /\ removing'.targets = Copies!RemovalTargets
      /\ UNCHANGED <<contentStatus, settings, objects, record, syncing, edge, trouble>>
  BY DEF Copies!SelectForRemoval
<1>4. removing' \in Removal
  <2>1. \A a \in Selected : Copies!PublicRef(a) \in Place
    BY <1>0, SelectedAreAssets, BucketIsNamed DEF CopiesTyped, Copies!PublicRef, Place
  <2>2. Copies!RemovalTargets \subseteq Place
    BY <2>1, SelectedAreAssets DEF Copies!RemovalTargets
  <2> QED
    BY <2>2 DEF Copies!SelectForRemoval, Removal
<1>2. ASSUME trouble = {} PROVE Copies!RemovalTargets = Own
  <2>1. \A a \in Selected : Copies!PublicRef(a) = <<settings.bucket, a>>
    BY <1>0, <1>2, SelectedAreAssets DEF RemovalFits, Copies!PublicRef
  <2> QED
    BY <2>1, SelectedAreAssets DEF Copies!RemovalTargets, Own
<1>3. record' \in [Copies!Asset -> Bucket \union {Nowhere}]
  BY <1>0, <1>1 DEF CopiesTyped
<1> QED
  BY <1>1, <1>2, <1>3, <1>4, RemovalMoves

\* The record is cleared before anything is deleted.
LEMMA ClearRecordKeeps == ASSUME CopiesInv, Copies!ClearRecord PROVE CopiesInv'
<1>0. CopiesTyped /\ (trouble = {} => RemovalFits)
  BY DEF CopiesInv
<1>1. /\ removing.pc = "clear" /\ removing' = [removing EXCEPT !.pc = "delete"]
      /\ record' \in {record, [a \in Copies!Asset |-> IF \E t \in removing.targets : t[2] = a
                                                        THEN Nowhere ELSE record[a]]}
      /\ UNCHANGED <<contentStatus, settings, objects, syncing, edge, trouble>>
  BY DEF Copies!ClearRecord
<1>2. /\ record' \in [Copies!Asset -> Bucket \union {Nowhere}]
      /\ \A a \in Copies!Asset : record'[a] \in {record[a], Nowhere}
  BY <1>0, <1>1 DEF CopiesTyped
<1>3. /\ removing' \in Removal /\ removing'.pc = "delete"
      /\ removing'.targets = removing.targets
  BY <1>0, <1>1 DEF CopiesTyped, Removal
<1> QED
  BY <1>0, <1>1, <1>2, <1>3, RemovalMoves DEF RemovalFits

\* Each copy is deleted and its URL noted, or something has gone wrong.
LEMMA DeleteCopyKeeps == ASSUME CopiesInv, Copies!DeleteCopy PROVE CopiesInv'
<1>0. CopiesTyped /\ (trouble = {} => RemovalFits)
  BY DEF CopiesInv
<1>1. PICK target \in removing.targets :
        /\ \/ objects' = objects \ {target} /\ UNCHANGED trouble
           \/ trouble' = trouble \union {"delete"} /\ UNCHANGED objects
        /\ removing' = [removing EXCEPT
             !.targets = @ \ {target},
             !.urls = IF settings.serving THEN @ \union {<<settings.bucket, target[2]>>} ELSE @]
  BY DEF Copies!DeleteCopy
<1>2. removing.pc = "delete" /\ UNCHANGED <<contentStatus, settings, record, syncing, edge>>
  BY DEF Copies!DeleteCopy
<1> DEFINE noted == IF settings.serving THEN removing.urls \union {<<settings.bucket, target[2]>>}
                    ELSE removing.urls
<1>3. /\ target \in Place /\ removing.targets \subseteq Place /\ removing.urls \subseteq Place
      /\ <<settings.bucket, target[2]>> \in Place
  BY <1>0, <1>1, BucketIsNamed DEF CopiesTyped, Removal, Place
<1>4. noted \subseteq Place
  BY <1>3
<1>5. /\ removing' \in Removal /\ removing'.pc = "delete"
      /\ removing'.targets = removing.targets \ {target} /\ removing'.urls = noted
  <2>1. removing' = [removing EXCEPT !.targets = removing.targets \ {target}, !.urls = noted]
    BY <1>0, <1>1 DEF CopiesTyped, Removal
  <2> HIDE DEF noted
  <2> QED
    BY <1>0, <1>2, <1>3, <1>4, <2>1 DEF CopiesTyped, Removal
<1>6. ASSUME trouble' = {}
      PROVE  /\ trouble = {} /\ objects' \subseteq objects
             /\ removing'.targets \subseteq Own /\ objects' \subseteq removing'.targets
             /\ edge' \subseteq removing'.targets \union removing'.urls
  <2>1. trouble = {} /\ objects' = objects \ {target} /\ RemovalFits
    BY <1>0, <1>1, <1>6
  <2>2. target \in Own /\ target = <<settings.bucket, target[2]>>
    BY <1>1, <1>2, <2>1 DEF RemovalFits, Own
  <2>3. edge \subseteq (removing.targets \ {target}) \union noted
    BY <1>2, <2>1, <2>2 DEF RemovalFits
  <2> QED
    BY <1>2, <1>5, <2>1, <2>3 DEF RemovalFits
<1> QED
  BY <1>0, <1>2, <1>5, <1>6, RemovalMoves DEF CopiesTyped

\* Nothing is left to delete, and what the edge still holds is noted.
LEMMA PurgeKeeps == ASSUME CopiesInv, Copies!Purge PROVE CopiesInv'
<1>0. CopiesTyped /\ (trouble = {} => RemovalFits)
  BY DEF CopiesInv
<1>1. /\ removing.pc = "delete" /\ removing.targets = {}
      /\ removing' = [removing EXCEPT !.pc = "done"]
      /\ \/ edge' = edge \ removing.urls /\ UNCHANGED trouble
         \/ trouble' = trouble \union {"purge"} /\ UNCHANGED edge
      /\ UNCHANGED <<contentStatus, settings, objects, record, syncing>>
  BY DEF Copies!Purge
<1>2. removing' \in Removal /\ removing'.pc = "done"
  BY <1>0, <1>1 DEF CopiesTyped, Removal
<1>3. ASSUME trouble' = {} PROVE trouble = {} /\ objects' = {} /\ edge' = {}
  BY <1>0, <1>1, <1>3 DEF RemovalFits
<1> QED
  BY <1>0, <1>1, <1>2, <1>3, RemovalMoves DEF CopiesTyped

\* The edge takes what is there, within what the removal will delete.
LEMMA FetchKeeps == ASSUME CopiesInv, Copies!Fetch PROVE CopiesInv'
<1>0. CopiesTyped /\ RecordIsTrue /\ (trouble = {} => RemovalFits)
  BY DEF CopiesInv
<1>1. PICK url \in objects : edge' = edge \union {url}
  BY DEF Copies!Fetch
<1>2. UNCHANGED <<contentStatus, settings, objects, record, syncing, removing, trouble>>
  BY DEF Copies!Fetch
<1>3. CopiesTyped' /\ RecordIsTrue'
  BY <1>0, <1>2 DEF CopiesTyped, RecordIsTrue
<1>4. ASSUME trouble' = {} PROVE RemovalFits'
  <2>1. RemovalFits /\ Own' = Own /\ Selected' = Selected
    BY <1>0, <1>2, <1>4 DEF Own, Selected, Copies!SelectRendition
  <2> QED
    BY <1>1, <1>2, <2>1 DEF RemovalFits
<1> QED
  BY <1>3, <1>4 DEF CopiesInv

\* A restart drops the hooks; with the old settings all stays within them.
LEMMA RedeployKeeps == ASSUME CopiesInv, Copies!Redeploy PROVE CopiesInv'
<1>0. CopiesTyped /\ RecordIsTrue /\ (trouble = {} => RemovalFits)
  BY DEF CopiesInv
<1>1. /\ settings' \in Copies!Settings /\ syncing' = [todo |-> <<>>, copied |-> FALSE]
      /\ removing' = IF removing.pc \in {"none", "done"} THEN removing
                     ELSE [pc |-> "lost", targets |-> {}, urls |-> {}]
      /\ trouble' = IF settings' # settings THEN trouble \union {"settings"} ELSE trouble
      /\ UNCHANGED <<contentStatus, objects, record, edge>>
  <2>1. [Copies!noRemoval EXCEPT !.pc = "lost"] = [pc |-> "lost", targets |-> {}, urls |-> {}]
    BY DEF Copies!noRemoval
  <2> QED
    BY <2>1 DEF Copies!Redeploy
<1>2. /\ syncing'.todo = <<>> /\ syncing'.copied = FALSE
      /\ syncing' \in [todo : Seq(Copies!Asset), copied : BOOLEAN]
  BY <1>1
<1>3. /\ removing' \in Removal
      /\ removing' = removing \/ (removing.pc # "none" /\ removing'.pc = "lost")
  BY <1>0, <1>1 DEF CopiesTyped, Removal
<1>4. CopiesTyped'
  BY <1>0, <1>1, <1>2, <1>3 DEF CopiesTyped
<1>5. RecordIsTrue'
  BY <1>0, <1>1, <1>2, <1>3 DEF RecordIsTrue
<1>6. ASSUME trouble' = {} PROVE RemovalFits'
  <2>1. trouble = {} /\ settings' = settings
    BY <1>1, <1>6
  <2>2. RemovalFits /\ Own' = Own /\ Selected' = Selected
    BY <1>0, <2>1 DEF Own, Selected, Copies!SelectRendition
  <2>3. /\ removing'.pc \notin {"clear", "delete"}
        /\ removing'.pc = "done" => removing.pc = "done"
    BY <1>1, <1>3
  <2> QED
    BY <1>1, <1>2, <2>1, <2>2, <2>3 DEF RemovalFits
<1> QED
  BY <1>4, <1>5, <1>6 DEF CopiesInv

\* A step of the copies.
LEMMA CopiesSteps == ASSUME CopiesInv, Copies!PublicNext \/ UNCHANGED copyVars PROVE CopiesInv'
<1>1. CASE UNCHANGED copyVars
  <2>1. UNCHANGED <<contentStatus, settings, objects, record, syncing, removing, edge, trouble>>
    BY <1>1 DEF copyVars
  <2>2. Own' = Own /\ Selected' = Selected
    BY <2>1 DEF Own, Selected, Copies!SelectRendition
  <2> QED
    BY <2>1, <2>2 DEF CopiesInv, CopiesTyped, RecordIsTrue, RemovalFits
<1> QED
  BY <1>1, PublishKeeps, CopyKeeps, RecordCopyKeeps, ArchiveKeeps, SelectForRemovalKeeps,
     ClearRecordKeeps, DeleteCopyKeeps, PurgeKeeps, FetchKeeps, RedeployKeeps
     DEF Copies!PublicNext

\* What the invariant says of URLs and of what was taken out.
LEMMA CopiesInvHolds ==
  CopiesInv => Copies!PublicTypeOK /\ Copies!ServedIsThere /\ Copies!ArchivedIsPrivate
<1> SUFFICES ASSUME CopiesInv
             PROVE  Copies!PublicTypeOK /\ Copies!ServedIsThere /\ Copies!ArchivedIsPrivate
  OBVIOUS
<1>0. CopiesTyped /\ RecordIsTrue /\ (trouble = {} => RemovalFits)
  BY DEF CopiesInv
<1>1. Copies!PublicTypeOK
  BY <1>0 DEF CopiesTyped, Copies!PublicTypeOK
<1>2. Copies!ServedIsThere
  <2> SUFFICES ASSUME NEW a \in Copies!Asset, contentStatus = "published",
                      Copies!PublicUrl(a) # <<>>
               PROVE  Copies!PublicUrl(a) \in objects
    BY SelectedAreAssets DEF Copies!ServedIsThere, Copies!Playback
  <2>1. record[a] = settings.bucket /\ Copies!PublicUrl(a) = <<settings.bucket, a>>
    BY DEF Copies!PublicUrl
  <2> QED
    BY <1>0, <2>1, BucketIsNamed DEF RecordIsTrue
<1>3. Copies!ArchivedIsPrivate
  BY <1>0 DEF RemovalFits, Copies!ArchivedIsPrivate
<1> QED
  BY <1>1, <1>2, <1>3

-------------------------------------------------------------------------------
(* The service *)

PublicInv == CopiesInv /\ FeedInv /\ LinkInv

\* Nothing is published, and nobody has asked.
LEMMA PublicBegins == Init => PublicInv
<1> SUFFICES ASSUME Copies!PublicInit, Reader!FeedInit, Reader!GoInit PROVE PublicInv
  BY DEF Init
<1>1. FeedInv
  BY LibraryAssumption DEF Reader!FeedInit, FeedInv
<1>2. LinkInv
  <2>1. /\ tick = 0 /\ since = 0 /\ linkStatus = "review" /\ watchBase \in BOOLEAN /\ apiUp = TRUE
        /\ cached = [what \in {"page", "thumb"} |-> Reader!Nothing]
        /\ served = [what |-> "page", response |-> Reader!Nothing, when |-> 0, late |-> FALSE]
    BY DEF Reader!GoInit
  <2>2. Reader!Nothing \in Answers /\ Reader!Nothing.body = "none" /\ Reader!Nothing.at = 0
    BY DEF Reader!Nothing, Answers, Bodies
  <2>3. \A what \in {"page", "thumb"} : cached[what] = Reader!Nothing
    BY <2>1
  <2>4. \A what \in {"page", "thumb"} : AnswerFits(cached[what])
    BY <2>1, <2>2, <2>3 DEF AnswerFits
  <2>5. served.response = Reader!Nothing /\ served.when = 0
    BY <2>1
  <2>6. Reader!RedirectIsAlive /\ Reader!ErrorsHeal /\ Reader!ArchivedFades
    BY <2>2, <2>5 DEF Reader!RedirectIsAlive, Reader!ErrorsHeal, Reader!ArchivedFades
  <2> QED
    BY <2>1, <2>2, <2>4, <2>6 DEF LinkInv
<1>3. CopiesInv
  <2>1. /\ contentStatus = "distributing" /\ settings \in Copies!Settings /\ objects = {}
        /\ record = [a \in Copies!Asset |-> Nowhere] /\ edge = {}
        /\ syncing = [todo |-> <<>>, copied |-> FALSE]
        /\ removing = [pc |-> "none", targets |-> {}, urls |-> {}] /\ trouble = {}
    BY DEF Copies!PublicInit, Copies!noRemoval
  <2>2. CopiesTyped /\ RecordIsTrue
    BY <2>1 DEF CopiesTyped, RecordIsTrue, CopyStatus, Removal
  <2>3. RemovalFits
    BY <2>1 DEF RemovalFits
  <2> QED
    BY <2>2, <2>3 DEF CopiesInv
<1> QED
  BY <1>1, <1>2, <1>3 DEF PublicInv

\* The other parts of the service do not touch the library.
LEMMA PublicSteps == PublicInv /\ [Next]_vars => PublicInv'
<1> SUFFICES ASSUME PublicInv, [Next]_vars PROVE PublicInv'
  OBVIOUS
<1>1. /\ Copies!PublicNext \/ UNCHANGED copyVars
      /\ Reader!FeedNext \/ UNCHANGED readerVars
      /\ Reader!GoNext \/ UNCHANGED linkVars
  <2>1. CASE CopiesNext
    BY <2>1 DEF CopiesNext
  <2>2. CASE ReaderNext
    BY <2>2 DEF ReaderNext
  <2>3. CASE LinkNext
    BY <2>3 DEF LinkNext
  <2>4. CASE SessionNext \/ PrompterNext \/ ChatNext
    BY <2>4 DEF SessionNext, PrompterNext, ChatNext, libraryVars
  <2>5. CASE WizardNext \/ DraftNext \/ StationNext \/ WeekNext
    BY <2>5 DEF WizardNext, DraftNext, StationNext, WeekNext, libraryVars
  <2>6. CASE UNCHANGED vars
    BY <2>6 DEF vars, libraryVars
  <2> QED
    BY <2>1, <2>2, <2>3, <2>4, <2>5, <2>6 DEF Next
<1> QED
  BY <1>1, CopiesSteps, FeedSteps, LinkSteps DEF PublicInv

\* What the public sees is what is published: a public URL in an answer is that of an object
\* that exists, and what was archived without a failure is gone from buckets and edge
\* (syncPublishedCopies, removePublishedCopies); a reader of the feed misses nothing and sees
\* nothing twice (FeedService.list); a redirect is not outlived by its signature, wrong answers
\* are not kept, and the preview of an archived content fades (go-link.service.ts).
THEOREM PublicSeesThePublished == Spec => []PublicIsPublished
<1>1. Init => PublicInv
  BY PublicBegins
<1>2. PublicInv /\ [Next]_vars => PublicInv'
  BY PublicSteps
<1>3. PublicInv => PublicIsPublished
  BY CopiesInvHolds, FeedInvReads DEF PublicInv, LinkInv, PublicIsPublished
<1> QED
  BY <1>1, <1>2, <1>3, PTL DEF Spec

-------------------------------------------------------------------------------
(* The drafts *)

\* The wizard: what it has created and not been told of was not answered.
WizardInv ==
  /\ wizard \in [step : Drafts!Step \union {"upload", "left"}, mode : {"simple", "precise"},
                 saved : BOOLEAN, pending : BOOLEAN]
  /\ drafts \in Nat /\ unanswered \in Nat
  /\ wizard.pending => ~ wizard.saved
  /\ drafts <= unanswered + (IF wizard.saved \/ wizard.pending THEN 1 ELSE 0)

\* Requests: what waits to be loaded, and what was checked and waits to be written.
Named == Drafts!Category \union {Drafts!Same}
Topics == {"some", "none"}
SceneIds == Editor \union {"first"}
Loading ==
  {r \in [pc : {"load"}, kind : {"update", "captions"}, by : {"screen", "client"},
          category : Named, topics : Topics \union {Drafts!Same}, scenes : Nat] :
     r.by = "screen" => r.scenes # 0}
Given ==
  {g \in [given : {TRUE}, loaded : Seq(SceneIds), by : {"screen", "client"}, list : Seq(SceneIds)] :
     /\ g.by = "screen" => g.list # <<>>
     /\ \A i \in DOMAIN g.loaded \intersect DOMAIN g.list : g.list[i] = g.loaded[i]}
Checked ==
  {d \in [category : Named, topics : Topics \union {Drafts!Same},
          scenes : Given \union {Drafts!Nothing}] :
     /\ d.category = Drafts!Same <=> d.topics = Drafts!Same
     /\ d.category # Drafts!Same => Drafts!Fits(d.category, d.topics)}
Writing == [kind : {"data"}, pc : {"write"}, data : Checked]
Rows == [status : {"draft", "uploading", "center_review", "revision_requested", "published"},
         category : Drafts!Category, topics : Topics, scenes : Seq(SceneIds)]

RowInv ==
  /\ row \in Rows /\ Drafts!Fits(row.category, row.topics)
  /\ form \in [Editor -> Nat] /\ saves \in Nat
  /\ request \in [Editor -> Loading \union Writing \union {Drafts!idle}]

LEMMA WizardBegins == Drafts!DraftInit => WizardInv
BY DEF Drafts!DraftInit, WizardInv, Drafts!Step

LEMMA WizardSteps ==
  ASSUME WizardInv, Drafts!WizardNext \/ UNCHANGED <<wizard, drafts, unanswered>>
  PROVE  WizardInv'
<1> DEFINE Steps == Drafts!Step \union {"upload", "left"}
           Modes == {"simple", "precise"}
<1>1. CASE Drafts!Forward
  <2>1. PICK s \in Steps, m \in Modes : wizard' = [wizard EXCEPT !.mode = m, !.step = s]
    <3>1. ASSUME wizard.step = "capture", wizard' = [wizard EXCEPT !.step = "mode"]
          PROVE  wizard' = [wizard EXCEPT !.mode = wizard.mode, !.step = "mode"]
      BY <3>1 DEF WizardInv
    <3>2. ASSUME wizard' = [wizard EXCEPT !.step = "classify"]
          PROVE  wizard' = [wizard EXCEPT !.mode = wizard.mode, !.step = "classify"]
      BY <3>2 DEF WizardInv
    <3> QED
      BY <1>1, <3>1, <3>2 DEF Drafts!Forward, WizardInv, Drafts!Step
  <2>2. drafts' = drafts /\ unanswered' = unanswered
    BY <1>1 DEF Drafts!Forward
  <2> QED
    BY <2>1, <2>2 DEF WizardInv
<1>2. CASE Drafts!Back
  <2>1. PICK s : s = Drafts!StepBack(wizard.step, wizard.mode)
    OBVIOUS
  <2>2. s \in Steps
    BY <2>1 DEF Drafts!StepBack, Drafts!Step
  <2>3. /\ wizard' = [wizard EXCEPT !.step = s, !.pending = FALSE] /\ drafts' = drafts
        /\ unanswered' = IF wizard.pending THEN unanswered + 1 ELSE unanswered
    BY <1>2, <2>1 DEF Drafts!Back
  <2>4. /\ wizard' \in [step : Steps, mode : Modes, saved : BOOLEAN, pending : BOOLEAN]
        /\ wizard'.saved = wizard.saved /\ wizard'.pending = FALSE
    BY <2>2, <2>3 DEF WizardInv
  <2>5. CASE wizard.pending
    <3>1. ~ wizard.saved /\ unanswered' = unanswered + 1 /\ drafts <= unanswered + 1
      BY <2>3, <2>5 DEF WizardInv
    <3> QED
      BY <2>3, <2>4, <3>1 DEF WizardInv
  <2>6. CASE ~ wizard.pending
    BY <2>3, <2>4, <2>6 DEF WizardInv
  <2> QED
    BY <2>5, <2>6
<1>3. CASE Drafts!Create
  <2>0. ~ wizard.pending /\ unanswered' = unanswered
    BY <1>3 DEF Drafts!Create, Drafts!MaySave
  <2>1. CASE wizard.saved
    <3>1. wizard' = [wizard EXCEPT !.step = "upload"] /\ drafts' = drafts
      BY <1>3, <2>1 DEF Drafts!Create
    <3> QED
      BY <2>0, <2>1, <3>1 DEF WizardInv
  <2>2. CASE ~ wizard.saved
    <3>1. wizard' = [wizard EXCEPT !.pending = TRUE] /\ drafts' = drafts + 1
      BY <1>3, <2>2 DEF Drafts!Create
    <3>2. drafts \in Nat /\ unanswered \in Nat /\ drafts <= unanswered
      BY <2>0, <2>2 DEF WizardInv
    <3>3. /\ wizard' \in [step : Steps, mode : Modes, saved : BOOLEAN, pending : BOOLEAN]
          /\ wizard'.pending /\ ~ wizard'.saved
      BY <2>2, <3>1 DEF WizardInv
    <3>4. drafts' \in Nat /\ unanswered' \in Nat /\ drafts' <= unanswered' + 1
      BY <2>0, <3>1, <3>2
    <3> QED
      BY <3>3, <3>4 DEF WizardInv
  <2> QED
    BY <2>1, <2>2
<1>4. CASE Drafts!Created
  <2>0. wizard.pending /\ ~ wizard.saved /\ drafts' = drafts /\ drafts <= unanswered + 1
    BY <1>4 DEF Drafts!Created, WizardInv
  <2>1. CASE /\ wizard' = [wizard EXCEPT !.pending = FALSE, !.saved = TRUE, !.step = "upload"]
             /\ unanswered' = unanswered
    BY <2>0, <2>1 DEF WizardInv
  <2>2. CASE unanswered' = unanswered + 1 /\ wizard' = [wizard EXCEPT !.pending = FALSE]
    <3>1. /\ wizard' \in [step : Steps, mode : Modes, saved : BOOLEAN, pending : BOOLEAN]
          /\ ~ wizard'.pending /\ ~ wizard'.saved
      BY <2>0, <2>2 DEF WizardInv
    <3>2. drafts' \in Nat /\ unanswered' \in Nat /\ drafts' <= unanswered' + 0
      BY <2>0, <2>2 DEF WizardInv
    <3> QED
      BY <3>1, <3>2 DEF WizardInv
  <2> QED
    BY <1>4, <2>1, <2>2 DEF Drafts!Created
<1>5. CASE Drafts!LeaveUpload
  BY <1>5 DEF Drafts!LeaveUpload, WizardInv
<1>6. CASE UNCHANGED <<wizard, drafts, unanswered>>
  BY <1>6 DEF WizardInv
<1> QED
  BY <1>1, <1>2, <1>3, <1>4, <1>5, <1>6 DEF Drafts!WizardNext

LEMMA WizardHolds == WizardInv => Drafts!OneDraftPerWizard
BY DEF WizardInv, Drafts!OneDraftPerWizard

LEMMA RowBegins == Drafts!DraftInit => RowInv
<1> SUFFICES ASSUME Drafts!DraftInit PROVE RowInv
  OBVIOUS
<1>1. row \in Rows
  <2>1. \A s \in {<<>>, <<"first">>} : s \in Seq(SceneIds)
    <3>1. <<>> \in Seq(SceneIds) /\ <<"first">> \in Seq(SceneIds)
      BY DEF SceneIds
    <3> QED
      BY <3>1
  <2> QED
    BY <2>1 DEF Drafts!DraftInit, Rows, Topics
<1> QED
  BY <1>1, ScenesAssumption DEF Drafts!DraftInit, RowInv, Drafts!Closed

\* A request that is loaded is checked, and only what fits is left to be written.
LEMMA LoadKeeps ==
  ASSUME RowInv, NEW e \in Editor, Drafts!Load(e)
  PROVE  RowInv'
<1>1. PICK r \in Loading \union Writing \union {Drafts!idle} : r = request[e]
  BY DEF RowInv
<1>2. r \in Loading
  BY <1>1 DEF Drafts!Load, Writing, Drafts!idle
<1>3. UNCHANGED <<row, form, saves>>
  BY DEF Drafts!Load
<1>4. CASE request' = [request EXCEPT ![e] = Drafts!idle]
  BY <1>3, <1>4 DEF RowInv
<1>5. CASE /\ Drafts!Fits(Drafts!Merged(r, "category", row), Drafts!MergedTopics(r, row))
           /\ request' = [request EXCEPT ![e] = [kind |-> "data", pc |-> "write", data |-> Drafts!Data(r, row, e)]]
  <2>1. PICK d : d = Drafts!Data(r, row, e)
    OBVIOUS
  <2>2. r.category \in Named /\ r.topics \in Topics \union {Drafts!Same} /\ r.scenes \in Nat
        /\ row.category \in Drafts!Category /\ row.topics \in Topics /\ row.scenes \in Seq(SceneIds)
        /\ r.by \in {"screen", "client"} /\ (r.by = "screen" => r.scenes # 0)
    BY <1>2 DEF Loading, RowInv, Rows
  <2>3. PICK c : c = Drafts!Merged(r, "category", row)
    OBVIOUS
  <2>4. PICK t : t = Drafts!MergedTopics(r, row)
    OBVIOUS
  <2>5. c = IF r.category = Drafts!Same THEN row.category ELSE r.category
    BY <2>3 DEF Drafts!Merged
  <2>6. c \in Drafts!Category
    BY <2>2, <2>5 DEF Named
  <2>7. t \in Topics
    <3>1. Drafts!Merged(r, "topics", row) = IF r.topics = Drafts!Same THEN row.topics ELSE r.topics
      BY DEF Drafts!Merged
    <3>2. Drafts!Merged(r, "topics", row) \in Topics
      BY <2>2, <3>1
    <3> QED
      BY <2>4, <3>2 DEF Drafts!MergedTopics, Topics
  <2>8. PICK s : s = Drafts!MergeScenes(row.scenes, r.scenes, e)
    OBVIOUS
  <2>9. PICK g : g = [given |-> TRUE, loaded |-> row.scenes, by |-> r.by, list |-> s]
    OBVIOUS
  <2>10. g \in Given
    <3>1. s = [i \in 1 .. r.scenes |-> IF i \in DOMAIN row.scenes THEN row.scenes[i] ELSE e]
      BY <2>8 DEF Drafts!MergeScenes
    <3>2. \A i \in DOMAIN row.scenes : row.scenes[i] \in SceneIds
      BY <2>2
    <3>3. s \in [1 .. r.scenes -> SceneIds] /\ DOMAIN s = 1 .. r.scenes
      BY <3>1, <3>2 DEF SceneIds
    <3>4. s \in Seq(SceneIds) /\ (r.scenes # 0 => s # <<>>)
      BY <2>2, <3>3
    <3>5. \A i \in DOMAIN row.scenes \intersect DOMAIN s : s[i] = row.scenes[i]
      BY <3>1, <3>3
    <3> QED
      BY <2>2, <2>9, <3>4, <3>5 DEF Given
  <2>13. /\ d = [category |-> IF r.category # Drafts!Same \/ r.topics # Drafts!Same THEN c ELSE Drafts!Same,
                 topics |-> IF r.category # Drafts!Same \/ r.topics # Drafts!Same THEN t ELSE Drafts!Same,
                 scenes |-> IF r.scenes = Drafts!Closed THEN Drafts!Nothing ELSE g]
    BY <2>1, <2>3, <2>4, <2>8, <2>9 DEF Drafts!Data
  <2>11. Drafts!Same \notin Drafts!Category /\ Drafts!Same \notin Topics
    BY DEF Drafts!Same, Drafts!Category, Topics
  <2>12. d \in Checked
    BY <1>5, <2>2, <2>3, <2>4, <2>6, <2>7, <2>10, <2>11, <2>13 DEF Checked, Named
  <2> QED
    BY <1>3, <1>5, <2>1, <2>12 DEF RowInv, Writing
<1> QED
  BY <1>1, <1>4, <1>5 DEF Drafts!Load

\* A step that leaves the scenes alone takes nothing away.
LEMMA SameScenes ==
  ASSUME row'.scenes = row.scenes
  PROVE  Drafts!EmptiedOnRequest /\ Drafts!SameIdsUnlessCrossed
BY DEF Drafts!EmptiedOnRequest, Drafts!SameIdsUnlessCrossed

\* What is written was checked as a whole.
LEMMA WriteKeeps ==
  ASSUME RowInv, NEW e \in Editor, Drafts!Write(e)
  PROVE  RowInv' /\ Drafts!EmptiedOnRequest /\ Drafts!SameIdsUnlessCrossed
<1>1. PICK r \in Loading \union Writing \union {Drafts!idle} : r = request[e]
  BY DEF RowInv
<1>2. r \in Writing
  BY <1>1 DEF Drafts!Write, Loading, Drafts!idle
<1>3. PICK d \in Checked : d = request[e].data
  BY <1>1, <1>2 DEF Writing
<1>4. UNCHANGED <<form, saves>> /\ request' = [request EXCEPT ![e] = Drafts!idle]
  BY DEF Drafts!Write
<1>5. PICK c, t, s :
        /\ c = IF d.category = Drafts!Same THEN row.category ELSE d.category
        /\ t = IF d.topics = Drafts!Same THEN row.topics ELSE d.topics
        /\ s = IF d.scenes.given THEN d.scenes.list ELSE row.scenes
        /\ row' = [row EXCEPT !.category = c, !.topics = t, !.scenes = s]
  BY <1>3 DEF Drafts!Write
<1>6. row \in Rows /\ Drafts!Fits(row.category, row.topics)
  BY DEF RowInv
<1>7. (d.scenes \in Given /\ d.scenes.given = TRUE) \/ d.scenes.given = FALSE
  <2>1. d.scenes \in Given => d.scenes.given = TRUE
    BY DEF Given
  <2>2. d.scenes = Drafts!Nothing => d.scenes.given = FALSE
    BY DEF Drafts!Nothing
  <2> QED
    BY <1>3, <2>1, <2>2 DEF Checked
<1>8. c \in Drafts!Category /\ t \in Topics /\ Drafts!Fits(c, t)
  BY <1>3, <1>5, <1>6 DEF Checked, Named, Rows
<1>9. s \in Seq(SceneIds)
  BY <1>5, <1>6, <1>7 DEF Given, Rows
<1>10. row' \in Rows /\ Drafts!Fits(row'.category, row'.topics) /\ row'.scenes = s
  BY <1>5, <1>6, <1>8, <1>9 DEF Rows
<1>11. d.scenes.given => Drafts!WritesScenes(e)
  <2>1. request[e] # Drafts!idle /\ request[e].pc = "write"
    BY DEF Drafts!Write
  <2>2. request'[e] = Drafts!idle
    BY <1>4 DEF RowInv
  <2> QED
    BY <1>3, <2>1, <2>2 DEF Drafts!WritesScenes
<1>12. Drafts!EmptiedOnRequest
  BY <1>3, <1>5, <1>7, <1>10, <1>11 DEF Drafts!EmptiedOnRequest, Given
<1>13. Drafts!SameIdsUnlessCrossed
  <2>1. CASE d.scenes.given = FALSE
    BY <1>5, <1>10, <2>1, SameScenes
  <2>2. CASE d.scenes \in Given /\ d.scenes.given = TRUE
    <3>1. s = d.scenes.list /\ Drafts!WritesScenes(e)
      BY <1>5, <1>11, <2>2
    <3>2. d.scenes.loaded = row.scenes \/ request[e].data.scenes.loaded # row.scenes
      BY <1>3
    <3>3. d.scenes.loaded = row.scenes =>
            \A i \in DOMAIN row.scenes \intersect DOMAIN s : s[i] = row.scenes[i]
      BY <2>2, <3>1 DEF Given
    <3> QED
      BY <1>10, <3>1, <3>2, <3>3 DEF Drafts!SameIdsUnlessCrossed
  <2> QED
    BY <1>7, <2>1, <2>2
<1> QED
  BY <1>4, <1>10, <1>12, <1>13 DEF RowInv

LEMMA SendsKeeps ==
  ASSUME RowInv, NEW e \in Editor, NEW r \in Loading, Drafts!Sends(e, r),
         form' \in [Editor -> Nat]
  PROVE  RowInv' /\ row' = row
<1>1. row' = row /\ saves' = saves + 1 /\ request' = [request EXCEPT ![e] = r]
  BY DEF Drafts!Sends
<1> QED
  BY <1>1 DEF RowInv

LEMMA RowSteps ==
  ASSUME RowInv, Drafts!RowNext \/ UNCHANGED <<row, form, request, saves>>
  PROVE  RowInv' /\ Drafts!EmptiedOnRequest /\ Drafts!SameIdsUnlessCrossed
<1> DEFINE Forms == [Editor -> Nat]
<1>0. form \in Forms /\ Drafts!Closed \in Nat /\ MaxScenes \in Nat
  BY ScenesAssumption DEF RowInv, Drafts!Closed
<1>1. ASSUME NEW e \in Editor, Drafts!OpenForm(e) PROVE RowInv' /\ row' = row
  <2>1. Len(row.scenes) \in Nat
    BY DEF RowInv, Rows
  <2>2. form' = [form EXCEPT ![e] = Len(row.scenes)] /\ UNCHANGED <<row, request, saves>>
    BY <1>1 DEF Drafts!OpenForm
  <2>3. form' \in Forms
    BY <1>0, <2>1, <2>2
  <2> QED
    BY <2>2, <2>3 DEF RowInv
<1>2. ASSUME NEW e \in Editor, Drafts!TypeScenes(e) PROVE RowInv' /\ row' = row
  <2>1. PICK n \in 0 .. MaxScenes : form' = [form EXCEPT ![e] = n]
    BY <1>2 DEF Drafts!TypeScenes
  <2>2. n \in Nat
    BY <1>0
  <2>3. form' \in Forms
    BY <1>0, <2>1, <2>2
  <2> QED
    BY <1>2, <2>3 DEF RowInv, Drafts!TypeScenes
<1>3. ASSUME NEW e \in Editor, form' = [form EXCEPT ![e] = Drafts!Closed] PROVE form' \in Forms
  BY <1>0, <1>3
<1>4. ASSUME NEW e \in Editor, Drafts!SaveEdit(e) PROVE RowInv' /\ row' = row
  <2>1. PICK c \in Drafts!Category : Drafts!Sends(e,
          Drafts!Dto("update", "screen", c, IF c = "culture" THEN "some" ELSE "none", form[e]))
    BY <1>4 DEF Drafts!SaveEdit
  <2>2. form[e] \in Nat \ {0}
    BY <1>0, <1>4 DEF Drafts!SaveEdit, Drafts!ValidScenes
  <2>3. Drafts!Dto("update", "screen", c, IF c = "culture" THEN "some" ELSE "none", form[e]) \in Loading
    BY <2>2 DEF Drafts!Dto, Loading, Named, Topics
  <2>4. form' \in Forms
    BY <1>3, <1>4 DEF Drafts!SaveEdit
  <2> QED
    BY <2>1, <2>3, <2>4, SendsKeeps
<1>5. ASSUME NEW e \in Editor, Drafts!SaveCaptions(e) PROVE RowInv' /\ row' = row
  <2>1. Drafts!Sends(e, Drafts!Dto("captions", "screen", Drafts!Same, Drafts!Same, form[e]))
    BY <1>5 DEF Drafts!SaveCaptions
  <2>2. form[e] \in Nat \ {0}
    BY <1>0, <1>5 DEF Drafts!SaveCaptions, Drafts!ValidScenes
  <2>3. Drafts!Dto("captions", "screen", Drafts!Same, Drafts!Same, form[e]) \in Loading
    BY <2>2 DEF Drafts!Dto, Loading, Named, Topics
  <2>4. form' \in Forms
    BY <1>3, <1>5 DEF Drafts!SaveCaptions
  <2> QED
    BY <2>1, <2>3, <2>4, SendsKeeps
<1>6. ASSUME NEW e \in Editor, Drafts!SavePart(e) PROVE RowInv' /\ row' = row
  <2>1. PICK c \in Named, t \in Topics \union {Drafts!Same}, n \in 0 .. Drafts!Closed :
          Drafts!Sends(e, Drafts!Dto("update", "client", c, t, n))
    BY <1>6 DEF Drafts!SavePart, Named, Topics
  <2>2. Drafts!Dto("update", "client", c, t, n) \in Loading
    BY <1>0 DEF Drafts!Dto, Loading
  <2>3. form' \in Forms
    BY <1>0, <1>6 DEF Drafts!SavePart
  <2> QED
    BY <2>1, <2>2, <2>3, SendsKeeps
<1>11. ASSUME NEW e \in Editor, Drafts!SetCaptions(e) PROVE RowInv' /\ row' = row
  <2>1. PICK n \in 0 .. MaxScenes :
          Drafts!Sends(e, Drafts!Dto("captions", "client", Drafts!Same, Drafts!Same, n))
    BY <1>11 DEF Drafts!SetCaptions
  <2>2. Drafts!Dto("captions", "client", Drafts!Same, Drafts!Same, n) \in Loading
    BY <1>0 DEF Drafts!Dto, Loading, Named
  <2>3. form' \in Forms
    BY <1>0, <1>11 DEF Drafts!SetCaptions
  <2> QED
    BY <2>1, <2>2, <2>3, SendsKeeps
<1>7. ASSUME Drafts!MoveOn PROVE RowInv' /\ row'.scenes = row.scenes
  <2>1. PICK s \in {"draft", "uploading", "center_review", "revision_requested", "published"} :
          row' = [row EXCEPT !.status = s]
    BY <1>7 DEF Drafts!MoveOn
  <2>2. row' \in Rows /\ row'.category = row.category /\ row'.topics = row.topics
        /\ row'.scenes = row.scenes
    BY <2>1 DEF RowInv, Rows
  <2> QED
    BY <1>7, <2>2 DEF RowInv, Drafts!MoveOn
<1>8. ASSUME UNCHANGED <<row, form, request, saves>> PROVE RowInv' /\ row' = row
  BY <1>8 DEF RowInv
<1>9. ASSUME NEW e \in Editor, Drafts!Load(e) PROVE RowInv' /\ row' = row
  BY <1>9, LoadKeeps DEF Drafts!Load
<1>10. ASSUME NEW e \in Editor, Drafts!Write(e)
       PROVE  RowInv' /\ Drafts!EmptiedOnRequest /\ Drafts!SameIdsUnlessCrossed
  BY <1>10, WriteKeeps
<1> QED
  BY <1>1, <1>2, <1>4, <1>5, <1>6, <1>7, <1>8, <1>9, <1>10, <1>11, SameScenes DEF Drafts!RowNext

-------------------------------------------------------------------------------
(* The station *)

Statuses == Station!Status \union {"none"}
Stage == [status : Statuses, since : Nat, intro : Station!Intro]
Seen == [status : Statuses, at : Nat]
Asks ==
  [pc : {"transition"}, to : Station!Status]
  \union {m \in [pc : {"checked"}, from : Station!Status, to : Station!Status] : m.from # m.to}
  \union [pc : {"create", "update"}, intro : Station!Intro]
Told == [pc : {"ok", "conflict", "duplicate"}, at : Nat, form : BOOLEAN]
Reads == [pc : {"asked"}] \union [pc : {"read"}, row : Seen]
Rest == {Station!Idle}

StationTyped ==
  /\ station \in Stage /\ trail \in [to : Station!Status, at : Nat] /\ writes \in Nat
  /\ list \in [Admin -> Seen] /\ sheet \in [Admin -> {"closed", "create", "update"}]
  /\ mutation \in [Admin -> Asks \union Told \union Rest]
  /\ fetch \in [Admin -> Reads \union Rest] /\ answered \in [Admin -> Nat]

\* A station that is not there is planned next, with no text yet.
TrailFits ==
  IF station.status = "none" THEN trail.to = "planned" /\ station.intro = ""
  ELSE /\ trail.to = station.status
       /\ station.since = IF station.status = "dormant" THEN trail.at ELSE 0

\* What an admin sees, asks and is told: no row before it is there, nothing of the future,
\* and no list that is older than an answer once it has been fetched again.
ScreenFits(l, s, m, f, last) ==
  /\ l.at <= writes /\ last <= writes
  /\ l.status # "none" => station.status # "none"
  /\ s = "update" => station.status # "none"
  /\ m.pc = "update" => station.status # "none"
  /\ m.pc \in {"ok", "conflict", "duplicate"} => m.at <= writes
  /\ f.pc = "read" =>
       /\ last <= f.row.at /\ f.row.at <= writes
       /\ f.row.status # "none" => station.status # "none"
  /\ f.pc = "idle" => last <= l.at

StationInv ==
  /\ StationTyped /\ TrailFits
  /\ \A a \in Admin : ScreenFits(list[a], sheet[a], mutation[a], fetch[a], answered[a])

LEMMA StationBegins == Station!StationInit => StationInv
<1> SUFFICES ASSUME Station!StationInit PROVE StationInv
  OBVIOUS
<1>1. PICK s \in Stage : s = station
  BY DEF Station!StationInit, Stage, Statuses, Station!Intro, Station!Status
<1>2. Station!Row \in Seen /\ Station!Row.at = 0 /\ Station!Row.status = station.status
  BY <1>1 DEF Station!StationInit, Station!Row, Seen, Stage
<1>3. StationTyped
  BY <1>1, <1>2 DEF Station!StationInit, StationTyped, Rest, Station!Status
<1>10. \/ station = [status |-> "none", since |-> 0, intro |-> ""]
       \/ station = [status |-> "operating", since |-> 0, intro |-> "text"]
  BY DEF Station!StationInit
<1>4. TrailFits
  <2>1. trail.to = IF station.status = "none" THEN "planned" ELSE "operating"
    BY DEF Station!StationInit
  <2>2. CASE station = [status |-> "none", since |-> 0, intro |-> ""]
    <3>1. station.status = "none" /\ station.intro = ""
      BY <2>2
    <3> QED
      BY <2>1, <3>1 DEF TrailFits
  <2>3. CASE station = [status |-> "operating", since |-> 0, intro |-> "text"]
    <3>1. station.status = "operating" /\ station.since = 0
      BY <2>3
    <3> QED
      BY <2>1, <3>1 DEF TrailFits
  <2> QED
    BY <1>10, <2>2, <2>3
<1>5. ASSUME NEW a \in Admin
      PROVE  ScreenFits(list[a], sheet[a], mutation[a], fetch[a], answered[a])
  <2>1. /\ list[a] = Station!Row /\ sheet[a] = "closed" /\ mutation[a] = Station!Idle
        /\ fetch[a] = Station!Idle /\ answered[a] = 0 /\ writes = 0
    BY DEF Station!StationInit
  <2>2. list[a].at = 0 /\ list[a].status = station.status
    BY <1>2, <2>1
  <2>3. mutation[a].pc = "idle" /\ fetch[a].pc = "idle"
    BY <2>1 DEF Station!Idle
  <2> QED
    BY <2>1, <2>2, <2>3 DEF ScreenFits
<1> QED
  BY <1>3, <1>4, <1>5 DEF StationInv

\* A step of one admin that leaves the row alone.
Turns(a, l, s, m, f, n) ==
  /\ UNCHANGED <<station, trail, writes>>
  /\ list' = [list EXCEPT ![a] = l] /\ sheet' = [sheet EXCEPT ![a] = s]
  /\ mutation' = [mutation EXCEPT ![a] = m] /\ fetch' = [fetch EXCEPT ![a] = f]
  /\ answered' = [answered EXCEPT ![a] = n]

ScreenTyped(l, s, m, f, n) ==
  /\ l \in Seen /\ s \in {"closed", "create", "update"}
  /\ m \in Asks \union Told \union Rest /\ f \in Reads \union Rest /\ n \in Nat

LEMMA ScreenMoves ==
  ASSUME StationInv, NEW a \in Admin, NEW l, NEW s, NEW m, NEW f, NEW n,
         Turns(a, l, s, m, f, n), ScreenTyped(l, s, m, f, n), ScreenFits(l, s, m, f, n)
  PROVE  StationInv'
<1>1. StationTyped'
  BY DEF StationInv, StationTyped, Turns, ScreenTyped
<1>2. TrailFits'
  BY DEF StationInv, TrailFits, Turns
<1>3. ASSUME NEW b \in Admin
      PROVE  ScreenFits(list[b], sheet[b], mutation[b], fetch[b], answered[b])'
  <2>1. CASE b = a
    <3>1. /\ list'[b] = l /\ sheet'[b] = s /\ mutation'[b] = m /\ fetch'[b] = f /\ answered'[b] = n
      BY <2>1 DEF StationInv, StationTyped, Turns
    <3> QED
      BY <3>1 DEF ScreenFits, Turns
  <2>2. CASE b # a
    <3>1. /\ list'[b] = list[b] /\ sheet'[b] = sheet[b] /\ mutation'[b] = mutation[b]
          /\ fetch'[b] = fetch[b] /\ answered'[b] = answered[b]
      BY <2>2 DEF StationInv, StationTyped, Turns
    <3>2. ScreenFits(list[b], sheet[b], mutation[b], fetch[b], answered[b])
      BY DEF StationInv
    <3> QED
      BY <3>1, <3>2 DEF ScreenFits, Turns
  <2> QED
    BY <2>1, <2>2
<1> QED
  BY <1>1, <1>2, <1>3 DEF StationInv

\* A step of one admin that writes the row.
LEMMA RowMoves ==
  ASSUME StationInv, NEW a \in Admin, NEW m \in Told,
         m.at = writes', m.pc = "ok", writes' = writes + 1,
         mutation' = [mutation EXCEPT ![a] = m], UNCHANGED <<list, sheet, fetch, answered>>,
         station' \in Stage, trail' \in [to : Station!Status, at : Nat], TrailFits',
         station.status # "none" => station'.status # "none"
  PROVE  StationInv'
<1>1. StationTyped'
  BY DEF StationInv, StationTyped
<1>2. ASSUME NEW b \in Admin
      PROVE  ScreenFits(list[b], sheet[b], mutation[b], fetch[b], answered[b])'
  <2>1. ScreenFits(list[b], sheet[b], mutation[b], fetch[b], answered[b])
    BY DEF StationInv
  <2>2. /\ list[b] \in Seen /\ fetch[b] \in Reads \union Rest /\ answered[b] \in Nat /\ writes \in Nat
        /\ mutation[b] \in Asks \union Told \union Rest
    BY DEF StationInv, StationTyped
  <2>3. mutation'[b] = mutation[b] \/ mutation'[b] = m
    BY DEF StationInv, StationTyped
  <2>4. /\ list[b].at <= writes' /\ answered[b] <= writes'
        /\ list[b].status # "none" => station'.status # "none"
        /\ sheet[b] = "update" => station'.status # "none"
        /\ fetch[b].pc = "read" =>
             /\ answered[b] <= fetch[b].row.at /\ fetch[b].row.at <= writes'
             /\ fetch[b].row.status # "none" => station'.status # "none"
        /\ fetch[b].pc = "idle" => answered[b] <= list[b].at
    <3>1. list[b].at \in Nat
      BY <2>2 DEF Seen
    <3>2. fetch[b].pc = "read" => fetch[b].row.at \in Nat
      BY <2>2 DEF Reads, Rest, Seen, Station!Idle
    <3> QED
      BY <2>1, <2>2, <3>1, <3>2 DEF ScreenFits
  <2>5. /\ mutation'[b].pc = "update" => station'.status # "none"
        /\ mutation'[b].pc \in {"ok", "conflict", "duplicate"} => mutation'[b].at <= writes'
    <3>1. CASE mutation'[b] = m
      BY <3>1 DEF Told
    <3>2. CASE mutation'[b] = mutation[b]
      <4>1. mutation[b].pc \in {"ok", "conflict", "duplicate"} => mutation[b].at \in Nat
        BY <2>2 DEF Asks, Told, Rest, Station!Idle
      <4> QED
        BY <2>1, <2>2, <3>2, <4>1 DEF ScreenFits
    <3> QED
      BY <2>3, <3>1, <3>2
  <2> QED
    BY <2>4, <2>5 DEF ScreenFits
<1> QED
  BY <1>1, <1>2 DEF StationInv

LEMMA StationSteps ==
  ASSUME StationInv, Station!StationNext \/ UNCHANGED stationVars
  PROVE  /\ StationInv'
         /\ trail' # trail => station'.status # station.status
         /\ station.intro # "" => station'.intro # ""
<1> DEFINE Moves == trail' # trail => station'.status # station.status
           Stays == station.intro # "" => station'.intro # ""
<1>0. CASE UNCHANGED stationVars
  <2>1. UNCHANGED <<station, trail, writes, list, sheet, mutation, fetch, answered>>
    BY <1>0 DEF stationVars
  <2> QED
    BY <2>1 DEF StationInv, StationTyped, TrailFits, ScreenFits
<1>1. CASE Station!StationNext
  <2>1. PICK a \in Admin :
          \/ Station!RunTransition(a) \/ Station!OpenSheet(a) \/ Station!Submit(a) \/ Station!Cancel(a)
          \/ Station!LoadTransition(a) \/ Station!CommitTransition(a)
          \/ Station!CreateStation(a) \/ Station!UpdateStation(a)
          \/ Station!Answered(a) \/ Station!AnswerLost(a) \/ Station!ReadList(a) \/ Station!ShowList(a)
    BY <1>1 DEF Station!StationNext
  <2>2. /\ station \in Stage /\ trail \in [to : Station!Status, at : Nat] /\ writes \in Nat
        /\ list[a] \in Seen /\ sheet[a] \in {"closed", "create", "update"}
        /\ mutation[a] \in Asks \union Told \union Rest
        /\ fetch[a] \in Reads \union Rest /\ answered[a] \in Nat
        /\ ScreenFits(list[a], sheet[a], mutation[a], fetch[a], answered[a])
        /\ DOMAIN list = Admin /\ DOMAIN sheet = Admin /\ DOMAIN mutation = Admin
        /\ DOMAIN fetch = Admin /\ DOMAIN answered = Admin
    BY DEF StationInv, StationTyped
  <2>3. /\ list = [list EXCEPT ![a] = list[a]] /\ sheet = [sheet EXCEPT ![a] = sheet[a]]
        /\ mutation = [mutation EXCEPT ![a] = mutation[a]]
        /\ fetch = [fetch EXCEPT ![a] = fetch[a]] /\ answered = [answered EXCEPT ![a] = answered[a]]
    BY DEF StationInv, StationTyped
  <2>4. CASE Station!RunTransition(a)
    <3>1. PICK to \in Station!Status :
            mutation' = [mutation EXCEPT ![a] = [pc |-> "transition", to |-> to]]
      BY <2>4 DEF Station!RunTransition, Station!Offered
    <3>11. PICK m : m = [pc |-> "transition", to |-> to]
      OBVIOUS
    <3>2. m \in Asks /\ m = [pc |-> "transition", to |-> to] /\ m.pc = "transition"
      BY <3>11 DEF Asks
    <3>3. ScreenFits(list[a], sheet[a], m, fetch[a], answered[a])
      BY <2>2, <3>2 DEF ScreenFits
    <3>4. UNCHANGED <<station, trail, writes, list, sheet, fetch, answered>>
      BY <2>4 DEF Station!RunTransition
    <3>8. Turns(a, list[a], sheet[a], m, fetch[a], answered[a])
      BY <2>2, <2>3, <3>1, <3>2, <3>3, <3>4 DEF Turns
    <3>9. ScreenTyped(list[a], sheet[a], m, fetch[a], answered[a])
      BY <2>2, <2>3, <3>1, <3>2, <3>3, <3>4 DEF ScreenTyped
    <3>10. StationInv'
      BY <3>3, <3>8, <3>9, ScreenMoves
    <3> QED
      BY <3>8, <3>10 DEF Turns
  <2>5. CASE Station!OpenSheet(a)
    <3>1. PICK s \in {"create", "update"} :
            /\ s = IF list[a].status = "none" THEN "create" ELSE "update"
            /\ sheet' = [sheet EXCEPT ![a] = s]
      BY <2>5 DEF Station!OpenSheet
    <3>2. ScreenFits(list[a], s, mutation[a], fetch[a], answered[a])
      BY <2>2, <3>1 DEF ScreenFits
    <3>3. UNCHANGED <<station, trail, writes, list, mutation, fetch, answered>>
      BY <2>5 DEF Station!OpenSheet
    <3>8. Turns(a, list[a], s, mutation[a], fetch[a], answered[a])
      BY <2>2, <2>3, <3>1, <3>2, <3>3 DEF Turns
    <3>9. ScreenTyped(list[a], s, mutation[a], fetch[a], answered[a])
      BY <2>2, <2>3, <3>1, <3>2, <3>3 DEF ScreenTyped
    <3>10. StationInv'
      BY <3>2, <3>8, <3>9, ScreenMoves
    <3> QED
      BY <3>8, <3>10 DEF Turns
  <2>6. CASE Station!Submit(a)
    <3>1. PICK intro \in Station!Intro :
            mutation' = [mutation EXCEPT ![a] = [pc |-> sheet[a], intro |-> intro]]
      BY <2>6 DEF Station!Submit
    <3>2. sheet[a] \in {"create", "update"}
      BY <2>2, <2>6 DEF Station!Submit
    <3>11. PICK m : m = [pc |-> sheet[a], intro |-> intro]
      OBVIOUS
    <3>3. m \in Asks /\ m = [pc |-> sheet[a], intro |-> intro] /\ m.pc = sheet[a]
      BY <3>2, <3>11 DEF Asks
    <3>4. ScreenFits(list[a], sheet[a], m, fetch[a], answered[a])
      BY <2>2, <3>2, <3>3 DEF ScreenFits
    <3>5. UNCHANGED <<station, trail, writes, list, sheet, fetch, answered>>
      BY <2>6 DEF Station!Submit
    <3>8. Turns(a, list[a], sheet[a], m, fetch[a], answered[a])
      BY <2>2, <2>3, <3>1, <3>3, <3>4, <3>5 DEF Turns
    <3>9. ScreenTyped(list[a], sheet[a], m, fetch[a], answered[a])
      BY <2>2, <2>3, <3>1, <3>3, <3>4, <3>5 DEF ScreenTyped
    <3>10. StationInv'
      BY <3>4, <3>8, <3>9, ScreenMoves
    <3> QED
      BY <3>8, <3>10 DEF Turns
  <2>7. CASE Station!Cancel(a)
    <3>1. ScreenFits(list[a], "closed", mutation[a], fetch[a], answered[a])
      BY <2>2 DEF ScreenFits
    <3>2. /\ sheet' = [sheet EXCEPT ![a] = "closed"]
          /\ UNCHANGED <<station, trail, writes, list, mutation, fetch, answered>>
      BY <2>7 DEF Station!Cancel
    <3>8. Turns(a, list[a], "closed", mutation[a], fetch[a], answered[a])
      BY <2>2, <2>3, <3>1, <3>2 DEF Turns
    <3>9. ScreenTyped(list[a], "closed", mutation[a], fetch[a], answered[a])
      BY <2>2, <2>3, <3>1, <3>2 DEF ScreenTyped
    <3>10. StationInv'
      BY <3>1, <3>8, <3>9, ScreenMoves
    <3> QED
      BY <3>8, <3>10 DEF Turns
  <2>8. CASE Station!LoadTransition(a)
    <3>0. UNCHANGED <<station, trail, writes, list, sheet, fetch, answered>> /\ mutation[a].pc = "transition"
      BY <2>8 DEF Station!LoadTransition
    <3>1. mutation[a].to \in Station!Status
      BY <2>2, <3>0 DEF Asks, Told, Rest, Station!Idle
    <3>2. PICK m \in Asks \union Told :
            /\ mutation' = [mutation EXCEPT ![a] = m]
            /\ m.pc = "checked" \/ (m.pc = "conflict" /\ m.at = writes)
      <4>1. CASE <<station.status, mutation[a].to>> \in Station!Transitions
        <5>1. station.status \in Station!Status /\ station.status # mutation[a].to
          BY <4>1 DEF Station!Transitions, Station!Status
        <5>2. [pc |-> "checked", from |-> station.status, to |-> mutation[a].to] \in Asks
          BY <3>1, <5>1 DEF Asks
        <5> QED
          BY <2>8, <4>1, <5>2 DEF Station!LoadTransition
      <4>2. CASE <<station.status, mutation[a].to>> \notin Station!Transitions
        <5>1. [pc |-> "conflict", at |-> writes,
               form |-> mutation[a].pc \in {"create", "update"}] \in Told
          BY <2>2 DEF Told
        <5>2. mutation' = [mutation EXCEPT ![a] = [pc |-> "conflict", at |-> writes,
                 form |-> mutation[a].pc \in {"create", "update"}]]
          BY <2>8, <3>0, <4>2 DEF Station!LoadTransition, Station!Answer
        <5>3. PICK x : x = [pc |-> "conflict", at |-> writes,
                            form |-> mutation[a].pc \in {"create", "update"}]
          OBVIOUS
        <5>4. x \in Told /\ x.pc = "conflict" /\ x.at = writes
              /\ mutation' = [mutation EXCEPT ![a] = x]
          BY <5>1, <5>2, <5>3
        <5> QED
          BY <5>4
      <4> QED
        BY <4>1, <4>2
    <3>3. ScreenFits(list[a], sheet[a], m, fetch[a], answered[a])
      BY <2>2, <3>2 DEF ScreenFits
    <3>8. Turns(a, list[a], sheet[a], m, fetch[a], answered[a])
      BY <2>2, <2>3, <3>0, <3>2, <3>3 DEF Turns
    <3>9. ScreenTyped(list[a], sheet[a], m, fetch[a], answered[a])
      BY <2>2, <2>3, <3>0, <3>2, <3>3 DEF ScreenTyped
    <3>10. StationInv'
      BY <3>3, <3>8, <3>9, ScreenMoves
    <3> QED
      BY <3>8, <3>10 DEF Turns
  <2>9. CASE Station!CommitTransition(a)
    <3>0. mutation[a].pc = "checked" /\ UNCHANGED <<list, sheet, fetch, answered>>
      BY <2>9 DEF Station!CommitTransition
    <3>1. PICK m \in Asks : m = mutation[a] /\ m.from \in Station!Status /\ m.to \in Station!Status /\ m.from # m.to
      BY <2>2, <3>0 DEF Asks, Told, Rest, Station!Idle
    <3>2. CASE Station!TransitionWrites(a)
      <4>1. PICK rests \in Nat : rests = IF m.to = "dormant" THEN writes + 1 ELSE 0
        BY <2>2
      <4>2. /\ writes' = writes + 1
            /\ station' = [station EXCEPT !.status = m.to, !.since = rests]
            /\ trail' = [to |-> m.to, at |-> writes'] /\ Station!Answer(a, "ok")
        BY <2>9, <3>1, <3>2, <4>1 DEF Station!CommitTransition, Station!DormantSince
      <4>12. PICK x : x = [pc |-> "ok", at |-> writes', form |-> mutation[a].pc \in {"create", "update"}]
        OBVIOUS
      <4>13. (mutation[a].pc \in {"create", "update"}) \in BOOLEAN /\ writes' \in Nat
        BY <2>2, <4>2
      <4>14. x \in Told /\ x.at = writes' /\ x.pc = "ok"
        BY <4>12, <4>13 DEF Told
      <4>3. mutation' = [mutation EXCEPT ![a] = x] /\ x \in Told /\ x.at = writes' /\ x.pc = "ok"
        BY <2>2, <4>2, <4>12, <4>14 DEF Station!Answer
      <4>8. /\ station' \in Stage /\ station'.status = m.to /\ station'.since = rests
            /\ station'.intro = station.intro
        BY <2>2, <3>1, <4>1, <4>2 DEF Stage, Statuses
      <4>9. /\ trail' \in [to : Station!Status, at : Nat] /\ trail'.to = m.to
            /\ trail'.at = writes + 1
        <5>1. PICK n \in Nat : n = writes + 1
          BY <2>2
        <5>2. trail' = [to |-> m.to, at |-> n]
          BY <4>2, <5>1
        <5> QED
          BY <3>1, <5>1, <5>2
      <4>4. /\ station' \in Stage /\ station'.status = m.to /\ station'.since = rests
            /\ station'.intro = station.intro
            /\ trail' \in [to : Station!Status, at : Nat] /\ trail'.to = m.to /\ trail'.at = writes + 1
        BY <4>8, <4>9
      <4>5. station.status = m.from /\ m.to # "none" /\ m.from # "none"
        BY <3>1, <3>2 DEF Station!TransitionWrites, Station!Status
      <4>6. TrailFits'
        BY <4>1, <4>4, <4>5 DEF TrailFits
      <4>7. StationInv'
        BY <3>0, <4>2, <4>3, <4>4, <4>5, <4>6, RowMoves
      <4> QED
        BY <3>1, <4>4, <4>5, <4>7
    <3>3. CASE ~ Station!TransitionWrites(a)
      <4>1. UNCHANGED <<station, trail, writes>> /\ Station!Answer(a, "conflict")
        BY <2>9, <3>3 DEF Station!CommitTransition
      <4>12. PICK x : x = [pc |-> "conflict", at |-> writes, form |-> mutation[a].pc \in {"create", "update"}]
        OBVIOUS
      <4>13. (mutation[a].pc \in {"create", "update"}) \in BOOLEAN /\ writes \in Nat
        BY <2>2, <4>1
      <4>14. x \in Told /\ x.at = writes /\ x.pc = "conflict"
        BY <4>12, <4>13 DEF Told
      <4>2. mutation' = [mutation EXCEPT ![a] = x] /\ x \in Told /\ x.at = writes /\ x.pc = "conflict"
        BY <2>2, <4>1, <4>12, <4>14 DEF Station!Answer
      <4>3. ScreenFits(list[a], sheet[a], x, fetch[a], answered[a])
        BY <2>2, <4>2 DEF ScreenFits
      <4>8. Turns(a, list[a], sheet[a], x, fetch[a], answered[a])
        BY <2>2, <2>3, <3>0, <4>1, <4>2, <4>3 DEF Turns
      <4>9. ScreenTyped(list[a], sheet[a], x, fetch[a], answered[a])
        BY <2>2, <2>3, <3>0, <4>1, <4>2, <4>3 DEF ScreenTyped
      <4>10. StationInv'
        BY <4>3, <4>8, <4>9, ScreenMoves
      <4> QED
        BY <4>8, <4>10 DEF Turns
    <3> QED
      BY <3>2, <3>3
  <2>10. CASE Station!CreateStation(a)
    <3>0. mutation[a].pc = "create" /\ UNCHANGED <<list, sheet, fetch, answered>>
      BY <2>10 DEF Station!CreateStation
    <3>1. mutation[a].intro \in Station!Intro
      BY <2>2, <3>0 DEF Asks, Told, Rest, Station!Idle
    <3>2. CASE station.status = "none"
      <4>1. /\ writes' = writes + 1 /\ trail' = trail
            /\ station' = [status |-> "planned", since |-> 0, intro |-> mutation[a].intro]
            /\ Station!Answer(a, "ok")
        BY <2>10, <3>2 DEF Station!CreateStation
      <4>12. PICK x : x = [pc |-> "ok", at |-> writes', form |-> mutation[a].pc \in {"create", "update"}]
        OBVIOUS
      <4>13. (mutation[a].pc \in {"create", "update"}) \in BOOLEAN /\ writes' \in Nat
        BY <2>2, <4>1
      <4>14. x \in Told /\ x.at = writes' /\ x.pc = "ok"
        BY <4>12, <4>13 DEF Told
      <4>2. mutation' = [mutation EXCEPT ![a] = x] /\ x \in Told /\ x.at = writes' /\ x.pc = "ok"
        BY <2>2, <4>1, <4>12, <4>14 DEF Station!Answer
      <4>3. station' \in Stage /\ station'.status = "planned" /\ station'.since = 0
        BY <3>1, <4>1 DEF Stage, Statuses, Station!Status
      <4>4. TrailFits' /\ station.intro = ""
        BY <3>2, <4>1, <4>3 DEF TrailFits, StationInv
      <4>5. StationInv'
        BY <2>2, <3>0, <3>2, <4>1, <4>2, <4>3, <4>4, RowMoves
      <4> QED
        BY <4>1, <4>4, <4>5
    <3>3. CASE station.status # "none"
      <4>1. UNCHANGED <<station, trail, writes>> /\ Station!Answer(a, "duplicate")
        BY <2>10, <3>3 DEF Station!CreateStation
      <4>12. PICK x : x = [pc |-> "duplicate", at |-> writes, form |-> mutation[a].pc \in {"create", "update"}]
        OBVIOUS
      <4>13. (mutation[a].pc \in {"create", "update"}) \in BOOLEAN /\ writes \in Nat
        BY <2>2, <4>1
      <4>14. x \in Told /\ x.at = writes /\ x.pc = "duplicate"
        BY <4>12, <4>13 DEF Told
      <4>2. mutation' = [mutation EXCEPT ![a] = x] /\ x \in Told /\ x.at = writes /\ x.pc = "duplicate"
        BY <2>2, <4>1, <4>12, <4>14 DEF Station!Answer
      <4>3. ScreenFits(list[a], sheet[a], x, fetch[a], answered[a])
        BY <2>2, <4>2 DEF ScreenFits
      <4>8. Turns(a, list[a], sheet[a], x, fetch[a], answered[a])
        BY <2>2, <2>3, <3>0, <4>1, <4>2, <4>3 DEF Turns
      <4>9. ScreenTyped(list[a], sheet[a], x, fetch[a], answered[a])
        BY <2>2, <2>3, <3>0, <4>1, <4>2, <4>3 DEF ScreenTyped
      <4>10. StationInv'
        BY <4>3, <4>8, <4>9, ScreenMoves
      <4> QED
        BY <4>8, <4>10 DEF Turns
    <3> QED
      BY <3>2, <3>3
  <2>11. CASE Station!UpdateStation(a)
    <3>0. mutation[a].pc = "update" /\ UNCHANGED <<trail, list, sheet, fetch, answered>>
      BY <2>11 DEF Station!UpdateStation
    <3>1. mutation[a].intro \in Station!Intro
      BY <2>2, <3>0 DEF Asks, Told, Rest, Station!Idle
    <3>2. station.status # "none"
      BY <2>2, <3>0 DEF ScreenFits
    <3>3. PICK i \in Station!Intro : i = Station!OptionalField(a) /\ (station.intro # "" => i # "")
      BY <2>2, <3>1 DEF Station!OptionalField, Stage, Station!Intro
    <3>4. writes' = writes + 1 /\ station' = [station EXCEPT !.intro = i] /\ Station!Answer(a, "ok")
      BY <2>11, <3>3 DEF Station!UpdateStation
    <3>12. PICK x : x = [pc |-> "ok", at |-> writes', form |-> mutation[a].pc \in {"create", "update"}]
      OBVIOUS
    <3>13. (mutation[a].pc \in {"create", "update"}) \in BOOLEAN /\ writes' \in Nat
      BY <2>2, <3>4
    <3>14. x \in Told /\ x.at = writes' /\ x.pc = "ok"
      BY <3>12, <3>13 DEF Told
    <3>5. mutation' = [mutation EXCEPT ![a] = x] /\ x \in Told /\ x.at = writes' /\ x.pc = "ok"
      BY <2>2, <3>4, <3>12, <3>14 DEF Station!Answer
    <3>6. station' \in Stage /\ station'.status = station.status /\ station'.since = station.since
          /\ station'.intro = i
      BY <2>2, <3>4 DEF Stage
    <3>7. TrailFits'
      BY <3>0, <3>2, <3>6 DEF TrailFits, StationInv
    <3>8. StationInv'
      BY <2>2, <3>0, <3>2, <3>4, <3>5, <3>6, <3>7, RowMoves
    <3> QED
      BY <3>0, <3>3, <3>6, <3>8
  <2>12. CASE Station!Answered(a)
    <3>0. /\ mutation[a].pc \in {"ok", "conflict", "duplicate"}
          /\ mutation' = [mutation EXCEPT ![a] = Station!Idle]
          /\ UNCHANGED <<station, trail, writes, list>>
      BY <2>12 DEF Station!Answered
    <3>1. mutation[a] \in Told /\ mutation[a].at \in Nat /\ mutation[a].at <= writes
      BY <2>2, <3>0 DEF Asks, Told, Rest, Station!Idle, ScreenFits
    <3>2. PICK s \in {"closed", "create", "update"} :
            sheet' = [sheet EXCEPT ![a] = s] /\ (s = "update" => sheet[a] = "update")
      BY <2>2, <2>3, <2>12 DEF Station!Answered
    <3>3. Station!Idle \in Rest /\ Station!Idle.pc = "idle"
      BY DEF Rest, Station!Idle
    <3>4. CASE mutation[a].pc = "duplicate"
      <4>1. fetch' = fetch /\ answered' = answered
        BY <2>12, <3>4 DEF Station!Answered, Station!Invalidates
      <4>2. ScreenFits(list[a], s, Station!Idle, fetch[a], answered[a])
        BY <2>2, <3>2, <3>3 DEF ScreenFits
      <4>8. Turns(a, list[a], s, Station!Idle, fetch[a], answered[a])
        BY <2>2, <2>3, <3>0, <3>2, <3>3, <4>1, <4>2 DEF Turns
      <4>9. ScreenTyped(list[a], s, Station!Idle, fetch[a], answered[a])
        BY <2>2, <2>3, <3>0, <3>2, <3>3, <4>1, <4>2 DEF ScreenTyped
      <4>10. StationInv'
        BY <4>2, <4>8, <4>9, ScreenMoves
      <4> QED
        BY <4>8, <4>10 DEF Turns
    <3>5. CASE mutation[a].pc # "duplicate"
      <4>11. PICK f : f = [pc |-> "asked"]
        OBVIOUS
      <4>1. f \in Reads /\ f = [pc |-> "asked"] /\ f.pc = "asked"
        BY <4>11 DEF Reads
      <4>2. fetch' = [fetch EXCEPT ![a] = f] /\ answered' = [answered EXCEPT ![a] = mutation[a].at]
        BY <2>12, <3>0, <3>5, <4>1 DEF Station!Answered, Station!Invalidates
      <4>3. ScreenFits(list[a], s, Station!Idle, f, mutation[a].at)
        BY <2>2, <3>1, <3>2, <3>3, <4>1 DEF ScreenFits
      <4>8. Turns(a, list[a], s, Station!Idle, f, mutation[a].at)
        BY <2>2, <2>3, <3>0, <3>1, <3>2, <3>3, <4>1, <4>2, <4>3 DEF Turns
      <4>9. ScreenTyped(list[a], s, Station!Idle, f, mutation[a].at)
        BY <2>2, <2>3, <3>0, <3>1, <3>2, <3>3, <4>1, <4>2, <4>3 DEF ScreenTyped
      <4>10. StationInv'
        BY <4>3, <4>8, <4>9, ScreenMoves
      <4> QED
        BY <4>8, <4>10 DEF Turns
    <3> QED
      BY <3>4, <3>5
  <2>13. CASE Station!AnswerLost(a)
    <3>1. Station!Idle \in Rest /\ Station!Idle.pc = "idle"
      BY DEF Rest, Station!Idle
    <3>2. ScreenFits(list[a], sheet[a], Station!Idle, fetch[a], answered[a])
      BY <2>2, <3>1 DEF ScreenFits
    <3>3. /\ mutation' = [mutation EXCEPT ![a] = Station!Idle]
          /\ UNCHANGED <<station, trail, writes, list, sheet, fetch, answered>>
      BY <2>13 DEF Station!AnswerLost
    <3>8. Turns(a, list[a], sheet[a], Station!Idle, fetch[a], answered[a])
      BY <2>2, <2>3, <3>1, <3>2, <3>3 DEF Turns
    <3>9. ScreenTyped(list[a], sheet[a], Station!Idle, fetch[a], answered[a])
      BY <2>2, <2>3, <3>1, <3>2, <3>3 DEF ScreenTyped
    <3>10. StationInv'
      BY <3>2, <3>8, <3>9, ScreenMoves
    <3> QED
      BY <3>8, <3>10 DEF Turns
  <2>14. CASE Station!ReadList(a)
    <3>11. PICK r : r = Station!Row
      OBVIOUS
    <3>1. r \in Seen /\ r = Station!Row /\ r.at = writes /\ r.status = station.status
      BY <2>2, <3>11 DEF Station!Row, Seen, Stage
    <3>12. PICK f : f = [pc |-> "read", row |-> r]
      OBVIOUS
    <3>2. f \in Reads /\ f = [pc |-> "read", row |-> r] /\ f.pc = "read" /\ f.row = r
      BY <3>1, <3>12 DEF Reads
    <3>3. ScreenFits(list[a], sheet[a], mutation[a], f, answered[a])
      BY <2>2, <3>1, <3>2 DEF ScreenFits
    <3>4. /\ fetch' = [fetch EXCEPT ![a] = f]
          /\ UNCHANGED <<station, trail, writes, list, sheet, mutation, answered>>
      BY <2>14, <3>1, <3>2 DEF Station!ReadList
    <3>8. Turns(a, list[a], sheet[a], mutation[a], f, answered[a])
      BY <2>2, <2>3, <3>2, <3>3, <3>4 DEF Turns
    <3>9. ScreenTyped(list[a], sheet[a], mutation[a], f, answered[a])
      BY <2>2, <2>3, <3>2, <3>3, <3>4 DEF ScreenTyped
    <3>10. StationInv'
      BY <3>3, <3>8, <3>9, ScreenMoves
    <3> QED
      BY <3>8, <3>10 DEF Turns
  <2>15. CASE Station!ShowList(a)
    <3>1. /\ fetch[a].pc = "read" /\ list' = [list EXCEPT ![a] = fetch[a].row]
          /\ fetch' = [fetch EXCEPT ![a] = Station!Idle]
          /\ UNCHANGED <<station, trail, writes, sheet, mutation, answered>>
      BY <2>15 DEF Station!ShowList
    <3>2. PICK r \in Seen : r = fetch[a].row
      BY <2>2, <3>1 DEF Reads, Rest, Station!Idle
    <3>3. Station!Idle \in Rest /\ Station!Idle.pc = "idle"
      BY DEF Rest, Station!Idle
    <3>4. ScreenFits(r, sheet[a], mutation[a], Station!Idle, answered[a])
      BY <2>2, <3>1, <3>2, <3>3 DEF ScreenFits
    <3>8. Turns(a, r, sheet[a], mutation[a], Station!Idle, answered[a])
      BY <2>2, <2>3, <3>1, <3>2, <3>3, <3>4 DEF Turns
    <3>9. ScreenTyped(r, sheet[a], mutation[a], Station!Idle, answered[a])
      BY <2>2, <2>3, <3>1, <3>2, <3>3, <3>4 DEF ScreenTyped
    <3>10. StationInv'
      BY <3>4, <3>8, <3>9, ScreenMoves
    <3> QED
      BY <3>8, <3>10 DEF Turns
  <2> QED
    BY <2>1, <2>4, <2>5, <2>6, <2>7, <2>8, <2>9, <2>10, <2>11, <2>12, <2>13, <2>14, <2>15
<1> QED
  BY <1>0, <1>1

LEMMA StationHolds ==
  ASSUME StationInv
  PROVE  Station!TrailTellsTheStatus /\ Station!StationScreenSettles
<1>1. Station!TrailTellsTheStatus
  BY DEF StationInv, TrailFits, Station!TrailTellsTheStatus
<1>2. ASSUME NEW a \in Admin, fetch[a].pc = "idle" PROVE list[a].at >= answered[a]
  <2>1. list[a].at \in Nat /\ answered[a] \in Nat
    BY DEF StationInv, StationTyped, Seen
  <2>2. answered[a] <= list[a].at
    BY <1>2 DEF StationInv, ScreenFits
  <2> QED
    BY <2>1, <2>2
<1> QED
  BY <1>1, <1>2 DEF Station!StationScreenSettles

-------------------------------------------------------------------------------
(* The week *)

Phases == {"none", "generating", "regenerating", "pending_review", "approved", "generation_failed"}
Ops == {"approve", "revise", "generate"}
Ranked == [status : Phases, generation : Nat, items : Nat]
Done == [status : {"approved", "regenerating", "generating"}, generation : Nat]
Replies == {Week!NoAnswer, Week!Conflict} \union Done
Polls == {Week!NoPoll, Week!Asked} \union [pc : {"read"}, row : Ranked]
Sent == [op : Ops, looked : Nat, answer : Replies]

WeekTyped ==
  /\ ranking \in Ranked /\ copy \in Ranked /\ poll \in Polls /\ press \in {Week!NoPress} \union Sent
  /\ thisWeek \in BOOLEAN /\ stuck \in BOOLEAN /\ acted \in BOOLEAN /\ dropped \in Nat

\* A copy that asks for a review does so of the items that are there.
Current(r) ==
  r.status = "pending_review" => ranking.status = "pending_review" /\ r.items = ranking.items

\* The operator's command was carried out, and the screen does not know.
Unshown == press \in Sent /\ press.answer \in Done

Shown ==
  /\ Current(copy)
  /\ poll.pc = "read" => Current(poll.row)
  /\ press \in Sent /\ press.op = "approve" /\ press.answer = Week!NoAnswer =>
       ranking.status = "pending_review" /\ press.looked = ranking.items

WeekInv ==
  /\ WeekTyped
  /\ ranking.status = "none" => thisWeek
  /\ ~ acted /\ ~ Unshown => Shown

LEMMA WeekForms ==
  /\ Week!NoAnswer \notin Done /\ Week!Conflict \notin Done /\ Week!NoAnswer # Week!Conflict
  /\ Week!NoPress \notin Sent
  /\ Week!NoPoll.pc = "none" /\ Week!Asked.pc = "asked"
<1>1. Week!NoAnswer.status = "none" /\ Week!Conflict.status = "conflict"
  BY DEF Week!NoAnswer, Week!Conflict
<1>2. Week!NoPress.op = "none" /\ Week!NoPoll.pc = "none" /\ Week!Asked.pc = "asked"
  BY DEF Week!NoPress, Week!NoPoll, Week!Asked
<1>3. \A d \in Done : d.status \in {"approved", "regenerating", "generating"}
  BY DEF Done
<1>4. \A d \in Sent : d.op \in Ops
  BY DEF Sent
<1> QED
  BY <1>1, <1>2, <1>3, <1>4 DEF Ops

LEMMA WeekBegins == Week!WeekInit => WeekInv
<1> SUFFICES ASSUME Week!WeekInit PROVE WeekInv
  OBVIOUS
<1>1. ranking \in Ranked /\ ranking.status = "none"
  BY DEF Week!WeekInit, Ranked, Phases
<1>2. WeekTyped
  BY <1>1 DEF Week!WeekInit, WeekTyped, Polls
<1>3. Shown
  <2>1. Current(copy)
    BY <1>1 DEF Week!WeekInit, Current
  <2>2. poll.pc # "read" /\ press \notin Sent
    BY WeekForms DEF Week!WeekInit
  <2> QED
    BY <2>1, <2>2 DEF Shown
<1> QED
  BY <1>2, <1>3 DEF WeekInv, Week!WeekInit

\* The value that a command gives the row.
LEMMA CarriesOut ==
  ASSUME WeekTyped, NEW op \in Ops, Week!Accepts(op), Week!Carries(op)
  PROVE  /\ ranking' \in Ranked /\ stuck' = FALSE
         /\ ranking'.status \in {"approved", "regenerating", "generating"}
<1>1. stuck' = FALSE
  BY DEF Week!Carries
<1>2. ranking \in Ranked /\ ranking.generation \in Nat /\ ranking.items \in Nat
  BY DEF WeekTyped, Ranked
<1>3. CASE op = "approve"
  <2>1. ranking' = [ranking EXCEPT !.status = "approved"]
    BY <1>3 DEF Week!Carries
  <2> QED
    BY <1>1, <1>2, <2>1 DEF Ranked, Phases
<1>4. CASE op = "revise"
  <2>1. PICK g \in Nat : g = ranking.generation + 1
    BY <1>2
  <2>2. ranking' = [ranking EXCEPT !.status = "regenerating", !.generation = g]
    BY <1>4, <2>1 DEF Week!Carries
  <2> QED
    BY <1>1, <1>2, <2>2 DEF Ranked, Phases
<1>5. CASE op = "generate"
  <2>1. PICK g \in Nat : g = IF ranking.status = "none" THEN 1 ELSE ranking.generation
    BY <1>2
  <2>2. ranking' = [ranking EXCEPT !.status = "generating", !.generation = g]
    BY <1>5, <2>1 DEF Week!Carries
  <2> QED
    BY <1>1, <1>2, <2>2 DEF Ranked, Phases
<1> QED
  BY <1>3, <1>4, <1>5 DEF Ops

LEMMA WeekSteps ==
  ASSUME WeekInv, Week!WeekNext \/ UNCHANGED weekVars
  PROVE  /\ WeekInv'
         /\ press.op = "approve" /\ press.answer = Week!NoAnswer
              /\ press'.op = "approve" /\ press'.answer \notin {Week!NoAnswer, Week!Conflict}
              => press.looked = ranking.items \/ acted
<1> DEFINE Approves == press.op = "approve" /\ press.answer = Week!NoAnswer
              /\ press'.op = "approve" /\ press'.answer \notin {Week!NoAnswer, Week!Conflict}
              => press.looked = ranking.items \/ acted
<1>0. /\ ranking \in Ranked /\ copy \in Ranked /\ poll \in Polls
      /\ press \in {Week!NoPress} \union Sent
      /\ thisWeek \in BOOLEAN /\ stuck \in BOOLEAN /\ acted \in BOOLEAN /\ dropped \in Nat
      /\ ranking.status = "none" => thisWeek
      /\ ~ acted /\ ~ Unshown => Shown
  BY DEF WeekInv, WeekTyped
<1>1. ASSUME press' = press PROVE Approves
  BY <1>1
<1>2. CASE Week!JobEnds
  <2>0. ranking.status \in {"generating", "regenerating"}
        /\ UNCHANGED <<thisWeek, stuck, copy, poll, press, acted, dropped>>
    BY <1>2 DEF Week!JobEnds, Week!InProgress
  <2>1. ranking' \in Ranked /\ ranking'.status \in {"pending_review", "generation_failed"}
    <3>1. CASE ranking' = [ranking EXCEPT !.status = "pending_review", !.items = ranking.generation]
      BY <1>0, <3>1 DEF Ranked, Phases
    <3>2. CASE ranking' = [ranking EXCEPT !.status = "generation_failed"]
      BY <1>0, <3>2 DEF Ranked, Phases
    <3> QED
      BY <1>2, <3>1, <3>2 DEF Week!JobEnds
  <2>2. ~ acted /\ ~ Unshown => Shown'
    BY <1>0, <2>0 DEF Shown, Current
  <2> QED
    BY <1>0, <1>1, <2>0, <2>1, <2>2 DEF WeekInv, WeekTyped, Unshown
<1>3. CASE Week!JobDies
  BY <1>0, <1>1, <1>3 DEF Week!JobDies, WeekInv, WeekTyped, Unshown, Shown, Current
<1>4. CASE Week!WeekPasses
  BY <1>0, <1>1, <1>4 DEF Week!WeekPasses, WeekInv, WeekTyped, Unshown, Shown, Current
<1>5. CASE Week!OthersAct
  <2>1. PICK op \in Ops : Week!Accepts(op) /\ Week!Carries(op)
    BY <1>5 DEF Week!OthersAct, Week!Offered, Week!RecommendationActionsFor, Ops
  <2>2. ranking' \in Ranked /\ stuck' = FALSE
        /\ ranking'.status \in {"approved", "regenerating", "generating"}
    BY <2>1, CarriesOut DEF WeekInv
  <2>3. acted' = TRUE /\ UNCHANGED <<thisWeek, copy, poll, press, dropped>>
    BY <1>5 DEF Week!OthersAct
  <2> QED
    BY <1>0, <1>1, <2>2, <2>3 DEF WeekInv, WeekTyped
<1>6. CASE Week!Press
  <2>0. press = Week!NoPress
        /\ UNCHANGED <<ranking, thisWeek, stuck, copy, poll, acted, dropped>>
    BY <1>6 DEF Week!Press
  <2>1. PICK op \in Ops :
          /\ op = "approve" => copy.status = "pending_review"
          /\ press' = [op |-> op, looked |-> copy.items, answer |-> Week!NoAnswer]
    BY <1>6 DEF Week!Press, Week!Offered, Week!RecommendationActionsFor, Ops
  <2>2. press' \in Sent /\ press'.op = op /\ press'.looked = copy.items
        /\ press'.answer = Week!NoAnswer
    BY <1>0, <2>1 DEF Sent, Ranked, Replies
  <2>3. ~ Unshown /\ ~ Unshown'
    BY <2>0, <2>2, WeekForms DEF Unshown
  <2>4. Shown => Shown'
    BY <2>0, <2>1, <2>2 DEF Shown, Current
  <2>5. Approves
    BY <2>2
  <2> QED
    BY <1>0, <2>0, <2>2, <2>3, <2>4, <2>5 DEF WeekInv, WeekTyped
<1>7. CASE Week!Apply
  <2>0. /\ press \in Sent /\ press.answer = Week!NoAnswer /\ press.op \in Ops
        /\ UNCHANGED <<thisWeek, copy, poll, acted, dropped>>
    BY <1>0, <1>7 DEF Week!Apply, Sent
  <2>1. ~ Unshown
    BY <2>0, WeekForms DEF Unshown
  <2>2. CASE Week!Accepts(press.op)
    <3>0. Week!Carries(press.op)
          /\ press' = [press EXCEPT !.answer = [status |-> ranking'.status,
                                                generation |-> ranking'.generation]]
      BY <1>7, <2>2 DEF Week!Apply
    <3>1. ranking' \in Ranked /\ stuck' = FALSE
          /\ ranking'.status \in {"approved", "regenerating", "generating"}
      BY <2>0, <2>2, <3>0, CarriesOut DEF WeekInv
    <3>2. PICK r : r = [status |-> ranking'.status, generation |-> ranking'.generation]
      OBVIOUS
    <3>3. r \in Done
      BY <3>1, <3>2 DEF Done, Ranked
    <3>4. press' = [press EXCEPT !.answer = r]
      BY <3>0, <3>2
    <3>5. press' \in Sent /\ press'.answer = r
      BY <2>0, <3>3, <3>4 DEF Sent, Replies
    <3>6. Unshown'
      BY <3>3, <3>5 DEF Unshown
    <3>7. Approves
      BY <1>0, <2>0, <2>1 DEF Shown
    <3> QED
      BY <1>0, <2>0, <3>1, <3>5, <3>6, <3>7 DEF WeekInv, WeekTyped
  <2>3. CASE ~ Week!Accepts(press.op)
    <3>0. press' = [press EXCEPT !.answer = Week!Conflict] /\ UNCHANGED <<ranking, stuck>>
      BY <1>7, <2>3 DEF Week!Apply
    <3>1. press' \in Sent /\ press'.answer = Week!Conflict
      BY <2>0, <3>0 DEF Sent, Replies
    <3>2. Shown => Shown'
      BY <2>0, <3>0, <3>1, WeekForms DEF Shown, Current
    <3>3. Approves
      BY <3>1
    <3> QED
      BY <1>0, <2>0, <2>1, <3>0, <3>1, <3>2, <3>3 DEF WeekInv, WeekTyped
  <2> QED
    BY <2>2, <2>3
<1>8. CASE Week!Answer
  <2>0. /\ press \in Sent /\ press.answer # Week!NoAnswer /\ press' = Week!NoPress
        /\ poll' = Week!Asked /\ UNCHANGED <<ranking, thisWeek, stuck, acted, dropped>>
    BY <1>0, <1>8 DEF Week!Answer, Week!AfterAnswer
  <2>1. ~ Unshown'
    BY <2>0, WeekForms DEF Unshown
  <2>2. Approves
    <3>1. press'.op = "none"
      BY <2>0 DEF Week!NoPress
    <3> QED
      BY <3>1
  <2>3. CASE press.answer = Week!Conflict
    <3>1. copy' = copy /\ ~ Unshown
      BY <1>8, <2>3, WeekForms DEF Week!Answer, Unshown
    <3>2. Shown => Shown'
      BY <2>0, <3>1, WeekForms DEF Shown, Current
    <3> QED
      BY <1>0, <2>0, <2>1, <2>2, <3>1, <3>2 DEF WeekInv, WeekTyped, Polls
  <2>4. CASE press.answer # Week!Conflict
    <3>1. press.answer \in Done
      BY <2>0, <2>4 DEF Sent, Replies
    <3>2. copy' = [copy EXCEPT !.status = press.answer.status,
                               !.generation = press.answer.generation]
      BY <1>8, <2>4 DEF Week!Answer
    <3>3. copy' \in Ranked /\ copy'.status # "pending_review"
      BY <1>0, <3>1, <3>2 DEF Ranked, Done, Phases
    <3>4. Shown'
      BY <2>0, <3>3, WeekForms DEF Shown, Current
    <3> QED
      BY <1>0, <2>0, <2>2, <3>3, <3>4 DEF WeekInv, WeekTyped, Polls
  <2> QED
    BY <2>3, <2>4
<1>9. CASE Week!LoseAnswer
  <2>0. /\ press' = Week!NoPress /\ acted' = TRUE /\ dropped' \in Nat
        /\ UNCHANGED <<ranking, thisWeek, stuck, copy, poll>>
    BY <1>0, <1>9 DEF Week!LoseAnswer
  <2>1. press'.op = "none"
    BY <2>0 DEF Week!NoPress
  <2> QED
    BY <1>0, <2>0, <2>1 DEF WeekInv, WeekTyped
<1>10. CASE Week!Poll \/ Week!Reopen
  <2>0. poll' = Week!Asked /\ UNCHANGED <<ranking, thisWeek, stuck, copy, press, acted, dropped>>
    BY <1>10 DEF Week!Poll, Week!Reopen
  <2>1. Shown => Shown'
    BY <2>0, WeekForms DEF Shown, Current
  <2> QED
    BY <1>0, <1>1, <2>0, <2>1 DEF WeekInv, WeekTyped, Polls, Unshown
<1>11. CASE Week!Read
  <2>0. poll' = [pc |-> "read", row |-> ranking]
        /\ UNCHANGED <<ranking, thisWeek, stuck, copy, press, acted, dropped>>
    BY <1>11 DEF Week!Read
  <2>1. poll' \in Polls /\ poll'.row = ranking
    BY <1>0, <2>0 DEF Polls
  <2>2. Shown => Shown'
    BY <2>0, <2>1 DEF Shown, Current
  <2> QED
    BY <1>0, <1>1, <2>0, <2>1, <2>2 DEF WeekInv, WeekTyped, Unshown
<1>12. CASE Week!Show
  <2>0. /\ poll.pc = "read" /\ copy' = poll.row /\ poll' = Week!NoPoll
        /\ acted' = (acted /\ ~ (press = Week!NoPress /\ poll.row = ranking))
        /\ UNCHANGED <<ranking, thisWeek, stuck, press, dropped>>
    BY <1>12 DEF Week!Show
  <2>1. poll.row \in Ranked
    BY <1>0, <2>0, WeekForms DEF Polls
  <2>2. ~ acted /\ Shown => Shown'
    BY <2>0, WeekForms DEF Shown, Current
  <2>3. acted /\ ~ acted' => Shown'
    <3> SUFFICES ASSUME acted, ~ acted' PROVE Shown'
      OBVIOUS
    <3>1. press = Week!NoPress /\ poll.row = ranking
      BY <2>0
    <3> QED
      BY <2>0, <3>1, WeekForms DEF Shown, Current
  <2>4. Unshown' = Unshown
    BY <2>0 DEF Unshown
  <2>5. acted' \in BOOLEAN
    BY <2>0
  <2>6. WeekTyped'
    BY <1>0, <2>0, <2>1, <2>5 DEF WeekTyped, Polls
  <2>7. ~ acted' /\ ~ Unshown' => Shown'
    BY <1>0, <2>2, <2>3, <2>4
  <2> QED
    BY <1>0, <1>1, <2>0, <2>6, <2>7 DEF WeekInv
<1>13. CASE UNCHANGED weekVars
  BY <1>0, <1>1, <1>13 DEF weekVars, WeekInv, WeekTyped, Unshown, Shown, Current
<1> QED
  BY <1>2, <1>3, <1>4, <1>5, <1>6, <1>7, <1>8, <1>9, <1>10, <1>11, <1>12, <1>13 DEF Week!WeekNext

LEMMA WeekHolds == WeekInv => Week!WeekGoesOn
<1> SUFFICES ASSUME WeekInv, thisWeek \/ ~ stuck,
                    ranking.status # "approved", ~ (ranking.status \in Week!InProgress /\ ~ stuck)
             PROVE  \E op \in Week!Offered(ranking.status) : Week!Accepts(op)
  BY DEF Week!WeekGoesOn
<1>1. CASE ranking.status = "pending_review"
  <2>1. "approve" \in Week!Offered(ranking.status) /\ Week!Accepts("approve")
    BY <1>1 DEF Week!Offered, Week!RecommendationActionsFor, Week!Accepts
  <2> QED
    BY <2>1
<1>2. CASE ranking.status \in {"none", "generation_failed"} \/ (ranking.status \in Week!InProgress /\ stuck)
  <2>1. thisWeek \/ ranking.status = "generation_failed"
    BY <1>2 DEF WeekInv
  <2>2. "generate" \in Week!Offered(ranking.status) /\ Week!Accepts("generate")
    BY <1>2, <2>1 DEF Week!Offered, Week!RecommendationActionsFor, Week!Accepts, Week!Generates
  <2> QED
    BY <2>2
<1>3. ranking.status \in Phases /\ stuck \in BOOLEAN
  BY DEF WeekInv, WeekTyped, Ranked
<1> QED
  BY <1>1, <1>2, <1>3 DEF Phases, Week!InProgress

-------------------------------------------------------------------------------
(* The writers together *)

\* The other parts of the service do not touch what people write.
LEMMA WritersStep ==
  ASSUME Next \/ UNCHANGED vars
  PROVE  /\ Drafts!WizardNext \/ UNCHANGED <<wizard, drafts, unanswered>>
         /\ Drafts!RowNext \/ UNCHANGED <<row, form, request, saves>>
         /\ Station!StationNext \/ UNCHANGED stationVars
         /\ Week!WeekNext \/ UNCHANGED weekVars
<1>1. CASE WizardNext
  <2>1. /\ Drafts!WizardNext
        /\ UNCHANGED <<station, trail, writes, list, sheet, mutation, fetch, answered>>
        /\ UNCHANGED <<ranking, thisWeek, stuck, copy, poll, press, acted, dropped>>
    BY <1>1 DEF WizardNext, centerVars, stationVars, weekVars
  <2>2. UNCHANGED <<row, form, request, saves>>
    BY <2>1 DEF Drafts!WizardNext, Drafts!Forward, Drafts!Back, Drafts!Create, Drafts!Created,
                Drafts!LeaveUpload
  <2> QED
    BY <2>1, <2>2 DEF stationVars, weekVars
<1>2. CASE DraftNext
  <2>1. /\ Drafts!RowNext
        /\ UNCHANGED <<station, trail, writes, list, sheet, mutation, fetch, answered>>
        /\ UNCHANGED <<ranking, thisWeek, stuck, copy, poll, press, acted, dropped>>
    BY <1>2 DEF DraftNext, centerVars, stationVars, weekVars
  <2>2. UNCHANGED <<wizard, drafts, unanswered>>
    BY <2>1 DEF Drafts!RowNext, Drafts!OpenForm, Drafts!TypeScenes, Drafts!SaveEdit,
                Drafts!SaveCaptions, Drafts!SavePart, Drafts!SetCaptions, Drafts!Sends, Drafts!Load, Drafts!Write,
                Drafts!MoveOn
  <2> QED
    BY <2>1, <2>2 DEF stationVars, weekVars
<1>3. CASE StationNext
  BY <1>3 DEF StationNext, draftVars
<1>4. CASE WeekNext
  BY <1>4 DEF WeekNext, draftVars
<1>5. CASE SessionNext \/ PrompterNext \/ ChatNext
  BY <1>5 DEF SessionNext, PrompterNext, ChatNext, draftVars, centerVars
<1>6. CASE CopiesNext \/ ReaderNext \/ LinkNext
  BY <1>6 DEF CopiesNext, ReaderNext, LinkNext, draftVars, centerVars
<1>7. CASE UNCHANGED vars
  BY <1>7 DEF vars, draftVars, centerVars
<1> QED
  BY <1>1, <1>2, <1>3, <1>4, <1>5, <1>6, <1>7 DEF Next

WritersInv == WizardInv /\ RowInv /\ StationInv /\ WeekInv

\* WritingIsKept: a wizard creates one draft, which has the topics of its category, whose
\* captions only a client's request with the empty list takes away and whose scenes keep
\* their ids unless requests cross (contents.service.ts, the wizard and its screens); a
\* station, its log and its date of rest tell one story, in which every entry is a step, an
\* answered screen shows no older row and no edit takes a field away (stations.service.ts);
\* a ranking is approved by somebody who sees it, and a week goes on until it is
\* (recommendations.service.ts and its screens).
THEOREM WritingStaysKept == Spec => WritingIsKept
<1> DEFINE Captions == Drafts!EmptiedOnRequest
           Scenes == Drafts!SameIdsUnlessCrossed
           Entries == trail' # trail => station'.status # station.status
           Texts == station.intro # "" => station'.intro # ""
           Approvals == press.op = "approve" /\ press.answer = Week!NoAnswer
              /\ press'.op = "approve" /\ press'.answer \notin {Week!NoAnswer, Week!Conflict}
              => press.looked = ranking.items \/ acted
<1>1. Init => WritersInv
  BY WizardBegins, RowBegins, StationBegins, WeekBegins DEF Init, WritersInv
<1>2. ASSUME WritersInv, [Next]_vars
      PROVE  WritersInv' /\ Captions /\ Scenes /\ Entries /\ Texts /\ Approvals
  <2>1. WizardInv'
    BY <1>2, WritersStep, WizardSteps DEF WritersInv
  <2>2. RowInv' /\ Captions /\ Scenes
    BY <1>2, WritersStep, RowSteps DEF WritersInv
  <2>3. StationInv' /\ Entries /\ Texts
    BY <1>2, WritersStep, StationSteps DEF WritersInv
  <2>4. WeekInv' /\ Approvals
    BY <1>2, WritersStep, WeekSteps DEF WritersInv
  <2> QED
    BY <2>1, <2>2, <2>3, <2>4 DEF WritersInv
<1>3. WritersInv /\ [Next]_vars => WritersInv'
  BY <1>2
<1>4. WritersInv /\ [Next]_vars =>
        [Captions]_row /\ [Scenes]_row /\ [Entries]_stationVars /\ [Texts]_station /\ [Approvals]_weekVars
  BY <1>2
<1>5. WritersInv => /\ Drafts!OneDraftPerWizard /\ Drafts!TopicsFitCategory
                    /\ Station!TrailTellsTheStatus /\ Station!StationScreenSettles
                    /\ Week!WeekGoesOn
  BY WizardHolds, StationHolds, WeekHolds DEF WritersInv, RowInv, Drafts!TopicsFitCategory
<1>6. WritersInv /\ [Next]_vars =>
        /\ [Captions]_row /\ [Scenes]_row /\ [Entries]_(Station!stationVars)
        /\ [Texts]_station /\ [Approvals]_(Week!weekVars)
  BY <1>4 DEF stationVars, Station!stationVars, weekVars, Week!weekVars
<1> QED
  BY <1>1, <1>3, <1>5, <1>6, PTL
  DEF Spec, WritingIsKept, Drafts!CaptionsStay, Drafts!ScenesKeepTheirIds, Station!EntriesMove, Station!IntroStays,
      Week!ApprovesWhatIsShown
===============================================================================
