---------------------------- MODULE Clients_proofs ----------------------------
(***************************************************************************)
(* Theorems about what stands around the api (MC_Clients): part by part,   *)
(* an inductive invariant, that it holds at first, that the part's steps   *)
(* keep it and what it implies.                                            *)
(***************************************************************************)
EXTENDS MC_Clients, FiniteSetTheorems, SequenceTheorems, WellFoundedInduction, TLAPS

-------------------------------------------------------------------------------
(* The backups *)

\* A dump that ended is whole or thin.
Ended == {"whole", "thin"}

RemoteRun ==
  [pc : {"idle", "dump", "sum", "put", "putSum", "prune"}, kind : Ended, sum : BOOLEAN]

NasRun == [pc : {"idle", "sync", "dump", "prune", "verify", "done"}, before : SUBSET Media]

BucketDump == [night : Nat, day : 0 .. MaxDays, kind : Ended, sum : BOOLEAN]

NasDump == [night : Nat, day : 0 .. MaxDays, kind : Saved!Kind, rows : SUBSET Media]

SavedTyped ==
  /\ store \subseteq Media /\ gone \subseteq Media /\ rows \subseteq Media /\ copy \subseteq Media
  /\ today \in 0 .. MaxDays
  /\ remote \in RemoteRun /\ nas \in NasRun
  /\ bucket \subseteq BucketDump /\ dumps \subseteq NasDump
  /\ nights \in [remote : 0 .. MaxNights, nas : 0 .. MaxNights]
  /\ had \in [remote : BOOLEAN, nas : BOOLEAN, thin : BOOLEAN, copied : SUBSET Media]

\* The bucket: what was had is there, and a run that prunes has just put its own dump.
BucketFits ==
  /\ \A d \in bucket : d.day <= today /\ (d.kind = "thin" => had.thin)
  /\ ~had.thin /\ had.remote => \E d \in bucket : d.kind = "whole"
  /\ remote.pc \in {"putSum", "prune"} => \E d \in bucket : d.day = today

\* The NAS: one dump a night, and a run that prunes has just made its own.
DumpsFit ==
  /\ \A d \in dumps : d.day <= today /\ d.night <= nights.nas /\ (d.kind = "thin" => had.thin)
  /\ \A d, e \in dumps : d.night = e.night => d = e
  /\ nas.pc \in {"sync", "dump"} => \A d \in dumps : d.night < nights.nas
  /\ ~had.thin /\ had.nas => \E d \in dumps : d.kind = "whole"
  /\ nas.pc \in {"prune", "verify"} =>
       \E d \in dumps : d.night = nights.nas /\ d.day = today /\ d.kind \in Ended
  /\ nas.pc = "done" => \E d \in dumps : d.night = nights.nas /\ d.kind = "whole"

\* The objects of the beginning of a run are there, or deleted, until they are copied.
CopiesFit ==
  /\ nas.pc = "sync" => nas.before \subseteq store \union gone
  /\ nas.pc \in {"dump", "prune", "verify", "done"} => nas.before \subseteq copy \union gone
  /\ had.copied \subseteq copy

SavedInv == SavedTyped /\ BucketFits /\ DumpsFit /\ CopiesFit

LEMMA SavedBegins == Saved!BackupInit => SavedInv
<1> SUFFICES ASSUME Saved!BackupInit PROVE SavedInv
  OBVIOUS
<1>1. /\ store = {} /\ gone = {} /\ rows = {} /\ today = 0 /\ bucket = {} /\ copy = {} /\ dumps = {}
      /\ remote = [pc |-> "idle", kind |-> "whole", sum |-> FALSE]
      /\ nas = [pc |-> "idle", before |-> {}]
      /\ nights = [remote |-> 0, nas |-> 0]
      /\ had = [remote |-> FALSE, nas |-> FALSE, thin |-> FALSE, copied |-> {}]
  BY DEF Saved!BackupInit, Saved!Idle, Saved!Asleep
<1>2. SavedTyped
  BY <1>1, SavedAssumption DEF SavedTyped, RemoteRun, NasRun, Ended
<1> QED
  BY <1>1, <1>2 DEF SavedInv, BucketFits, DumpsFit, CopiesFit

\* The system works and days pass while no script prunes.
LEMMA SystemKeeps == ASSUME SavedInv, Saved!Work \/ Saved!Day PROVE SavedInv'
<1>1. CASE Saved!Work
  <2>1. /\ UNCHANGED <<today, remote, bucket, nas, copy, dumps, nights, had>>
        /\ gone \subseteq gone' /\ store \subseteq store' \union gone'
        /\ store' \subseteq Media /\ gone' \subseteq Media /\ rows' \subseteq Media
    BY <1>1 DEF Saved!Work, Saved!onRemote, Saved!onNas, SavedInv, SavedTyped
  <2> QED
    BY <2>1 DEF SavedInv, SavedTyped, BucketFits, DumpsFit, CopiesFit
<1>2. CASE Saved!Day
  <2>1. /\ UNCHANGED <<store, gone, rows, remote, bucket, nas, copy, dumps, nights, had>>
        /\ remote.pc = "idle" /\ nas.pc \in {"idle", "done"}
        /\ today' = today + 1 /\ today' \in 0 .. MaxDays
    BY <1>2, SavedAssumption
       DEF Saved!Day, Saved!system, Saved!onRemote, Saved!onNas, SavedInv, SavedTyped
  <2>2. SavedTyped'
    BY <2>1 DEF SavedInv, SavedTyped
  <2>3. BucketFits' /\ CopiesFit'
    BY <2>1 DEF SavedInv, SavedTyped, BucketFits, CopiesFit, BucketDump
  <2>4. DumpsFit'
    BY <2>1 DEF SavedInv, SavedTyped, DumpsFit, NasDump
  <2> QED
    BY <2>2, <2>3, <2>4 DEF SavedInv
<1> QED
  BY <1>1, <1>2

\* pg-dump-to-r2.sh up to the upload.
LEMMA RemoteGoesOn ==
  ASSUME SavedInv, Saved!StartRemote \/ Saved!FailRemote \/ Saved!DumpRemote \/ Saved!ChecksumRemote
  PROVE  SavedInv'
<1>1. /\ UNCHANGED <<store, gone, rows, today, bucket, nas, copy, dumps, had>>
      /\ nights'.nas = nights.nas /\ nights' \in [remote : 0 .. MaxNights, nas : 0 .. MaxNights]
      /\ remote' \in RemoteRun /\ remote'.pc \in {"idle", "dump", "sum", "put"}
  <2>0. remote \in RemoteRun /\ nights \in [remote : 0 .. MaxNights, nas : 0 .. MaxNights]
    BY DEF SavedInv, SavedTyped
  <2>1. CASE Saved!StartRemote
    <3>1. /\ UNCHANGED <<store, gone, rows, today, bucket, nas, copy, dumps, had>>
          /\ nights.remote + nights.nas < MaxNights
          /\ nights' = [nights EXCEPT !.remote = @ + 1] /\ remote' = [remote EXCEPT !.pc = "dump"]
      BY <2>1 DEF Saved!StartRemote, Saved!AtRemote, Saved!GoRemote, Saved!system, Saved!onNas
    <3>2. nights.remote + 1 \in 0 .. MaxNights
      BY <2>0, <3>1, SavedAssumption
    <3>3. nights'.nas = nights.nas /\ nights' \in [remote : 0 .. MaxNights, nas : 0 .. MaxNights]
      BY <2>0, <3>1, <3>2
    <3>4. remote' \in RemoteRun /\ remote'.pc = "dump"
      BY <2>0, <3>1 DEF RemoteRun
    <3> QED
      BY <3>1, <3>3, <3>4
  <2>2. CASE Saved!FailRemote
    <3>1. /\ UNCHANGED <<store, gone, rows, today, bucket, nas, copy, dumps, had, nights>>
          /\ remote' = [pc |-> "idle", kind |-> "whole", sum |-> FALSE]
      BY <2>2 DEF Saved!FailRemote, Saved!Idle, Saved!NoNight, Saved!system, Saved!onNas
    <3> QED
      BY <2>0, <3>1 DEF RemoteRun, Ended
  <2>3. CASE Saved!DumpRemote
    <3>1. /\ UNCHANGED <<store, gone, rows, today, bucket, nas, copy, dumps, had, nights>>
          /\ \E k \in Ended : remote' = [remote EXCEPT !.pc = "sum", !.kind = k]
      BY <2>3 DEF Saved!DumpRemote, Saved!AtRemote, Saved!NoNight, Saved!system, Saved!onNas, Ended
    <3> QED
      BY <2>0, <3>1 DEF RemoteRun
  <2>4. CASE Saved!ChecksumRemote
    <3>1. /\ UNCHANGED <<store, gone, rows, today, bucket, nas, copy, dumps, had, nights>>
          /\ \E s \in BOOLEAN : remote' = [remote EXCEPT !.pc = "put", !.sum = s]
      BY <2>4 DEF Saved!ChecksumRemote, Saved!AtRemote, Saved!NoNight, Saved!system, Saved!onNas
    <3> QED
      BY <2>0, <3>1 DEF RemoteRun
  <2> QED
    BY <2>1, <2>2, <2>3, <2>4
<1> QED
  BY <1>1 DEF SavedInv, SavedTyped, BucketFits, DumpsFit, CopiesFit

\* The dump is put, and is of today.
LEMMA PutDumpKeeps == ASSUME SavedInv, Saved!PutDump PROVE SavedInv'
<1> DEFINE d == [night |-> nights.remote, day |-> today, kind |-> remote.kind, sum |-> FALSE]
<1>1. /\ UNCHANGED <<store, gone, rows, today, nas, copy, dumps, nights>>
      /\ bucket' = bucket \union {d}
      /\ had' = [had EXCEPT !.remote = @ \/ remote.kind = "whole", !.thin = @ \/ remote.kind = "thin"]
      /\ remote' = [remote EXCEPT !.pc = IF remote.sum THEN "putSum" ELSE "prune"]
  BY DEF Saved!PutDump, Saved!AtRemote, Saved!GoRemote, Saved!system, Saved!onNas
<1>0. SavedTyped /\ BucketFits /\ DumpsFit /\ CopiesFit
  BY DEF SavedInv
<1>2. d \in BucketDump /\ d.kind = remote.kind /\ d.day = today /\ remote.kind \in Ended
  BY <1>0 DEF SavedTyped, BucketDump, RemoteRun
<1> HIDE DEF d
<1>3. /\ had' \in [remote : BOOLEAN, nas : BOOLEAN, thin : BOOLEAN, copied : SUBSET Media]
      /\ had'.nas = had.nas /\ had'.copied = had.copied
      /\ had'.remote = (had.remote \/ remote.kind = "whole")
      /\ had'.thin = (had.thin \/ remote.kind = "thin")
  BY <1>0, <1>1 DEF SavedTyped
<1>4. remote' \in RemoteRun
  BY <1>0, <1>1 DEF SavedTyped, RemoteRun
<1>5. SavedTyped'
  BY <1>0, <1>1, <1>2, <1>3, <1>4 DEF SavedTyped
<1>6. BucketFits'
  <2>1. ASSUME NEW e \in bucket' PROVE e.day <= today' /\ (e.kind = "thin" => had'.thin)
    <3>1. CASE e = d
      <4>1. today <= today
        BY <1>0 DEF SavedTyped
      <4> QED
        BY <1>1, <1>2, <1>3, <3>1, <4>1
    <3>2. CASE e \in bucket
      BY <1>0, <1>1, <1>3, <3>2 DEF BucketFits
    <3> QED
      BY <1>1, <3>1, <3>2
  <2>2. ~had'.thin /\ had'.remote => \E e \in bucket' : e.kind = "whole"
    BY <1>0, <1>1, <1>2, <1>3 DEF BucketFits, SavedTyped, Ended
  <2>3. \E e \in bucket' : e.day = today'
    BY <1>1, <1>2
  <2> QED
    BY <2>1, <2>2, <2>3 DEF BucketFits
<1>7. DumpsFit' /\ CopiesFit'
  BY <1>0, <1>1, <1>3 DEF DumpsFit, CopiesFit
<1> QED
  BY <1>5, <1>6, <1>7 DEF SavedInv

\* Its checksum is put or not.
LEMMA PutSumKeeps == ASSUME SavedInv, Saved!PutSum PROVE SavedInv'
<1> DEFINE F(d) == IF d.night = nights.remote THEN [d EXCEPT !.sum = TRUE] ELSE d
<1>1. /\ UNCHANGED <<store, gone, rows, today, nas, copy, dumps, nights, had>>
      /\ remote' = [remote EXCEPT !.pc = "prune"] /\ remote.pc = "putSum"
      /\ bucket' = {F(d) : d \in bucket} \/ bucket' = bucket
  BY DEF Saved!PutSum, Saved!AtRemote, Saved!GoRemote, Saved!NoNight, Saved!system, Saved!onNas
<1>0. SavedTyped /\ BucketFits /\ DumpsFit /\ CopiesFit
  BY DEF SavedInv
<1>2. \A d \in BucketDump : F(d) \in BucketDump /\ F(d).kind = d.kind /\ F(d).day = d.day
  BY DEF BucketDump
<1> HIDE DEF F
<1>3. remote' \in RemoteRun /\ remote'.pc = "prune"
  BY <1>0, <1>1 DEF SavedTyped, RemoteRun
<1>4. /\ bucket \subseteq BucketDump
      /\ \A e \in bucket' : \E d \in bucket : e.kind = d.kind /\ e.day = d.day /\ e \in BucketDump
      /\ \A d \in bucket : \E e \in bucket' : e.kind = d.kind /\ e.day = d.day
  BY <1>0, <1>1, <1>2 DEF SavedTyped
<1>5. SavedTyped'
  BY <1>0, <1>1, <1>3, <1>4 DEF SavedTyped
<1>6. BucketFits'
  <2>1. had' = had /\ today' = today /\ remote.pc = "putSum"
    BY <1>1
  <2>2. \A e \in bucket' : e.day <= today' /\ (e.kind = "thin" => had'.thin)
    BY <1>0, <1>4, <2>1 DEF BucketFits
  <2>3. ~had'.thin /\ had'.remote => \E e \in bucket' : e.kind = "whole"
    BY <1>0, <1>4, <2>1 DEF BucketFits
  <2>4. \E e \in bucket' : e.day = today'
    BY <1>0, <1>4, <2>1 DEF BucketFits
  <2> QED
    BY <2>2, <2>3, <2>4 DEF BucketFits
<1>7. DumpsFit' /\ CopiesFit'
  BY <1>0, <1>1 DEF DumpsFit, CopiesFit
<1> QED
  BY <1>5, <1>6, <1>7 DEF SavedInv

\* The retention spares what is of today.
LEMMA PruneRemoteKeeps == ASSUME SavedInv, Saved!PruneRemote PROVE SavedInv'
<1>1. /\ UNCHANGED <<store, gone, rows, today, nas, copy, dumps, nights, had>>
      /\ remote' = [pc |-> "idle", kind |-> "whole", sum |-> FALSE] /\ remote.pc = "prune"
      /\ bucket' \subseteq bucket /\ \A d \in bucket : today - d.day > Retention \/ d \in bucket'
  BY DEF Saved!PruneRemote, Saved!AtRemote, Saved!Idle, Saved!NoNight, Saved!system, Saved!onNas,
         Saved!Older
<1>0. SavedTyped /\ BucketFits /\ DumpsFit /\ CopiesFit
  BY DEF SavedInv
<1>2. remote' \in RemoteRun /\ remote'.pc = "idle"
  BY <1>1 DEF RemoteRun, Ended
<1>3. PICK d \in bucket : d.day = today
  BY <1>0, <1>1 DEF BucketFits
<1>4. d \in bucket' /\ d.kind \in Ended /\ (d.kind = "thin" => had.thin)
  BY <1>0, <1>1, <1>3, SavedAssumption DEF SavedTyped, BucketFits, BucketDump
<1>5. SavedTyped'
  BY <1>0, <1>1, <1>2 DEF SavedTyped
<1>6. BucketFits'
  BY <1>0, <1>1, <1>2, <1>4 DEF BucketFits, Ended
<1>7. DumpsFit' /\ CopiesFit'
  BY <1>0, <1>1 DEF DumpsFit, CopiesFit
<1> QED
  BY <1>5, <1>6, <1>7 DEF SavedInv

\* media-to-nas.sh begins a night.
LEMMA StartNasKeeps == ASSUME SavedInv, Saved!StartNas PROVE SavedInv'
<1>0. SavedTyped /\ BucketFits /\ DumpsFit /\ CopiesFit
  BY DEF SavedInv
<1>1. /\ UNCHANGED <<store, gone, rows, today, remote, bucket, copy, dumps, had>>
      /\ nights.remote + nights.nas < MaxNights /\ nights' = [nights EXCEPT !.nas = @ + 1]
      /\ nas' = [pc |-> "sync", before |-> store]
  BY DEF Saved!StartNas, Saved!system, Saved!onRemote
<1>2. nights.nas + 1 \in 0 .. MaxNights /\ nights \in [remote : 0 .. MaxNights, nas : 0 .. MaxNights]
  BY <1>0, <1>1, SavedAssumption DEF SavedTyped
<1>3. /\ nights' \in [remote : 0 .. MaxNights, nas : 0 .. MaxNights]
      /\ nights'.nas = nights.nas + 1
  BY <1>1, <1>2
<1>4. nas' \in NasRun /\ nas'.pc = "sync" /\ nas'.before = store
  BY <1>0, <1>1 DEF SavedTyped, NasRun
<1>5. SavedTyped'
  BY <1>0, <1>1, <1>3, <1>4 DEF SavedTyped
<1>6. BucketFits' /\ CopiesFit'
  BY <1>0, <1>1, <1>4 DEF BucketFits, CopiesFit
<1>7. DumpsFit'
  <2>1. \A d \in dumps : d.night \in Nat /\ d.night <= nights.nas
    BY <1>0 DEF SavedTyped, DumpsFit, NasDump
  <2>2. \A d \in dumps : d.night < nights'.nas /\ d.night <= nights'.nas
    BY <1>2, <1>3, <2>1
  <2> QED
    BY <1>0, <1>1, <1>4, <2>2 DEF DumpsFit
<1> QED
  BY <1>5, <1>6, <1>7 DEF SavedInv

\* A dump of this night is a new one.
LEMMA NewDump ==
  ASSUME SavedInv, nas.pc = "dump", NEW k \in Saved!Kind, NEW d, d = Saved!Dump(k)
  PROVE  /\ d \in NasDump /\ d.night = nights.nas /\ d.day = today /\ d.kind = k
         /\ \A e \in dumps : e.night < d.night
         /\ \A e, f \in dumps \union {d} : e.night = f.night => e = f
<1>1. d \in NasDump /\ d.night = nights.nas /\ d.day = today /\ d.kind = k /\ d.night \in Nat
  BY DEF Saved!Dump, NasDump, SavedInv, SavedTyped
<1>2. \A e \in dumps : e.night < d.night /\ e.night \in Nat
  BY <1>1 DEF SavedInv, SavedTyped, DumpsFit, NasDump
<1>3. \A e, f \in dumps : e.night = f.night => e = f
  BY DEF SavedInv, DumpsFit
<1>4. \A e \in dumps : e.night # d.night
  BY <1>1, <1>2
<1> QED
  BY <1>1, <1>2, <1>3, <1>4

\* The run ends early; its dump may be cut short.
LEMMA FailNasKeeps == ASSUME SavedInv, Saved!FailNas PROVE SavedInv'
<1>0. SavedTyped /\ BucketFits /\ DumpsFit /\ CopiesFit
  BY DEF SavedInv
<1>1. /\ UNCHANGED <<store, gone, rows, today, remote, bucket, copy, had, nights>>
      /\ nas' = [pc |-> "idle", before |-> {}]
      /\ dumps' = dumps \/ (nas.pc = "dump" /\ dumps' = dumps \union {Saved!Dump("cut")})
  BY DEF Saved!FailNas, Saved!Asleep, Saved!NoNight, Saved!system, Saved!onRemote
<1>2. nas' \in NasRun /\ nas'.pc = "idle"
  BY <1>1 DEF NasRun
<1>3. BucketFits' /\ CopiesFit'
  BY <1>0, <1>1, <1>2 DEF BucketFits, CopiesFit
<1>4. CASE dumps' = dumps
  <2>1. SavedTyped' /\ DumpsFit'
    BY <1>0, <1>1, <1>2, <1>4 DEF SavedTyped, DumpsFit
  <2> QED
    BY <1>3, <2>1 DEF SavedInv
<1>5. CASE nas.pc = "dump" /\ dumps' = dumps \union {Saved!Dump("cut")}
  <2>1. PICK d : d = Saved!Dump("cut")
    OBVIOUS
  <2>2. /\ d \in NasDump /\ d.night = nights.nas /\ d.day = today /\ d.kind = "cut"
        /\ \A e, f \in dumps \union {d} : e.night = f.night => e = f
    BY <1>5, <2>1, NewDump DEF Saved!Kind
  <2>3. SavedTyped'
    BY <1>0, <1>1, <1>2, <1>5, <2>1, <2>2 DEF SavedTyped
  <2>4. \A e \in dumps' : e.day <= today' /\ e.night <= nights'.nas /\ (e.kind = "thin" => had'.thin)
    <3>1. today \in Nat /\ nights.nas \in Nat
      BY <1>0 DEF SavedTyped
    <3> QED
      BY <1>0, <1>1, <1>5, <2>1, <2>2, <3>1 DEF DumpsFit
  <2>5. DumpsFit'
    BY <1>0, <1>1, <1>2, <1>5, <2>1, <2>2, <2>4 DEF DumpsFit
  <2> QED
    BY <1>3, <2>3, <2>5 DEF SavedInv
<1> QED
  BY <1>1, <1>4, <1>5

\* rsync: the objects of the beginning are copied, unless they were deleted.
LEMMA SyncMediaKeeps == ASSUME SavedInv, Saved!SyncMedia PROVE SavedInv'
<1>0. SavedTyped /\ BucketFits /\ DumpsFit /\ CopiesFit
  BY DEF SavedInv
<1>1. /\ UNCHANGED <<store, gone, rows, today, remote, bucket, dumps, had, nights>> /\ nas.pc = "sync"
      /\ \/ copy' = copy \union store /\ nas' = [nas EXCEPT !.pc = "dump"]
         \/ \E some \in SUBSET store : copy' = copy \union some /\ nas' = [pc |-> "idle", before |-> {}]
  BY DEF Saved!SyncMedia, Saved!SyncAll, Saved!GoNas, Saved!AtNas, Saved!Asleep, Saved!NoNight,
         Saved!system, Saved!onRemote
<1>2. /\ nas' \in NasRun /\ copy \subseteq copy' /\ copy' \subseteq Media
      /\ \/ nas'.pc = "idle"
         \/ nas'.pc = "dump" /\ nas'.before = nas.before /\ store \subseteq copy'
  BY <1>0, <1>1 DEF SavedTyped, NasRun
<1>3. SavedTyped'
  BY <1>0, <1>1, <1>2 DEF SavedTyped
<1>4. BucketFits' /\ CopiesFit'
  BY <1>0, <1>1, <1>2 DEF BucketFits, CopiesFit
<1>5. DumpsFit'
  BY <1>0, <1>1, <1>2 DEF DumpsFit
<1> QED
  BY <1>3, <1>4, <1>5 DEF SavedInv

\* pg_dump ends well.
LEMMA DumpNasKeeps == ASSUME SavedInv, Saved!DumpNas PROVE SavedInv'
<1>0. SavedTyped /\ BucketFits /\ DumpsFit /\ CopiesFit
  BY DEF SavedInv
<1>1. PICK k \in Ended :
        /\ dumps' = dumps \union {Saved!Dump(k)}
        /\ had' = [had EXCEPT !.nas = @ \/ k = "whole", !.thin = @ \/ k = "thin"]
  BY DEF Saved!DumpNas, Ended
<1>2. /\ UNCHANGED <<store, gone, rows, today, remote, bucket, copy, nights>> /\ nas.pc = "dump"
      /\ nas' = [nas EXCEPT !.pc = "prune"]
  BY DEF Saved!DumpNas, Saved!GoNas, Saved!AtNas, Saved!system, Saved!onRemote
<1>3. PICK d : d = Saved!Dump(k)
  OBVIOUS
<1>4. /\ d \in NasDump /\ d.night = nights.nas /\ d.day = today /\ d.kind = k
      /\ \A e, f \in dumps \union {d} : e.night = f.night => e = f
  BY <1>2, <1>3, NewDump DEF Saved!Kind, Ended
<1>5. nas' \in NasRun /\ nas'.pc = "prune" /\ nas'.before = nas.before
  BY <1>0, <1>2 DEF SavedTyped, NasRun
<1>6. /\ had' \in [remote : BOOLEAN, nas : BOOLEAN, thin : BOOLEAN, copied : SUBSET Media]
      /\ had'.remote = had.remote /\ had'.copied = had.copied
      /\ had'.nas = (had.nas \/ k = "whole") /\ had'.thin = (had.thin \/ k = "thin")
  BY <1>0, <1>1 DEF SavedTyped
<1>7. dumps' = dumps \union {d}
  BY <1>1, <1>3
<1>8. SavedTyped'
  BY <1>0, <1>2, <1>4, <1>5, <1>6, <1>7 DEF SavedTyped
<1>9. BucketFits' /\ CopiesFit'
  BY <1>0, <1>2, <1>5, <1>6 DEF BucketFits, CopiesFit
<1>10. DumpsFit'
  <2>1. \A e \in dumps' : e.day <= today' /\ e.night <= nights'.nas /\ (e.kind = "thin" => had'.thin)
    <3>1. today \in Nat /\ nights.nas \in Nat
      BY <1>0 DEF SavedTyped
    <3> QED
      BY <1>0, <1>2, <1>4, <1>6, <1>7, <3>1 DEF DumpsFit
  <2>2. \A e, f \in dumps' : e.night = f.night => e = f
    BY <1>4, <1>7
  <2>3. ~had'.thin => \E e \in dumps' : e.kind = "whole"
    BY <1>1, <1>4, <1>6, <1>7 DEF Ended
  <2>4. \E e \in dumps' : e.night = nights'.nas /\ e.day = today' /\ e.kind \in Ended
    BY <1>1, <1>2, <1>4, <1>7
  <2> QED
    BY <1>5, <2>1, <2>2, <2>3, <2>4 DEF DumpsFit
<1> QED
  BY <1>8, <1>9, <1>10 DEF SavedInv

\* The retention spares this night's dump.
LEMMA PruneNasKeeps == ASSUME SavedInv, Saved!PruneNas PROVE SavedInv'
<1>0. SavedTyped /\ BucketFits /\ DumpsFit /\ CopiesFit
  BY DEF SavedInv
<1>1. /\ UNCHANGED <<store, gone, rows, today, remote, bucket, copy, had, nights>> /\ nas.pc = "prune"
      /\ nas' = [nas EXCEPT !.pc = "verify"]
      /\ dumps' \subseteq dumps /\ \A d \in dumps : today - d.day > Retention \/ d \in dumps'
  BY DEF Saved!PruneNas, Saved!GoNas, Saved!AtNas, Saved!NoNight, Saved!system, Saved!onRemote,
         Saved!Older
<1>2. nas' \in NasRun /\ nas'.pc = "verify" /\ nas'.before = nas.before
  BY <1>0, <1>1 DEF SavedTyped, NasRun
<1>3. PICK d \in dumps : d.night = nights.nas /\ d.day = today /\ d.kind \in Ended
  BY <1>0, <1>1 DEF DumpsFit
<1>4. d \in dumps' /\ (d.kind = "thin" => had.thin)
  BY <1>0, <1>1, <1>3, SavedAssumption DEF SavedTyped, DumpsFit
<1>5. SavedTyped'
  BY <1>0, <1>1, <1>2 DEF SavedTyped
<1>6. BucketFits' /\ CopiesFit'
  BY <1>0, <1>1, <1>2 DEF BucketFits, CopiesFit
<1>7. DumpsFit'
  BY <1>0, <1>1, <1>2, <1>3, <1>4 DEF DumpsFit, Ended
<1> QED
  BY <1>5, <1>6, <1>7 DEF SavedInv

\* The newest dump is that of the last night that made one.
LEMMA NewestIsLast ==
  ASSUME SavedInv, NEW d \in dumps, d.night = nights.nas
  PROVE  Saved!Newest = d
<1>1. \A e \in dumps : e.night <= d.night
  BY DEF SavedInv, DumpsFit
<1>2. \A e \in dumps : (\A f \in dumps : f.night <= e.night) => e = d
  <2> SUFFICES ASSUME NEW e \in dumps, d.night <= e.night PROVE e = d
    OBVIOUS
  <2>1. e.night <= d.night /\ e.night \in Nat /\ d.night \in Nat
    BY <1>1 DEF SavedInv, SavedTyped, NasDump
  <2>2. e.night = d.night
    BY <2>1
  <2> QED
    BY <2>2 DEF SavedInv, DumpsFit
<1> QED
  BY <1>1, <1>2 DEF Saved!Newest

\* verify_latest
LEMMA VerifyNasKeeps == ASSUME SavedInv, Saved!VerifyNas PROVE SavedInv'
<1>0. SavedTyped /\ BucketFits /\ DumpsFit /\ CopiesFit
  BY DEF SavedInv
<1>1. /\ UNCHANGED <<store, gone, rows, today, remote, bucket, copy, dumps, nights>> /\ nas.pc = "verify"
      /\ \/ nas' = [pc |-> "idle", before |-> {}] /\ had' = had
         \/ /\ Saved!Newest.kind # "thin" /\ nas' = [nas EXCEPT !.pc = "done"]
            /\ had' = [had EXCEPT !.copied = @ \union copy]
  BY DEF Saved!VerifyNas, Saved!GoNas, Saved!AtNas, Saved!Asleep, Saved!system, Saved!onRemote
<1>2. PICK d \in dumps : d.night = nights.nas /\ d.kind \in Ended
  BY <1>0, <1>1 DEF DumpsFit
<1>3. Saved!Newest = d
  BY <1>2, NewestIsLast
<1>4. /\ had' \in [remote : BOOLEAN, nas : BOOLEAN, thin : BOOLEAN, copied : SUBSET Media]
      /\ had'.remote = had.remote /\ had'.nas = had.nas /\ had'.thin = had.thin
      /\ had'.copied \subseteq had.copied \union copy
  BY <1>0, <1>1 DEF SavedTyped
<1>5. /\ nas' \in NasRun
      /\ \/ nas'.pc = "idle"
         \/ nas'.pc = "done" /\ nas'.before = nas.before /\ d.kind = "whole"
  BY <1>0, <1>1, <1>2, <1>3 DEF SavedTyped, NasRun, Ended
<1>6. SavedTyped'
  BY <1>0, <1>1, <1>4, <1>5 DEF SavedTyped
<1>7. BucketFits' /\ CopiesFit'
  BY <1>0, <1>1, <1>4, <1>5 DEF BucketFits, CopiesFit
<1>8. DumpsFit'
  BY <1>0, <1>1, <1>2, <1>4, <1>5 DEF DumpsFit
<1> QED
  BY <1>6, <1>7, <1>8 DEF SavedInv

LEMMA SavedSteps == ASSUME SavedInv, Saved!BackupNext \/ UNCHANGED backupVars PROVE SavedInv'
<1>1. CASE UNCHANGED backupVars
  BY <1>1 DEF backupVars, SavedInv, SavedTyped, BucketFits, DumpsFit, CopiesFit
<1> QED
  BY <1>1, SystemKeeps, RemoteGoesOn, PutDumpKeeps, PutSumKeeps, PruneRemoteKeeps, StartNasKeeps,
     FailNasKeeps, SyncMediaKeeps, DumpNasKeeps, PruneNasKeeps, VerifyNasKeeps
     DEF Saved!BackupNext

LEMMA SavedHolds ==
  ASSUME SavedInv
  PROVE  /\ Saved!BackupTypeOK /\ Saved!BucketIsWhole /\ Saved!LastBackupStays
         /\ Saved!SuccessIsRestorable /\ Saved!DeletionIsNotCopied
<1>0. SavedTyped /\ BucketFits /\ DumpsFit /\ CopiesFit
  BY DEF SavedInv
<1>1. Saved!BackupTypeOK
  <2>1. \A d \in bucket : d.day \in 0 .. today /\ d.kind \in Saved!Kind
    BY <1>0 DEF SavedTyped, BucketFits, BucketDump, Ended, Saved!Kind
  <2>2. \A d \in dumps : d.day \in 0 .. today /\ d.kind \in Saved!Kind
    BY <1>0 DEF SavedTyped, DumpsFit, NasDump
  <2> QED
    BY <1>0, <2>1, <2>2 DEF SavedTyped, Saved!BackupTypeOK, RemoteRun, NasRun
<1>2. Saved!BucketIsWhole
  BY <1>0 DEF SavedTyped, BucketDump, Ended, Saved!BucketIsWhole
<1>3. Saved!LastBackupStays /\ Saved!DeletionIsNotCopied
  BY <1>0 DEF BucketFits, DumpsFit, CopiesFit, Saved!LastBackupStays, Saved!DeletionIsNotCopied
<1>4. Saved!SuccessIsRestorable
  <2> SUFFICES ASSUME nas.pc = "done"
               PROVE  Saved!Newest.kind = "whole" /\ Saved!Newest.rows \cap nas.before \subseteq copy \cup gone
    BY DEF Saved!SuccessIsRestorable
  <2>1. PICK d \in dumps : d.night = nights.nas /\ d.kind = "whole"
    BY <1>0 DEF DumpsFit
  <2>2. Saved!Newest = d
    BY <2>1, NewestIsLast
  <2> QED
    BY <1>0, <2>1, <2>2 DEF CopiesFit
<1> QED
  BY <1>1, <1>2, <1>3, <1>4

-------------------------------------------------------------------------------
(* The gate of the controllers *)

Scanner == [depth : Int, inString : BOOLEAN, inComment : BOOLEAN, rest : BOOLEAN]

\* In the code of a file, brackets count and the openings of texts and comments are seen.
LEMMA MarksOfCode ==
  ASSUME NEW t \in Scanner, ~t.rest, ~t.inComment, ~t.inString,
         NEW mark, NEW u, u = Gate!Marked(t, mark)
  PROVE  /\ u \in Scanner
         /\ mark = "open" => u.depth = t.depth + 1 /\ ~u.rest /\ ~u.inComment /\ ~u.inString
         /\ mark = "close" => u.depth = t.depth - 1 /\ ~u.rest /\ ~u.inComment /\ ~u.inString
         /\ mark = "quote" => u.depth = t.depth /\ ~u.rest /\ ~u.inComment /\ u.inString
         /\ mark = "commentOpen" => u.depth = t.depth /\ ~u.rest /\ u.inComment /\ ~u.inString
         /\ mark = "lineComment" => u.depth = t.depth /\ u.rest /\ ~u.inComment /\ ~u.inString
<1>1. u = [t EXCEPT !.rest = mark = "lineComment", !.inComment = mark = "commentOpen",
                    !.inString = mark = "quote",
                    !.depth = IF mark = "open" THEN @ + 1 ELSE IF mark = "close" THEN @ - 1 ELSE @]
  BY DEF Gate!Marked
<1>2. PICK d : d = IF mark = "open" THEN t.depth + 1 ELSE IF mark = "close" THEN t.depth - 1 ELSE t.depth
  OBVIOUS
<1>3. d \in Int
  BY <1>2 DEF Scanner
<1>4. /\ u = [t EXCEPT !.rest = mark = "lineComment", !.inComment = mark = "commentOpen",
                     !.inString = mark = "quote", !.depth = d]
  BY <1>1, <1>2
<1>5. /\ u \in Scanner /\ u.depth = d /\ u.rest = (mark = "lineComment")
      /\ u.inComment = (mark = "commentOpen") /\ u.inString = (mark = "quote")
  BY <1>3, <1>4 DEF Scanner
<1> QED
  BY <1>2, <1>5

\* In a comment only its end is seen, in a text its end, and nothing in the rest of a line.
LEMMA MarksOfComments ==
  ASSUME NEW t \in Scanner, NEW mark, NEW u, u = Gate!Marked(t, mark)
  PROVE  /\ t.rest => u = t
         /\ ~t.rest /\ t.inComment =>
              /\ u \in Scanner /\ u.depth = t.depth /\ ~u.rest /\ (~t.inString => ~u.inString)
              /\ mark = "commentClose" => ~u.inComment
              /\ mark # "commentClose" => u.inComment
         /\ ~t.rest /\ ~t.inComment /\ t.inString =>
              /\ u \in Scanner /\ u.depth = t.depth /\ ~u.rest /\ ~u.inComment
              /\ mark = "quote" => ~u.inString
              /\ mark # "quote" => u.inString
<1>1. /\ t.rest => u = t
      /\ ~t.rest /\ t.inComment => u = [t EXCEPT !.inComment = mark # "commentClose"]
      /\ ~t.rest /\ ~t.inComment /\ t.inString => u = [t EXCEPT !.inString = mark # "quote"]
  BY DEF Gate!Marked
<1> QED
  BY <1>1 DEF Scanner
Scan == [depth : Int, inString : BOOLEAN, inComment : BOOLEAN]

\* The state of the scanner when a line is over.
Left(r, depth, comment) ==
  r \in Scan /\ ~r.inString /\ r.depth = depth /\ r.inComment = comment

\* What each layout of a line leaves.
LEMMA ScannedLines ==
  ASSUME NEW s \in Scan, ~s.inString, NEW marks, NEW r, r = Gate!Scanned(s, marks)
  PROVE  /\ ~s.inComment /\ marks = <<>> => Left(r, s.depth, FALSE)
         /\ ~s.inComment /\ marks = <<"open">> => Left(r, s.depth + 1, FALSE)
         /\ ~s.inComment /\ marks = <<"open", "open">> => Left(r, s.depth + 2, FALSE)
         /\ ~s.inComment /\ marks = <<"open", "close">> => Left(r, s.depth, FALSE)
         /\ ~s.inComment /\ marks = <<"open", "close", "open">> => Left(r, s.depth + 1, FALSE)
         /\ ~s.inComment /\ marks = <<"open", "close", "open", "close">> => Left(r, s.depth, FALSE)
         /\ ~s.inComment /\ marks = <<"quote", "open", "quote">> => Left(r, s.depth, FALSE)
         /\ ~s.inComment /\ marks = <<"close">> => Left(r, s.depth - 1, FALSE)
         /\ ~s.inComment /\ marks = <<"close", "close">> => Left(r, s.depth - 2, FALSE)
         /\ ~s.inComment /\ marks = <<"lineComment", "open", "commentOpen">> => Left(r, s.depth, FALSE)
         /\ ~s.inComment /\ marks = <<"commentOpen", "quote">> => Left(r, s.depth, TRUE)
         /\ s.inComment /\ marks = <<"close", "commentClose">> => Left(r, s.depth, FALSE)
<1>1. PICK t0 : /\ t0 \in Scanner /\ ~t0.rest /\ ~t0.inString /\ t0.depth = s.depth
                 /\ t0.inComment = s.inComment
                 /\ t0 = [depth |-> s.depth, inString |-> s.inString, inComment |-> s.inComment,
                          rest |-> FALSE]
  BY DEF Scanner, Scan
<1>2. PICK t1, t2, t3, t4 :
        /\ t1 = Gate!MarkAt(t0, marks, 1) /\ t2 = Gate!MarkAt(t1, marks, 2)
        /\ t3 = Gate!MarkAt(t2, marks, 3) /\ t4 = Gate!MarkAt(t3, marks, 4)
  OBVIOUS
<1>0. r = [depth |-> t4.depth, inString |-> t4.inString, inComment |-> t4.inComment]
  BY <1>1, <1>2 DEF Gate!Scanned
<1>3. CASE ~s.inComment /\ marks = <<>>
  <2>0. Len(marks) = 0
    BY <1>3
  <2>1. t1 = t0 /\ t2 = t1 /\ t3 = t2 /\ t4 = t3
    BY <1>2, <2>0 DEF Gate!MarkAt
  <2> QED
    BY <1>0, <1>1, <1>3, <1>1, <1>3, <2>1 DEF Scan, Scanner, Left
<1>4. CASE ~s.inComment /\ marks = <<"open">>
  <2>0. Len(marks) = 1 /\ marks[1] = "open"
    BY <1>4
  <2>1. t1 \in Scanner /\ t1.depth = s.depth + 1 /\ ~t1.rest /\ ~t1.inComment /\ ~t1.inString
    <3>1. t1 = Gate!Marked(t0, "open")
      BY <1>2, <2>0 DEF Gate!MarkAt
    <3> QED
      BY <1>1, <1>4, <3>1, MarksOfCode DEF Scan
  <2>2. t2 = t1 /\ t3 = t2 /\ t4 = t3
    BY <1>2, <2>0 DEF Gate!MarkAt
  <2> QED
    BY <1>0, <1>1, <1>4, <2>1, <2>2 DEF Scan, Scanner, Left
<1>5. CASE ~s.inComment /\ marks = <<"open", "open">>
  <2>0. Len(marks) = 2 /\ marks[1] = "open" /\ marks[2] = "open"
    BY <1>5
  <2>1. t1 \in Scanner /\ t1.depth = s.depth + 1 /\ ~t1.rest /\ ~t1.inComment /\ ~t1.inString
    <3>1. t1 = Gate!Marked(t0, "open")
      BY <1>2, <2>0 DEF Gate!MarkAt
    <3> QED
      BY <1>1, <1>5, <3>1, MarksOfCode DEF Scan
  <2>2. t2 \in Scanner /\ t2.depth = s.depth + 2 /\ ~t2.rest /\ ~t2.inComment /\ ~t2.inString
    <3>1. t2 = Gate!Marked(t1, "open")
      BY <1>2, <2>0 DEF Gate!MarkAt
    <3> QED
      BY <2>1, <3>1, MarksOfCode DEF Scan
  <2>3. t3 = t2 /\ t4 = t3
    BY <1>2, <2>0 DEF Gate!MarkAt
  <2> QED
    BY <1>0, <1>1, <1>5, <2>2, <2>3 DEF Scan, Scanner, Left
<1>6. CASE ~s.inComment /\ marks = <<"open", "close">>
  <2>0. Len(marks) = 2 /\ marks[1] = "open" /\ marks[2] = "close"
    BY <1>6
  <2>1. t1 \in Scanner /\ t1.depth = s.depth + 1 /\ ~t1.rest /\ ~t1.inComment /\ ~t1.inString
    <3>1. t1 = Gate!Marked(t0, "open")
      BY <1>2, <2>0 DEF Gate!MarkAt
    <3> QED
      BY <1>1, <1>6, <3>1, MarksOfCode DEF Scan
  <2>2. t2 \in Scanner /\ t2.depth = s.depth /\ ~t2.rest /\ ~t2.inComment /\ ~t2.inString
    <3>1. t2 = Gate!Marked(t1, "close")
      BY <1>2, <2>0 DEF Gate!MarkAt
    <3> QED
      BY <2>1, <3>1, MarksOfCode DEF Scan
  <2>3. t3 = t2 /\ t4 = t3
    BY <1>2, <2>0 DEF Gate!MarkAt
  <2> QED
    BY <1>0, <1>1, <1>6, <2>2, <2>3 DEF Scan, Scanner, Left
<1>7. CASE ~s.inComment /\ marks = <<"open", "close", "open">>
  <2>0. Len(marks) = 3 /\ marks[1] = "open" /\ marks[2] = "close" /\ marks[3] = "open"
    BY <1>7
  <2>1. t1 \in Scanner /\ t1.depth = s.depth + 1 /\ ~t1.rest /\ ~t1.inComment /\ ~t1.inString
    <3>1. t1 = Gate!Marked(t0, "open")
      BY <1>2, <2>0 DEF Gate!MarkAt
    <3> QED
      BY <1>1, <1>7, <3>1, MarksOfCode DEF Scan
  <2>2. t2 \in Scanner /\ t2.depth = s.depth /\ ~t2.rest /\ ~t2.inComment /\ ~t2.inString
    <3>1. t2 = Gate!Marked(t1, "close")
      BY <1>2, <2>0 DEF Gate!MarkAt
    <3> QED
      BY <2>1, <3>1, MarksOfCode DEF Scan
  <2>3. t3 \in Scanner /\ t3.depth = s.depth + 1 /\ ~t3.rest /\ ~t3.inComment /\ ~t3.inString
    <3>1. t3 = Gate!Marked(t2, "open")
      BY <1>2, <2>0 DEF Gate!MarkAt
    <3> QED
      BY <2>2, <3>1, MarksOfCode DEF Scan
  <2>4. t4 = t3
    BY <1>2, <2>0 DEF Gate!MarkAt
  <2> QED
    BY <1>0, <1>1, <1>7, <2>3, <2>4 DEF Scan, Scanner, Left
<1>8. CASE ~s.inComment /\ marks = <<"open", "close", "open", "close">>
  <2>0. Len(marks) = 4 /\ marks[1] = "open" /\ marks[2] = "close" /\ marks[3] = "open" /\ marks[4] = "close"
    BY <1>8
  <2>1. t1 \in Scanner /\ t1.depth = s.depth + 1 /\ ~t1.rest /\ ~t1.inComment /\ ~t1.inString
    <3>1. t1 = Gate!Marked(t0, "open")
      BY <1>2, <2>0 DEF Gate!MarkAt
    <3> QED
      BY <1>1, <1>8, <3>1, MarksOfCode DEF Scan
  <2>2. t2 \in Scanner /\ t2.depth = s.depth /\ ~t2.rest /\ ~t2.inComment /\ ~t2.inString
    <3>1. t2 = Gate!Marked(t1, "close")
      BY <1>2, <2>0 DEF Gate!MarkAt
    <3> QED
      BY <2>1, <3>1, MarksOfCode DEF Scan
  <2>3. t3 \in Scanner /\ t3.depth = s.depth + 1 /\ ~t3.rest /\ ~t3.inComment /\ ~t3.inString
    <3>1. t3 = Gate!Marked(t2, "open")
      BY <1>2, <2>0 DEF Gate!MarkAt
    <3> QED
      BY <2>2, <3>1, MarksOfCode DEF Scan
  <2>4. t4 \in Scanner /\ t4.depth = s.depth /\ ~t4.rest /\ ~t4.inComment /\ ~t4.inString
    <3>1. t4 = Gate!Marked(t3, "close")
      BY <1>2, <2>0 DEF Gate!MarkAt
    <3> QED
      BY <2>3, <3>1, MarksOfCode DEF Scan
  <2> QED
    BY <1>0, <1>1, <1>8, <2>4 DEF Scan, Scanner, Left
<1>9. CASE ~s.inComment /\ marks = <<"quote", "open", "quote">>
  <2>0. Len(marks) = 3 /\ marks[1] = "quote" /\ marks[2] = "open" /\ marks[3] = "quote"
    BY <1>9
  <2>1. t1 \in Scanner /\ t1.depth = s.depth /\ ~t1.rest /\ ~t1.inComment /\ t1.inString
    <3>1. t1 = Gate!Marked(t0, "quote")
      BY <1>2, <2>0 DEF Gate!MarkAt
    <3> QED
      BY <1>1, <1>9, <3>1, MarksOfCode DEF Scan
  <2>2. t2 \in Scanner /\ t2.depth = s.depth /\ ~t2.rest /\ ~t2.inComment /\ t2.inString
    <3>1. t2 = Gate!Marked(t1, "open")
      BY <1>2, <2>0 DEF Gate!MarkAt
    <3> QED
      BY <2>1, <3>1, MarksOfComments DEF Scan
  <2>3. t3 \in Scanner /\ t3.depth = s.depth /\ ~t3.rest /\ ~t3.inComment /\ ~t3.inString
    <3>1. t3 = Gate!Marked(t2, "quote")
      BY <1>2, <2>0 DEF Gate!MarkAt
    <3> QED
      BY <2>2, <3>1, MarksOfComments DEF Scan
  <2>4. t4 = t3
    BY <1>2, <2>0 DEF Gate!MarkAt
  <2> QED
    BY <1>0, <1>1, <1>9, <2>3, <2>4 DEF Scan, Scanner, Left
<1>10. CASE ~s.inComment /\ marks = <<"close">>
  <2>0. Len(marks) = 1 /\ marks[1] = "close"
    BY <1>10
  <2>1. t1 \in Scanner /\ t1.depth = s.depth - 1 /\ ~t1.rest /\ ~t1.inComment /\ ~t1.inString
    <3>1. t1 = Gate!Marked(t0, "close")
      BY <1>2, <2>0 DEF Gate!MarkAt
    <3> QED
      BY <1>1, <1>10, <3>1, MarksOfCode DEF Scan
  <2>2. t2 = t1 /\ t3 = t2 /\ t4 = t3
    BY <1>2, <2>0 DEF Gate!MarkAt
  <2> QED
    BY <1>0, <1>1, <1>10, <2>1, <2>2 DEF Scan, Scanner, Left
<1>11. CASE ~s.inComment /\ marks = <<"close", "close">>
  <2>0. Len(marks) = 2 /\ marks[1] = "close" /\ marks[2] = "close"
    BY <1>11
  <2>1. t1 \in Scanner /\ t1.depth = s.depth - 1 /\ ~t1.rest /\ ~t1.inComment /\ ~t1.inString
    <3>1. t1 = Gate!Marked(t0, "close")
      BY <1>2, <2>0 DEF Gate!MarkAt
    <3> QED
      BY <1>1, <1>11, <3>1, MarksOfCode DEF Scan
  <2>2. t2 \in Scanner /\ t2.depth = s.depth - 2 /\ ~t2.rest /\ ~t2.inComment /\ ~t2.inString
    <3>1. t2 = Gate!Marked(t1, "close")
      BY <1>2, <2>0 DEF Gate!MarkAt
    <3> QED
      BY <2>1, <3>1, MarksOfCode DEF Scan
  <2>3. t3 = t2 /\ t4 = t3
    BY <1>2, <2>0 DEF Gate!MarkAt
  <2> QED
    BY <1>0, <1>1, <1>11, <2>2, <2>3 DEF Scan, Scanner, Left
<1>12. CASE ~s.inComment /\ marks = <<"lineComment", "open", "commentOpen">>
  <2>0. Len(marks) = 3 /\ marks[1] = "lineComment" /\ marks[2] = "open" /\ marks[3] = "commentOpen"
    BY <1>12
  <2>1. t1 \in Scanner /\ t1.depth = s.depth /\ t1.rest /\ ~t1.inComment /\ ~t1.inString
    <3>1. t1 = Gate!Marked(t0, "lineComment")
      BY <1>2, <2>0 DEF Gate!MarkAt
    <3> QED
      BY <1>1, <1>12, <3>1, MarksOfCode DEF Scan
  <2>2. t2 \in Scanner /\ t2.depth = s.depth /\ t2.rest /\ ~t2.inComment /\ ~t2.inString
    <3>1. t2 = Gate!Marked(t1, "open")
      BY <1>2, <2>0 DEF Gate!MarkAt
    <3> QED
      BY <2>1, <3>1, MarksOfComments DEF Scan
  <2>3. t3 \in Scanner /\ t3.depth = s.depth /\ t3.rest /\ ~t3.inComment /\ ~t3.inString
    <3>1. t3 = Gate!Marked(t2, "commentOpen")
      BY <1>2, <2>0 DEF Gate!MarkAt
    <3> QED
      BY <2>2, <3>1, MarksOfComments DEF Scan
  <2>4. t4 = t3
    BY <1>2, <2>0 DEF Gate!MarkAt
  <2> QED
    BY <1>0, <1>1, <1>12, <2>3, <2>4 DEF Scan, Scanner, Left
<1>13. CASE ~s.inComment /\ marks = <<"commentOpen", "quote">>
  <2>0. Len(marks) = 2 /\ marks[1] = "commentOpen" /\ marks[2] = "quote"
    BY <1>13
  <2>1. t1 \in Scanner /\ t1.depth = s.depth /\ ~t1.rest /\ t1.inComment /\ ~t1.inString
    <3>1. t1 = Gate!Marked(t0, "commentOpen")
      BY <1>2, <2>0 DEF Gate!MarkAt
    <3> QED
      BY <1>1, <1>13, <3>1, MarksOfCode DEF Scan
  <2>2. t2 \in Scanner /\ t2.depth = s.depth /\ ~t2.rest /\ t2.inComment /\ ~t2.inString
    <3>1. t2 = Gate!Marked(t1, "quote")
      BY <1>2, <2>0 DEF Gate!MarkAt
    <3> QED
      BY <2>1, <3>1, MarksOfComments DEF Scan
  <2>3. t3 = t2 /\ t4 = t3
    BY <1>2, <2>0 DEF Gate!MarkAt
  <2> QED
    BY <1>0, <1>1, <1>13, <2>2, <2>3 DEF Scan, Scanner, Left
<1>14. CASE s.inComment /\ marks = <<"close", "commentClose">>
  <2>0. Len(marks) = 2 /\ marks[1] = "close" /\ marks[2] = "commentClose"
    BY <1>14
  <2>1. t1 \in Scanner /\ t1.depth = s.depth /\ ~t1.rest /\ t1.inComment /\ ~t1.inString
    <3>1. t1 = Gate!Marked(t0, "close")
      BY <1>2, <2>0 DEF Gate!MarkAt
    <3> QED
      BY <1>1, <1>14, <3>1, MarksOfComments DEF Scan
  <2>2. t2 \in Scanner /\ t2.depth = s.depth /\ ~t2.rest /\ ~t2.inComment /\ ~t2.inString
    <3>1. t2 = Gate!Marked(t1, "commentClose")
      BY <1>2, <2>0 DEF Gate!MarkAt
    <3> QED
      BY <2>1, <3>1, MarksOfComments DEF Scan
  <2>3. t3 = t2 /\ t4 = t3
    BY <1>2, <2>0 DEF Gate!MarkAt
  <2> QED
    BY <1>0, <1>1, <1>14, <2>2, <2>3 DEF Scan, Scanner, Left
<1> QED
  BY <1>3, <1>4, <1>5, <1>6, <1>7, <1>8, <1>9, <1>10, <1>11, <1>12, <1>13, <1>14

(* The gate of the controllers *)

\* What is open around a line, without the comment it may be in.
Places == {"file", "fileArguments", "class", "classArguments", "body"}

InClass(b) == b \in {"class", "classArguments", "body"}

NestOf(b) ==
  IF b = "file" THEN <<>>
  ELSE IF b = "fileArguments" THEN Append(<<>>, "arguments")
  ELSE IF b = "class" THEN Append(<<>>, "class")
  ELSE IF b = "classArguments" THEN Append(Append(<<>>, "class"), "arguments")
  ELSE Append(Append(<<>>, "class"), "body")

DepthOf(b) ==
  IF b = "file" THEN 0 ELSE IF b = "class" THEN 1 ELSE IF b = "classArguments" THEN 3 ELSE 2

Route == [name : Gate!Method, marks : SUBSET Gate!Decorator]

FoundClass == [marks : SUBSET Gate!Decorator, routes : SUBSET Route]

GateTyped ==
  /\ allow \subseteq Gate!Entry /\ verdict \in {"none", "PASS", "FAIL", "error"}
  /\ scan \in Scan /\ ~scan.inString
  /\ said \subseteq Gate!Decorator /\ owner \subseteq Gate!Decorator /\ pending = said
  /\ found \in Seq(FoundClass)

\* The script knows where the author is.
AtPlace(b) ==
  /\ \/ nest = NestOf(b) /\ ~scan.inComment
     \/ nest = Append(NestOf(b), "comment") /\ scan.inComment
  /\ scan.depth = DepthOf(b)
  /\ mode.in = (IF InClass(b) THEN "classBody" ELSE "file")
  /\ mode.depth = (IF InClass(b) THEN 1 ELSE 0)
  /\ InClass(b) => Len(found) # 0 /\ found[Len(found)].marks = owner
  /\ b = "body" => said = {}

\* A route of a class, with the marks of both.
RouteOf(k, r) == [name |-> r.name, marks |-> r.marks \union found[k].marks]

\* The routes the script has found are those the author has written.
RoutesFit ==
  /\ \A w \in written : \E k \in 1 .. Len(found) :
       "Controller" \in found[k].marks /\ \E r \in found[k].routes : w = RouteOf(k, r)
  /\ \A k \in 1 .. Len(found) :
       "Controller" \in found[k].marks => \A r \in found[k].routes : RouteOf(k, r) \in written

VerdictFits ==
  /\ verdict = "error" => Gate!Real = {}
  /\ verdict = "PASS" => Gate!Passes
  /\ verdict = "FAIL" => ~ Gate!Passes

GateInv == GateTyped /\ (\E b \in Places : AtPlace(b)) /\ RoutesFit /\ VerdictFits

\* The words of the author's file.
Word == {"arguments", "class", "body", "comment"}

\* What is appended is the last, and goes again.
LEMMA Appended ==
  ASSUME NEW S, NEW s \in Seq(S), NEW x \in S, NEW t, t = Append(s, x)
  PROVE  t \in Seq(S) /\ t # <<>> /\ Len(t) = Len(s) + 1 /\ t[Len(t)] = x
         /\ SubSeq(t, 1, Len(t) - 1) = s /\ \A i \in 1 .. Len(s) : t[i] = s[i]
<1>0. Len(s) \in Nat
  BY LenProperties
<1>1. /\ Append(s, x) \in Seq(S) /\ Append(s, x) # <<>> /\ Len(Append(s, x)) = Len(s) + 1
      /\ \A i \in 1 .. Len(s) : Append(s, x)[i] = s[i]
      /\ Append(s, x)[Len(s) + 1] = x
  BY AppendProperties
<1>2. Len(t) - 1 = Len(s) /\ t[Len(t)] = x
  BY <1>0, <1>1
<1>3. \A i \in 1 .. Len(s) : t[i] \in S
  BY <1>0, <1>1, ElementOfSeq
<1>4. SubSeq(t, 1, Len(s)) = s
  <2>1. PICK u : u = SubSeq(t, 1, Len(s))
    OBVIOUS
  <2>2. u \in Seq(S) /\ Len(u) = Len(s) /\ \A i \in 1 .. Len(s) : u[i] = t[i]
    BY <1>0, <1>1, <2>1, <1>2
  <2>3. u = s
    BY <1>1, <2>2, SeqEqual
  <2> QED
    BY <2>1, <2>3
<1> QED
  BY <1>1, <1>2, <1>4

LEMMA NestsAreOpen == ASSUME NEW b \in Places PROVE NestOf(b) \in Seq(Word)
<1>1. <<>> \in Seq(Word) /\ "class" \in Word /\ "arguments" \in Word /\ "body" \in Word
  BY DEF Word
<1>2. Append(<<>>, "class") \in Seq(Word) /\ Append(<<>>, "arguments") \in Seq(Word)
  BY <1>1, Appended
<1>3. /\ Append(Append(<<>>, "class"), "arguments") \in Seq(Word)
      /\ Append(Append(<<>>, "class"), "body") \in Seq(Word)
  BY <1>1, <1>2, Appended
<1> QED
  BY <1>1, <1>2, <1>3 DEF NestOf, Places

\* What is around a line, and what is left when it is closed.
LEMMA AroundPlaces ==
  ASSUME NEW b \in Places, nest = NestOf(b)
  PROVE  /\ Gate!Around = IF b = "file" THEN "file" ELSE IF b = "class" THEN "class"
                          ELSE IF b = "body" THEN "body" ELSE "arguments"
         /\ b \in {"fileArguments", "class"} => Gate!Within = NestOf("file")
         /\ b \in {"classArguments", "body"} => Gate!Within = NestOf("class")
         /\ b = "file" <=> nest = <<>>
<1>1. <<>> \in Seq(Word) /\ Append(<<>>, "class") \in Seq(Word)
  BY Appended DEF Word
<1>2. CASE b = "file"
  BY <1>2 DEF NestOf, Gate!Around
<1>3. CASE b \in {"fileArguments", "class"}
  <2>1. PICK x : x = IF b = "class" THEN "class" ELSE "arguments"
    OBVIOUS
  <2>2. nest = Append(<<>>, x) /\ x \in Word
    BY <1>3, <2>1 DEF NestOf, Word
  <2>3. nest # <<>> /\ nest[Len(nest)] = x /\ SubSeq(nest, 1, Len(nest) - 1) = <<>>
    BY <1>1, <2>2, Appended
  <2>4. NestOf("file") = <<>>
    BY DEF NestOf
  <2> QED
    BY <1>3, <2>1, <2>3, <2>4 DEF Gate!Around, Gate!Within
<1>4. CASE b \in {"classArguments", "body"}
  <2>1. PICK x : x = IF b = "body" THEN "body" ELSE "arguments"
    OBVIOUS
  <2>0. PICK s : s = Append(<<>>, "class")
    OBVIOUS
  <2>2. nest = Append(s, x) /\ x \in Word /\ s \in Seq(Word)
    BY <1>1, <1>4, <2>0, <2>1 DEF NestOf, Word
  <2>3. nest # <<>> /\ nest[Len(nest)] = x /\ SubSeq(nest, 1, Len(nest) - 1) = s
    BY <2>2, Appended
  <2>4. NestOf("class") = s
    BY <2>0 DEF NestOf
  <2> QED
    BY <1>4, <2>1, <2>3, <2>4 DEF Gate!Around, Gate!Within
<1> QED
  BY <1>2, <1>3, <1>4 DEF Places

LEMMA AroundComments ==
  ASSUME NEW b \in Places, nest = Append(NestOf(b), "comment")
  PROVE  Gate!Around = "comment" /\ Gate!Within = NestOf(b) /\ nest # <<>>
<1>1. "comment" \in Word /\ NestOf(b) \in Seq(Word)
  BY NestsAreOpen DEF Word
<1> QED
  BY <1>1, Appended DEF Gate!Around, Gate!Within

\* A place is where its words say.
LEMMA PlaceAround ==
  ASSUME NEW b \in Places, AtPlace(b)
  PROVE  /\ Gate!Around = "file" => b = "file" /\ nest = NestOf(b)
         /\ Gate!Around = "class" => b = "class" /\ nest = NestOf(b)
         /\ Gate!Around = "body" => b = "body" /\ nest = NestOf(b)
         /\ Gate!Around = "arguments" =>
              b \in {"fileArguments", "classArguments"} /\ nest = NestOf(b)
         /\ Gate!Around = "comment" <=> nest = Append(NestOf(b), "comment")
         /\ nest = NestOf(b) <=> ~ scan.inComment
         /\ nest = <<>> => b = "file" /\ nest = NestOf(b)
<1>1. CASE nest = NestOf(b) /\ ~scan.inComment
  BY <1>1, AroundPlaces, AroundComments DEF Places
<1>2. CASE nest = Append(NestOf(b), "comment") /\ scan.inComment
  BY <1>2, AroundPlaces, AroundComments DEF Places
<1> QED
  BY <1>1, <1>2 DEF AtPlace

\* The script is between two lines of a file or of a class, out of comments, at these places.
LEMMA TopLevels ==
  ASSUME GateTyped, NEW b \in Places, AtPlace(b)
  PROVE  /\ Gate!AtTopLevel <=> b \in {"file", "class"} /\ ~scan.inComment
         /\ scan.depth \in Int /\ ~scan.inString
BY DEF GateTyped, Scan, AtPlace, Gate!AtTopLevel, Places, DepthOf, InClass

\* A line that is no declaration, or not between lines, finds nothing.
LEMMA QuietLines ==
  ASSUME GateTyped, NEW b \in Places, AtPlace(b), NEW head, NEW marks, NEW d \in Int, NEW comment,
         Gate!ScanLine(head, marks), Left(Gate!Scanned(scan, marks), d, comment),
         Gate!AtTopLevel => head.kind \notin {"class", "member"},
         Gate!AtTopLevel /\ head.kind = "statement" => b = "file"
  PROVE  /\ Left(scan', d, comment) /\ found' = found
         /\ InClass(b) /\ d < 1 => mode' = [in |-> "file", depth |-> 0] /\ pending' = {}
         /\ InClass(b) /\ ~(d < 1) => mode' = mode
         /\ ~InClass(b) => mode' = mode
         /\ ~(InClass(b) /\ d < 1) =>
              /\ ~Gate!AtTopLevel \/ head.kind \in {"blank", "close"} => pending' = pending
              /\ Gate!AtTopLevel /\ head.kind = "decorator" => pending' = pending \union {head.name}
              /\ Gate!AtTopLevel /\ head.kind = "statement" => pending' = {}
<1>1. PICK after : after = Gate!Scanned(scan, marks)
  OBVIOUS
<1>2. after.depth = d /\ scan' = after
  BY <1>1 DEF Left, Gate!ScanLine
<1>3. /\ ~(Gate!AtTopLevel /\ mode.in = "file" /\ head.kind = "class")
      /\ ~(Gate!AtTopLevel /\ mode.in = "classBody" /\ head.kind \in {"member", "statement"})
  BY DEF AtPlace, InClass, Places
<1>4. (mode.in = "classBody" /\ after.depth < mode.depth) <=> (InClass(b) /\ d < 1)
  BY <1>2 DEF AtPlace
<1> QED
  BY <1>1, <1>2, <1>3, <1>4 DEF Gate!ScanLine

\* A class begins with the decorators that wait for it.
LEMMA ClassLines ==
  ASSUME GateTyped, AtPlace("file"), nest = NestOf("file"), NEW head, NEW marks, head.kind = "class",
         Gate!ScanLine(head, marks), Left(Gate!Scanned(scan, marks), 1, FALSE)
  PROVE  /\ Left(scan', 1, FALSE) /\ mode' = [in |-> "classBody", depth |-> 1] /\ pending' = {}
         /\ found' = Append(found, [marks |-> pending, routes |-> {}])
<1>1. PICK after : after = Gate!Scanned(scan, marks)
  OBVIOUS
<1>2. after.depth = 1 /\ scan' = after
  BY <1>1 DEF Left, Gate!ScanLine
<1>3. Gate!AtTopLevel /\ mode.in = "file"
  BY TopLevels, PlaceAround DEF AtPlace, InClass, Places
<1>4. ~(mode.in = "classBody" /\ after.depth < mode.depth)
  BY <1>3
<1> QED
  BY <1>1, <1>2, <1>3, <1>4 DEF Gate!ScanLine

\* A member of a class takes the decorators that wait for it.
LEMMA MemberLines ==
  ASSUME GateTyped, AtPlace("class"), nest = NestOf("class"), NEW head, NEW marks, head.kind = "member",
         NEW d \in {1, 2}, Gate!ScanLine(head, marks), Left(Gate!Scanned(scan, marks), d, FALSE)
  PROVE  /\ Left(scan', d, FALSE) /\ mode' = mode /\ pending' = {}
         /\ "Get" \notin pending => found' = found
         /\ "Get" \in pending =>
              found' = [found EXCEPT ![Len(found)].routes =
                          @ \union {[name |-> head.name, marks |-> pending]}]
<1>1. PICK after : after = Gate!Scanned(scan, marks)
  OBVIOUS
<1>2. after.depth = d /\ scan' = after
  BY <1>1 DEF Left, Gate!ScanLine
<1>3. Gate!AtTopLevel /\ mode.in = "classBody" /\ mode.depth = 1
  BY TopLevels, PlaceAround DEF AtPlace, InClass, Places
<1>4. ~(mode.in = "classBody" /\ after.depth < mode.depth)
  BY <1>2, <1>3
<1>5. pending \cap Gate!Verb # {} <=> "Get" \in pending
  BY DEF Gate!Verb
<1> QED
  BY <1>1, <1>2, <1>3, <1>4, <1>5 DEF Gate!ScanLine

\* A line that finds nothing keeps the routes fitting.
LEMMA GateKept ==
  ASSUME GateInv, verdict = "none", verdict' = verdict, allow' = allow,
         found' = found, written' = written, NEW d, NEW comment, Left(scan', d, comment),
         said' \subseteq Gate!Decorator, owner' \subseteq Gate!Decorator, pending' = said',
         NEW c \in Places, AtPlace(c)'
  PROVE  GateInv'
<1>1. GateTyped'
  BY DEF GateInv, GateTyped, Left
<1>2. RoutesFit'
  BY DEF GateInv, RoutesFit, RouteOf
<1>3. VerdictFits'
  BY DEF GateInv, VerdictFits
<1> QED
  BY <1>1, <1>2, <1>3 DEF GateInv

LEMMA DecoratorIsRead ==
  ASSUME GateInv, NEW d \in Gate!Decorator, NEW wide \in BOOLEAN, Gate!TypeDecorator(d, wide)
  PROVE  GateInv'
<1>1. PICK b \in Places : AtPlace(b)
  BY DEF GateInv
<1>2. b \in {"file", "class"} /\ nest = NestOf(b) /\ ~scan.inComment
  BY <1>1, PlaceAround DEF Gate!TypeDecorator
<1>3. GateTyped /\ verdict = "none" /\ verdict' = verdict /\ allow' = allow
  BY DEF GateInv, Gate!TypeDecorator, Gate!Line
<1>4. Gate!AtTopLevel /\ scan.depth \in Int /\ ~scan.inString
  BY <1>1, <1>2, <1>3, TopLevels
<1>5. PICK marks : marks = IF wide THEN <<"open", "open">> ELSE <<"open", "close">>
  OBVIOUS
<1>6. PICK n \in Int : n = IF wide THEN scan.depth + 2 ELSE scan.depth
  BY <1>4
<1>7. PICK head : head = Gate!Starts("decorator", d)
  OBVIOUS
<1>8. head.kind = "decorator" /\ head.name = d
  BY <1>7 DEF Gate!Starts
<1>9. Gate!ScanLine(head, marks)
  BY <1>5, <1>7 DEF Gate!TypeDecorator, Gate!Line
<1>10. Left(Gate!Scanned(scan, marks), n, FALSE)
  <2>1. scan \in Scan
    BY <1>3 DEF GateTyped
  <2> QED
    BY <1>2, <1>4, <1>5, <1>6, <2>1, ScannedLines
<1>11. /\ Left(scan', n, FALSE) /\ found' = found
       /\ mode' = mode /\ pending' = pending \union {d}
  <2>1. InClass(b) => ~(n < 1)
    BY <1>1, <1>2, <1>4, <1>6 DEF AtPlace, InClass, DepthOf
  <2> QED
    BY <1>1, <1>3, <1>4, <1>8, <1>9, <1>10, <2>1, QuietLines
<1>12. PICK c \in Places : c = IF wide THEN IF b = "file" THEN "fileArguments" ELSE "classArguments" ELSE b
  BY <1>2 DEF Places
<1>13. nest' = NestOf(c)
  BY <1>2, <1>12 DEF NestOf, Gate!TypeDecorator
<1>14. said' = said \union {d} /\ owner' = owner /\ written' = written
  BY DEF Gate!TypeDecorator
<1>15. AtPlace(c)'
  <2>1. DepthOf(c) = n
    BY <1>1, <1>2, <1>6, <1>12 DEF DepthOf, AtPlace
  <2>2. InClass(c) <=> InClass(b)
    BY <1>2, <1>12 DEF InClass
  <2>3. c # "body"
    BY <1>2, <1>12
  <2> QED
    BY <1>1, <1>11, <1>13, <1>14, <2>1, <2>2, <2>3 DEF AtPlace, Left
<1>16. said' \subseteq Gate!Decorator /\ owner' \subseteq Gate!Decorator /\ pending' = said'
  BY <1>3, <1>11, <1>14 DEF GateTyped
<1> QED
  BY <1>3, <1>11, <1>14, <1>15, <1>16, GateKept

LEMMA ClassIsRead == ASSUME GateInv, Gate!TypeClass PROVE GateInv'
<1>1. PICK b \in Places : AtPlace(b)
  BY DEF GateInv
<1>2. b = "file" /\ nest = NestOf("file") /\ ~scan.inComment
  BY <1>1, PlaceAround DEF Gate!TypeClass
<1>3. GateTyped /\ verdict = "none" /\ verdict' = verdict /\ allow' = allow
  BY DEF GateInv, Gate!TypeClass, Gate!Line
<1>4. scan.depth = 0 /\ ~scan.inString /\ scan \in Scan
  BY <1>1, <1>2, <1>3, TopLevels DEF AtPlace, DepthOf, GateTyped
<1>5. PICK head, marks : head = Gate!Starts("class", "Controller") /\ marks = <<"open">>
  OBVIOUS
<1>6. head.kind = "class" /\ Gate!ScanLine(head, marks)
  BY <1>5 DEF Gate!Starts, Gate!TypeClass, Gate!Line
<1>7. Left(Gate!Scanned(scan, marks), 1, FALSE)
  <2>1. Left(Gate!Scanned(scan, marks), scan.depth + 1, FALSE)
    BY <1>2, <1>4, <1>5, ScannedLines
  <2> QED
    BY <1>4, <2>1 DEF Left
<1>8. /\ Left(scan', 1, FALSE) /\ mode' = [in |-> "classBody", depth |-> 1] /\ pending' = {}
      /\ found' = Append(found, [marks |-> pending, routes |-> {}])
  BY <1>1, <1>2, <1>3, <1>6, <1>7, ClassLines
<1>9. PICK new : new = [marks |-> pending, routes |-> {}]
  OBVIOUS
<1>10. new \in FoundClass /\ new.marks = said /\ new.routes = {}
  BY <1>3, <1>9 DEF FoundClass, GateTyped
<1>11. found \in Seq(FoundClass) /\ found' = Append(found, new)
  BY <1>3, <1>8, <1>9 DEF GateTyped
<1>12. /\ found' \in Seq(FoundClass) /\ Len(found') = Len(found) + 1 /\ Len(found) \in Nat
       /\ found'[Len(found')] = new /\ \A i \in 1 .. Len(found) : found'[i] = found[i]
  BY <1>10, <1>11, Appended, LenProperties
<1>13. said' = {} /\ owner' = said /\ written' = written /\ nest' = Append(nest, "class")
  BY DEF Gate!TypeClass
<1>14. AtPlace("class")'
  <2>1. nest' = NestOf("class")
    BY <1>2, <1>13 DEF NestOf
  <2>2. DepthOf("class") = 1 /\ InClass("class")
    BY DEF DepthOf, InClass
  <2> QED
    BY <1>8, <1>10, <1>12, <1>13, <2>1, <2>2 DEF AtPlace, Left
<1>15. GateTyped'
  BY <1>3, <1>8, <1>12, <1>13 DEF GateTyped, Left
<1>16. RoutesFit'
  <2>1. ASSUME NEW w \in written'
        PROVE  \E k \in 1 .. Len(found') :
                 "Controller" \in found'[k].marks /\ \E r \in found'[k].routes : w = RouteOf(k, r)'
    <3>1. PICK k \in 1 .. Len(found) :
            "Controller" \in found[k].marks /\ \E r \in found[k].routes : w = RouteOf(k, r)
      BY <1>13, <2>1 DEF GateInv, RoutesFit
    <3>2. k \in 1 .. Len(found') /\ found'[k] = found[k]
      BY <1>12
    <3> QED
      BY <3>1, <3>2 DEF RouteOf
  <2>2. ASSUME NEW k \in 1 .. Len(found'), "Controller" \in found'[k].marks, NEW r \in found'[k].routes
        PROVE  RouteOf(k, r)' \in written'
    <3>1. k # Len(found')
      BY <1>10, <1>12, <2>2
    <3>2. k \in 1 .. Len(found) /\ found'[k] = found[k]
      BY <1>12, <3>1
    <3> QED
      BY <1>13, <2>2, <3>2 DEF RouteOf, GateInv, RoutesFit
  <2> QED
    BY <2>1, <2>2 DEF RoutesFit
<1>17. VerdictFits'
  BY <1>3 DEF VerdictFits
<1>18. "class" \in Places
  BY DEF Places
<1> QED
  BY <1>14, <1>15, <1>16, <1>17, <1>18 DEF GateInv

LEMMA MethodIsRead ==
  ASSUME GateInv, NEW m \in Gate!Method, NEW wide \in BOOLEAN, Gate!TypeMethod(m, wide)
  PROVE  GateInv'
<1>1. PICK b \in Places : AtPlace(b)
  BY DEF GateInv
<1>2. b = "class" /\ nest = NestOf("class") /\ ~scan.inComment
  BY <1>1, PlaceAround DEF Gate!TypeMethod
<1>3. GateTyped /\ verdict = "none" /\ verdict' = verdict /\ allow' = allow
  BY DEF GateInv, Gate!TypeMethod, Gate!Line
<1>4. scan.depth = 1 /\ ~scan.inString /\ scan \in Scan
  BY <1>1, <1>2, <1>3, TopLevels DEF AtPlace, DepthOf, GateTyped
<1>5. PICK head, marks :
        /\ head = Gate!Starts("member", m)
        /\ marks = IF wide THEN <<"open", "close", "open">> ELSE <<"open", "close", "open", "close">>
  OBVIOUS
<1>6. head.kind = "member" /\ head.name = m /\ Gate!ScanLine(head, marks)
  BY <1>5 DEF Gate!Starts, Gate!TypeMethod, Gate!Line
<1>7. PICK n \in {1, 2} : n = IF wide THEN 2 ELSE 1
  OBVIOUS
<1>8. Left(Gate!Scanned(scan, marks), n, FALSE)
  <2>1. CASE wide
    <3>1. Left(Gate!Scanned(scan, marks), scan.depth + 1, FALSE)
      BY <1>2, <1>4, <1>5, <2>1, ScannedLines
    <3> QED
      BY <1>4, <1>7, <2>1, <3>1 DEF Left
  <2>2. CASE ~wide
    <3>1. Left(Gate!Scanned(scan, marks), scan.depth, FALSE)
      BY <1>2, <1>4, <1>5, <2>2, ScannedLines
    <3> QED
      BY <1>4, <1>7, <2>2, <3>1
  <2> QED
    BY <2>1, <2>2
<1>9. /\ Left(scan', n, FALSE) /\ mode' = mode /\ pending' = {}
      /\ "Get" \notin pending => found' = found
      /\ "Get" \in pending =>
           found' = [found EXCEPT ![Len(found)].routes =
                       @ \union {[name |-> head.name, marks |-> pending]}]
  BY <1>1, <1>2, <1>3, <1>6, <1>8, MemberLines
<1>10. PICK c \in Places : c = IF wide THEN "body" ELSE "class"
  BY DEF Places
<1>11. nest' = NestOf(c) /\ said' = {} /\ owner' = owner
  BY <1>2, <1>10 DEF NestOf, Gate!TypeMethod
<1>12. /\ DepthOf(c) = n /\ InClass(c) /\ Len(found) # 0 /\ found[Len(found)].marks = owner
       /\ mode.in = "classBody" /\ mode.depth = 1
  BY <1>1, <1>2, <1>7, <1>10 DEF DepthOf, InClass, AtPlace
<1>13. CASE "Get" \notin pending
  <2>1. found' = found
    BY <1>9, <1>13
  <2>2. written' = written
    BY <1>3, <1>13 DEF GateTyped, Gate!TypeMethod
  <2>3. AtPlace(c)'
    BY <1>9, <1>11, <1>12, <2>1 DEF AtPlace, Left
  <2>4. said' \subseteq Gate!Decorator /\ owner' \subseteq Gate!Decorator /\ pending' = said'
    BY <1>3, <1>9, <1>11 DEF GateTyped
  <2> QED
    BY <1>3, <1>9, <2>1, <2>2, <2>3, <2>4, GateKept
<1>14. CASE "Get" \in pending
  <2>1. PICK last \in Nat : last = Len(found) /\ last # 0 /\ last \in 1 .. Len(found)
    <3>1. Len(found) \in Nat
      BY <1>3, LenProperties DEF GateTyped
    <3> QED
      BY <1>12, <3>1
  <2>2. PICK new : new = [name |-> m, marks |-> pending]
    OBVIOUS
  <2>3. new \in Route /\ new.name = m /\ new.marks = said
    BY <1>3, <2>2 DEF Route, GateTyped
  <2>4. PICK old : old = found[last]
    OBVIOUS
  <2>5. old \in FoundClass /\ old.marks = owner
    BY <1>3, <1>12, <2>1, <2>4, ElementOfSeq DEF GateTyped
  <2>6. PICK wider : wider = old.routes \union {new}
    OBVIOUS
  <2>7. PICK whole : whole = [old EXCEPT !.routes = wider]
    OBVIOUS
  <2>8. whole \in FoundClass /\ whole.marks = owner /\ whole.routes = old.routes \union {new}
    BY <2>3, <2>5, <2>6, <2>7 DEF FoundClass
  <2>9. found' = [found EXCEPT ![last] = whole]
    <3>1. found' = [found EXCEPT ![last].routes = @ \union {new}]
      BY <1>6, <1>9, <1>14, <2>1, <2>2
    <3>2. found' = [found EXCEPT ![last] = [found[last] EXCEPT !.routes = found[last].routes \union {new}]]
      BY <3>1
    <3> QED
      BY <2>4, <2>6, <2>7, <3>2
  <2>10. /\ found' \in Seq(FoundClass) /\ Len(found') = last /\ found'[last] = whole
         /\ \A i \in 1 .. Len(found) : i # last => found'[i] = found[i]
    BY <1>3, <2>1, <2>8, <2>9, ExceptSeq DEF GateTyped
  <2>11. AtPlace(c)'
    BY <1>9, <1>11, <1>12, <2>1, <2>8, <2>10 DEF AtPlace, Left
  <2>12. GateTyped'
    BY <1>3, <1>9, <1>11, <2>10 DEF GateTyped, Left
  <2>13. PICK route : route = [name |-> m, marks |-> said \union owner]
    OBVIOUS
  <2>14. written' = IF "Controller" \in owner THEN written \union {route} ELSE written
    BY <1>3, <1>14, <2>13 DEF GateTyped, Gate!TypeMethod
  <2>15. RouteOf(last, new)' = route
    BY <2>3, <2>8, <2>10, <2>13 DEF RouteOf
  <2>16. \A k \in 1 .. Len(found') : found'[k].marks = found[k].marks
    BY <2>1, <2>4, <2>5, <2>8, <2>10
  <2>17. \A k \in 1 .. Len(found') : \A r : RouteOf(k, r)' = RouteOf(k, r)
    BY <2>16 DEF RouteOf
  <2>18. ASSUME NEW w \in written'
         PROVE  \E k \in 1 .. Len(found') :
                  "Controller" \in found'[k].marks /\ \E r \in found'[k].routes : w = RouteOf(k, r)'
    <3>1. CASE w \in written
      <4>1. PICK k \in 1 .. Len(found) :
              "Controller" \in found[k].marks /\ \E r \in found[k].routes : w = RouteOf(k, r)
        BY <3>1 DEF GateInv, RoutesFit
      <4>2. k \in 1 .. Len(found') /\ \A r \in found[k].routes : r \in found'[k].routes
        BY <2>1, <2>4, <2>8, <2>10
      <4> QED
        BY <2>16, <2>17, <4>1, <4>2
    <3>2. CASE w \notin written
      <4>1. "Controller" \in owner /\ w = route
        BY <2>14, <2>18, <3>2
      <4>2. last \in 1 .. Len(found') /\ new \in found'[last].routes /\ found'[last].marks = owner
        BY <2>1, <2>8, <2>10
      <4> QED
        BY <2>15, <4>1, <4>2
    <3> QED
      BY <3>1, <3>2
  <2>19. ASSUME NEW k \in 1 .. Len(found'), "Controller" \in found'[k].marks,
                NEW r \in found'[k].routes
         PROVE  RouteOf(k, r)' \in written'
    <3>1. "Controller" \in found[k].marks /\ k \in 1 .. Len(found)
      BY <2>1, <2>10, <2>16, <2>19
    <3>2. CASE r \in found[k].routes
      BY <2>14, <2>17, <3>1, <3>2 DEF GateInv, RoutesFit
    <3>3. CASE r \notin found[k].routes
      <4>1. k = last /\ r = new
        BY <2>4, <2>8, <2>10, <2>19, <3>1, <3>3
      <4> QED
        BY <2>4, <2>5, <2>14, <2>15, <3>1, <4>1
    <3> QED
      BY <3>2, <3>3
  <2>20. RoutesFit'
    BY <2>18, <2>19 DEF RoutesFit
  <2>21. VerdictFits'
    BY <1>3 DEF VerdictFits
  <2> QED
    BY <2>11, <2>12, <2>20, <2>21 DEF GateInv
<1> QED
  BY <1>13, <1>14

LEMMA FieldIsRead == ASSUME GateInv, Gate!TypeField PROVE GateInv'
<1>1. PICK b \in Places : AtPlace(b)
  BY DEF GateInv
<1>2. b = "class" /\ nest = NestOf("class") /\ ~scan.inComment
  BY <1>1, PlaceAround DEF Gate!TypeField
<1>3. GateTyped /\ verdict = "none" /\ verdict' = verdict /\ allow' = allow /\ said = {}
  BY DEF GateInv, Gate!TypeField, Gate!Line
<1>4. scan.depth = 1 /\ ~scan.inString /\ scan \in Scan /\ "Get" \notin pending
  BY <1>1, <1>2, <1>3, TopLevels DEF AtPlace, DepthOf, GateTyped
<1>5. PICK head, marks : head = Gate!Starts("member", "field") /\ marks = <<>>
  OBVIOUS
<1>6. head.kind = "member" /\ Gate!ScanLine(head, marks)
  BY <1>5 DEF Gate!Starts, Gate!TypeField, Gate!Line
<1>7. Left(Gate!Scanned(scan, marks), 1, FALSE)
  <2>1. Left(Gate!Scanned(scan, marks), scan.depth, FALSE)
    BY <1>2, <1>4, <1>5, ScannedLines
  <2> QED
    BY <1>4, <2>1
<1>8. Left(scan', 1, FALSE) /\ mode' = mode /\ pending' = {} /\ found' = found
  BY <1>1, <1>2, <1>3, <1>4, <1>6, <1>7, MemberLines
<1>9. nest' = nest /\ said' = said /\ owner' = owner /\ written' = written
  BY DEF Gate!TypeField
<1>10. AtPlace(b)'
  BY <1>1, <1>2, <1>4, <1>8, <1>9 DEF AtPlace, Left
<1>11. said' \subseteq Gate!Decorator /\ owner' \subseteq Gate!Decorator /\ pending' = said'
  BY <1>3, <1>8, <1>9 DEF GateTyped
<1> QED
  BY <1>3, <1>8, <1>9, <1>10, <1>11, GateKept

LEMMA StatementIsRead == ASSUME GateInv, Gate!TypeStatement PROVE GateInv'
<1>1. PICK b \in Places : AtPlace(b)
  BY DEF GateInv
<1>2. b \in {"file", "body", "fileArguments", "classArguments"} /\ nest = NestOf(b) /\ ~scan.inComment
  BY <1>1, PlaceAround DEF Gate!TypeStatement
<1>3. GateTyped
  BY DEF GateInv
<1>4. /\ scan \in Scan /\ scan.depth \in Int /\ ~scan.inString
      /\ Gate!AtTopLevel <=> b = "file"
  BY <1>1, <1>2, <1>3, TopLevels DEF GateTyped
<1>5. PICK head : head = Gate!Starts("statement", "statement")
  OBVIOUS
<1>6. PICK marks \in {<<"quote", "open", "quote">>, <<"open", "close">>} :
        Gate!Line(head, marks, 1)
  BY <1>5 DEF Gate!TypeStatement
<1>7. /\ head.kind = "statement" /\ Gate!ScanLine(head, marks)
      /\ verdict = "none" /\ verdict' = verdict /\ allow' = allow
  BY <1>5, <1>6 DEF Gate!Starts, Gate!Line
<1>8. Left(Gate!Scanned(scan, marks), scan.depth, FALSE)
  BY <1>2, <1>4, <1>6, ScannedLines
<1>9. InClass(b) => ~(scan.depth < 1)
  BY <1>1, <1>2 DEF AtPlace, InClass, DepthOf
<1>10. /\ Left(scan', scan.depth, FALSE) /\ found' = found /\ mode' = mode
       /\ b # "file" => pending' = pending
       /\ b = "file" => pending' = {}
  BY <1>1, <1>3, <1>4, <1>7, <1>8, <1>9, QuietLines
<1>11. nest' = nest /\ said' = said /\ owner' = owner /\ written' = written
  BY DEF Gate!TypeStatement
<1>12. b = "file" => said = {}
  BY <1>2, AroundPlaces DEF Gate!TypeStatement
<1>13. AtPlace(b)'
  BY <1>1, <1>2, <1>10, <1>11 DEF AtPlace, Left
<1>14. said' \subseteq Gate!Decorator /\ owner' \subseteq Gate!Decorator /\ pending' = said'
  BY <1>3, <1>10, <1>11, <1>12 DEF GateTyped
<1> QED
  BY <1>7, <1>10, <1>11, <1>13, <1>14, GateKept

LEMMA CloseIsRead == ASSUME GateInv, Gate!TypeClose PROVE GateInv'
<1>1. PICK b \in Places : AtPlace(b)
  BY DEF GateInv
<1>2. b \in {"class", "body", "fileArguments", "classArguments"} /\ nest = NestOf(b) /\ ~scan.inComment
  BY <1>1, PlaceAround DEF Gate!TypeClose
<1>3. GateTyped /\ verdict = "none" /\ verdict' = verdict /\ allow' = allow
  BY DEF GateInv, Gate!TypeClose, Gate!Line
<1>4. /\ scan \in Scan /\ scan.depth = DepthOf(b) /\ ~scan.inString
      /\ Gate!AtTopLevel <=> b = "class"
  BY <1>1, <1>2, <1>3, TopLevels DEF GateTyped, AtPlace
<1>5. Gate!Around = "arguments" <=> b \in {"fileArguments", "classArguments"}
  BY <1>2, AroundPlaces
<1>6. Gate!Around = "class" <=> b = "class"
  BY <1>2, AroundPlaces
<1>7. PICK head, marks :
        /\ head = Gate!Starts("close", "close")
        /\ marks = IF Gate!Around = "arguments" THEN <<"close", "close">> ELSE <<"close">>
  OBVIOUS
<1>8. head.kind = "close" /\ Gate!ScanLine(head, marks)
  BY <1>7 DEF Gate!Starts, Gate!TypeClose, Gate!Line
<1>9. PICK c \in Places : c = IF b \in {"class", "fileArguments"} THEN "file" ELSE "class"
  BY DEF Places
<1>10. Left(Gate!Scanned(scan, marks), DepthOf(c), FALSE)
  <2>1. CASE b \in {"fileArguments", "classArguments"}
    <3>1. Left(Gate!Scanned(scan, marks), scan.depth - 2, FALSE)
      <4>1. marks = <<"close", "close">>
        BY <1>5, <1>7, <2>1
      <4> QED
        BY <1>2, <1>4, <4>1, ScannedLines
    <3>2. scan.depth - 2 = DepthOf(c)
      BY <1>4, <1>9, <2>1 DEF DepthOf
    <3> QED
      BY <3>1, <3>2
  <2>2. CASE b \in {"class", "body"}
    <3>1. Left(Gate!Scanned(scan, marks), scan.depth - 1, FALSE)
      <4>1. marks = <<"close">>
        BY <1>5, <1>7, <2>2
      <4> QED
        BY <1>2, <1>4, <4>1, ScannedLines
    <3>2. scan.depth - 1 = DepthOf(c)
      BY <1>4, <1>9, <2>2 DEF DepthOf
    <3> QED
      BY <3>1, <3>2
  <2> QED
    BY <1>2, <2>1, <2>2
<1>11. /\ DepthOf(c) \in Int
       /\ InClass(b) /\ DepthOf(c) < 1 <=> b = "class"
  BY <1>2, <1>9 DEF DepthOf, InClass
<1>12. /\ Left(scan', DepthOf(c), FALSE) /\ found' = found
       /\ b = "class" => mode' = [in |-> "file", depth |-> 0] /\ pending' = {}
       /\ b # "class" => mode' = mode /\ pending' = pending
  BY <1>1, <1>3, <1>4, <1>8, <1>10, <1>11, QuietLines
<1>13. /\ nest' = Gate!Within /\ said' = said /\ written' = written
       /\ owner' = (IF b = "class" THEN {} ELSE owner) /\ (b = "class" => said = {})
  BY <1>6 DEF Gate!TypeClose
<1>14. nest' = NestOf(c)
  BY <1>2, <1>9, <1>13, AroundPlaces
<1>15. AtPlace(c)'
  <2>1. CASE b = "class"
    BY <1>9, <1>12, <1>14, <2>1 DEF AtPlace, Left, InClass
  <2>2. CASE b # "class"
    <3>1. (InClass(c) <=> InClass(b)) /\ c # "body"
      BY <1>2, <1>9, <2>2 DEF InClass
    <3> QED
      BY <1>1, <1>12, <1>13, <1>14, <2>2, <3>1 DEF AtPlace, Left
  <2> QED
    BY <2>1, <2>2
<1>16. said' \subseteq Gate!Decorator /\ owner' \subseteq Gate!Decorator /\ pending' = said'
  BY <1>3, <1>12, <1>13 DEF GateTyped
<1> QED
  BY <1>3, <1>12, <1>13, <1>15, <1>16, GateKept

LEMMA CommentIsRead == ASSUME GateInv, Gate!TypeComment PROVE GateInv'
<1>1. PICK b \in Places : AtPlace(b)
  BY DEF GateInv
<1>2. GateTyped /\ scan \in Scan /\ ~scan.inString /\ scan.depth \in Int
  BY <1>1, TopLevels DEF GateInv, GateTyped
<1>3. PICK head : head = Gate!Starts("blank", "blank")
  OBVIOUS
<1>4. head.kind = "blank"
  BY <1>3 DEF Gate!Starts
<1>5. nest = NestOf(b) <=> Gate!Around # "comment"
  BY <1>1, PlaceAround DEF AtPlace
<1>6. said' = said /\ owner' = owner /\ written' = written
  BY DEF Gate!TypeComment
<1>7. \E marks, comment :
        /\ Gate!Line(head, marks, 0) \/ Gate!Line(head, marks, 1)
        /\ Left(Gate!Scanned(scan, marks), scan.depth, comment)
        /\ \/ nest' = NestOf(b) /\ comment = FALSE
           \/ nest' = Append(NestOf(b), "comment") /\ comment = TRUE
  <2>1. CASE Gate!Around = "comment"
    <3>1. nest = Append(NestOf(b), "comment") /\ scan.inComment
      BY <1>1, <1>5, <2>1, PlaceAround
    <3>2. nest' = NestOf(b)
      BY <2>1, <3>1, AroundComments DEF Gate!TypeComment
    <3>3. PICK marks : marks = <<"close", "commentClose">>
      OBVIOUS
    <3>4. Gate!Line(head, marks, 0)
      BY <1>3, <2>1, <3>3 DEF Gate!TypeComment
    <3>5. Left(Gate!Scanned(scan, marks), scan.depth, FALSE)
      BY <1>2, <3>1, <3>3, ScannedLines
    <3> QED
      BY <3>2, <3>4, <3>5
  <2>2. CASE Gate!Around # "comment" /\ nest' = nest
                /\ Gate!Line(Gate!Starts("blank", "blank"), <<"lineComment", "open", "commentOpen">>, 1)
    <3>1. nest = NestOf(b) /\ ~scan.inComment
      BY <1>1, <1>5, <2>2, PlaceAround
    <3>2. PICK marks : marks = <<"lineComment", "open", "commentOpen">>
      OBVIOUS
    <3>3. Gate!Line(head, marks, 1)
      BY <1>3, <2>2, <3>2
    <3>4. Left(Gate!Scanned(scan, marks), scan.depth, FALSE)
      BY <1>2, <3>1, <3>2, ScannedLines
    <3> QED
      BY <2>2, <3>1, <3>3, <3>4
  <2>3. CASE Gate!Around # "comment" /\ nest' = Append(nest, "comment")
                /\ Gate!Line(Gate!Starts("blank", "blank"), <<"commentOpen", "quote">>, 1)
    <3>1. nest = NestOf(b) /\ ~scan.inComment
      BY <1>1, <1>5, <2>3, PlaceAround
    <3>2. PICK marks : marks = <<"commentOpen", "quote">>
      OBVIOUS
    <3>3. Gate!Line(head, marks, 1)
      BY <1>3, <2>3, <3>2
    <3>4. Left(Gate!Scanned(scan, marks), scan.depth, TRUE)
      BY <1>2, <3>1, <3>2, ScannedLines
    <3> QED
      BY <2>3, <3>1, <3>3, <3>4
  <2> QED
    BY <2>1, <2>2, <2>3 DEF Gate!TypeComment
<1>8. PICK marks, comment :
        /\ Gate!Line(head, marks, 0) \/ Gate!Line(head, marks, 1)
        /\ Left(Gate!Scanned(scan, marks), scan.depth, comment)
        /\ \/ nest' = NestOf(b) /\ comment = FALSE
           \/ nest' = Append(NestOf(b), "comment") /\ comment = TRUE
  BY <1>7
<1>9. Gate!ScanLine(head, marks) /\ verdict = "none" /\ verdict' = verdict /\ allow' = allow
  BY <1>8 DEF Gate!Line
<1>10. InClass(b) => ~(scan.depth < 1)
  BY <1>1 DEF AtPlace, InClass, DepthOf
<1>11. Left(scan', scan.depth, comment) /\ found' = found /\ mode' = mode /\ pending' = pending
  BY <1>1, <1>2, <1>4, <1>8, <1>9, <1>10, QuietLines
<1>12. AtPlace(b)'
  BY <1>1, <1>6, <1>8, <1>11 DEF AtPlace, Left
<1>13. said' \subseteq Gate!Decorator /\ owner' \subseteq Gate!Decorator /\ pending' = said'
  BY <1>2, <1>6, <1>11 DEF GateTyped
<1> QED
  BY <1>6, <1>9, <1>11, <1>12, <1>13, GateKept

\* The verdict is what the routes found and the allow list say.
LEMMA FileIsJudged == ASSUME GateInv, Gate!Judge PROVE GateInv'
<1>1. UNCHANGED <<allow, nest, said, owner, written, lines, odd, scan, mode, pending, found>>
  BY DEF Gate!Judge, Gate!text, Gate!script
<1>2. PICK b \in Places : AtPlace(b)
  BY DEF GateInv
<1>3. b = "file" /\ ~scan.inComment /\ scan.depth = 0 /\ ~scan.inString
  BY <1>2, PlaceAround, TopLevels DEF Gate!Judge, AtPlace, DepthOf, GateInv
<1>4. verdict' = IF Gate!Real = {} THEN "error" ELSE IF Gate!Passes THEN "PASS" ELSE "FAIL"
  BY <1>3 DEF Gate!Judge
<1>5. GateTyped'
  BY <1>1, <1>4 DEF GateInv, GateTyped
<1>6. (\E q \in Places : AtPlace(q)) => \E q \in Places : AtPlace(q)'
  BY <1>1 DEF AtPlace
<1>7. RoutesFit'
  BY <1>1 DEF GateInv, RoutesFit, RouteOf
<1>8. Gate!Real' = Gate!Real
  BY <1>1 DEF Gate!Real
<1>9. Gate!Passes' <=> Gate!Passes
  BY <1>1, <1>8 DEF Gate!Passes, Gate!Ok, Gate!Unused, Gate!Meaningful, Gate!Gate
<1>10. VerdictFits'
  BY <1>4, <1>8, <1>9 DEF VerdictFits
<1> QED
  BY <1>5, <1>6, <1>7, <1>10 DEF GateInv

LEMMA GateStays == ASSUME GateInv, UNCHANGED gateVars PROVE GateInv'
<1>1. UNCHANGED <<allow, nest, said, owner, written, lines, odd, scan, mode, pending, found, verdict>>
  BY DEF gateVars
<1>2. GateTyped' /\ RoutesFit'
  BY <1>1 DEF GateInv, GateTyped, RoutesFit, RouteOf
<1>3. \E q \in Places : AtPlace(q)'
  BY <1>1 DEF GateInv, AtPlace
<1>4. Gate!Real' = Gate!Real
  BY <1>1 DEF Gate!Real
<1>5. Gate!Passes' <=> Gate!Passes
  BY <1>1, <1>4 DEF Gate!Passes, Gate!Ok, Gate!Unused, Gate!Meaningful, Gate!Gate
<1>6. VerdictFits'
  BY <1>1, <1>4, <1>5 DEF GateInv, VerdictFits
<1> QED
  BY <1>2, <1>3, <1>6 DEF GateInv

LEMMA GateSteps == ASSUME GateInv, Gate!RoleGateNext \/ UNCHANGED gateVars PROVE GateInv'
BY DecoratorIsRead, ClassIsRead, MethodIsRead, FieldIsRead, StatementIsRead, CloseIsRead,
   CommentIsRead, FileIsJudged, GateStays DEF Gate!RoleGateNext

LEMMA GateBegins == ASSUME Gate!RoleGateInit PROVE GateInv
<1>1. GateTyped
  <2>1. scan \in Scan /\ ~scan.inString
    BY DEF Gate!RoleGateInit, Scan
  <2>2. allow \subseteq Gate!Entry
    BY DEF Gate!RoleGateInit
  <2>3. found = <<>> /\ said = {} /\ owner = {} /\ pending = {} /\ verdict = "none"
    BY DEF Gate!RoleGateInit
  <2> QED
    BY <2>1, <2>2, <2>3 DEF GateTyped
<1>2. "file" \in Places /\ AtPlace("file")
  BY DEF Gate!RoleGateInit, AtPlace, Places, NestOf, DepthOf, InClass
<1>3. RoutesFit
  <2>1. written = {} /\ Len(found) = 0
    BY DEF Gate!RoleGateInit
  <2> QED
    BY <2>1 DEF RoutesFit
<1>4. VerdictFits
  BY DEF VerdictFits, Gate!RoleGateInit
<1> QED
  BY <1>1, <1>2, <1>3, <1>4 DEF GateInv

\* An entry is its three fields.
LEMMA EntriesAreWhole ==
  ASSUME NEW e \in Gate!Entry
  PROVE  e = [file |-> e.file, method |-> e.method, reason |-> e.reason]
<1>1. CASE e \in {[file |-> "this", method |-> "me", reason |-> r] : r \in Gate!Reason}
  <2>1. PICK r \in Gate!Reason : e = [file |-> "this", method |-> "me", reason |-> r]
    BY <1>1
  <2> QED
    BY <2>1
<1>2. CASE e = [file |-> "gone", method |-> "me", reason |-> [chars |-> 12, kinds |-> 5]]
  BY <1>2
<1> QED
  BY <1>1, <1>2 DEF Gate!Entry

\* A route is in order when the script says so.
LEMMA OrdersFit ==
  ASSUME GateInv, NEW k \in 1 .. Len(found), NEW r \in found[k].routes
  PROVE  Gate!InOrder(RouteOf(k, r)) <=> Gate!Ok(r, found[k])
<1>1. PICK w : w = RouteOf(k, r)
  OBVIOUS
<1>2. w.name = r.name /\ w.marks = r.marks \union found[k].marks
  BY <1>1 DEF RouteOf
<1>3. \A e \in allow : e = [file |-> e.file, method |-> e.method, reason |-> e.reason]
  BY EntriesAreWhole DEF GateInv, GateTyped
<1>4. ASSUME NEW e \in allow
      PROVE  e = [file |-> "this", method |-> w.name, reason |-> e.reason]
               <=> e.file = "this" /\ e.method = r.name
  BY <1>2, <1>3
<1>5. w.marks \cap {"Roles"} # {} <=> (r.marks \union found[k].marks) \cap Gate!Gate # {}
  BY <1>2 DEF Gate!Gate
<1>6. Gate!InOrder(w) <=> Gate!Ok(r, found[k])
  BY <1>4, <1>5 DEF Gate!InOrder, Gate!Ok, Gate!Meaningful
<1> QED
  BY <1>1, <1>6

\* What passes is what is in order.
LEMMA PassesIsOrder ==
  ASSUME GateInv
  PROVE  Gate!Passes <=> /\ \A w \in written : Gate!InOrder(w)
                         /\ \A e \in allow : e.file = "this" /\ \E w \in written : w.name = e.method
<1>1. (\A c \in Gate!Real : \A r \in c.routes : Gate!Ok(r, c)) <=> \A w \in written : Gate!InOrder(w)
  <2>1. ASSUME \A c \in Gate!Real : \A r \in c.routes : Gate!Ok(r, c), NEW w \in written
        PROVE  Gate!InOrder(w)
    <3>1. PICK k \in 1 .. Len(found) :
            "Controller" \in found[k].marks /\ \E r \in found[k].routes : w = RouteOf(k, r)
      BY DEF GateInv, RoutesFit
    <3>2. PICK r \in found[k].routes : w = RouteOf(k, r)
      BY <3>1
    <3>3. found[k] \in Gate!Real
      BY <3>1 DEF Gate!Real
    <3> QED
      BY <2>1, <3>2, <3>3, OrdersFit
  <2>2. ASSUME \A w \in written : Gate!InOrder(w), NEW c \in Gate!Real, NEW r \in c.routes
        PROVE  Gate!Ok(r, c)
    <3>1. PICK k \in 1 .. Len(found) : c = found[k] /\ "Controller" \in found[k].marks
      BY DEF Gate!Real
    <3>2. RouteOf(k, r) \in written
      BY <3>1 DEF GateInv, RoutesFit
    <3> QED
      BY <2>2, <3>1, <3>2, OrdersFit
  <2> QED
    BY <2>1, <2>2
<1>2. PICK names : names = {r.name : r \in UNION {c.routes : c \in Gate!Real}}
  OBVIOUS
<1>3. \A n : n \in names <=> \E w \in written : w.name = n
  <2>1. ASSUME NEW w \in written PROVE w.name \in names
    <3>1. PICK k \in 1 .. Len(found) :
            "Controller" \in found[k].marks /\ \E r \in found[k].routes : w = RouteOf(k, r)
      BY DEF GateInv, RoutesFit
    <3>2. PICK r \in found[k].routes : w = RouteOf(k, r)
      BY <3>1
    <3>3. found[k] \in Gate!Real
      BY <3>1 DEF Gate!Real
    <3>4. r \in UNION {c.routes : c \in Gate!Real} /\ w.name = r.name
      BY <3>2, <3>3 DEF RouteOf
    <3> QED
      BY <1>2, <3>4
  <2>2. ASSUME NEW n \in names PROVE \E w \in written : w.name = n
    <3>1. PICK r \in UNION {c.routes : c \in Gate!Real} : n = r.name
      BY <1>2
    <3>2. PICK c \in Gate!Real : r \in c.routes
      BY <3>1
    <3>3. PICK k \in 1 .. Len(found) : c = found[k] /\ "Controller" \in found[k].marks
      BY DEF Gate!Real
    <3>4. RouteOf(k, r) \in written /\ RouteOf(k, r).name = n
      BY <3>1, <3>2, <3>3 DEF GateInv, RoutesFit, RouteOf
    <3> QED
      BY <3>4
  <2> QED
    BY <2>1, <2>2
<1>4. Gate!Unused(names) = {}
        <=> \A e \in allow : e.file = "this" /\ \E w \in written : w.name = e.method
  BY <1>3 DEF Gate!Unused
<1> QED
  BY <1>1, <1>2, <1>4 DEF Gate!Passes

LEMMA GateHolds ==
  ASSUME GateInv
  PROVE  Gate!RoleGateTypeOK /\ Gate!PassMeansGated /\ Gate!PassMeansNoRot /\ Gate!FailHasCause
<1>0. GateTyped /\ VerdictFits
  BY DEF GateInv
<1>1. PICK b \in Places : AtPlace(b)
  BY DEF GateInv
<1>2. scan.depth \in Nat /\ mode.in \in {"file", "classBody"}
  BY <1>1 DEF AtPlace, DepthOf, Places
<1>3. Gate!RoleGateTypeOK
  BY <1>0, <1>2 DEF GateTyped, Gate!RoleGateTypeOK
<1>4. Gate!PassMeansGated
  BY <1>0, PassesIsOrder DEF VerdictFits, Gate!PassMeansGated
<1>5. Gate!PassMeansNoRot
  BY <1>0, PassesIsOrder DEF VerdictFits, Gate!PassMeansNoRot
<1>6. Gate!FailHasCause
  <2>1. verdict = "error" => ~ \E k \in 1 .. Len(found) : "Controller" \in found[k].marks
    BY <1>0 DEF VerdictFits, Gate!Real
  <2>2. verdict = "FAIL" =>
          \/ \E w \in written : ~ Gate!InOrder(w)
          \/ \E e \in allow : e.file # "this" \/ ~ \E w \in written : w.name = e.method
    BY <1>0, PassesIsOrder DEF VerdictFits
  <2> QED
    BY <2>1, <2>2 DEF Gate!FailHasCause
<1> QED
  BY <1>3, <1>4, <1>5, <1>6

-------------------------------------------------------------------------------
(* The media-worker's jobs *)

JobState == {"absent", "waiting", "active", "completed", "failed"}
RunStep == {"idle", "download", "encode", "measure", "upload", "report"}
Content == [take : Nat, of : Worker!Key \union {"none"}, whole : BOOLEAN]
Sums == [Worker!Key -> Content]
Entered ==
  [state : JobState, made : 0 .. Attempts, stalls : 0 .. 1, take : Nat, result : Sums]
RunWork ==
  [job : Worker!Job \union {"none"}, take : Nat, step : RunStep, n : {1, 2},
   proc : {"none", "running", "hung"}, timer : 0 .. Timeout, whole : SUBSET Worker!Key, sums : Sums]

JobsTyped ==
  /\ process \in {"up", "closing", "down"} /\ killed \in BOOLEAN
  /\ queue \in [Worker!Job -> Entered] /\ run \in [Slot -> RunWork] /\ objects \in Sums
  /\ takes \in Nat /\ disk \subseteq 1 .. takes

\* The output of a job, whole, as a run encoded it.
Done(take, k) == [take |-> take, of |-> k, whole |-> TRUE]

\* How far a run is with its i-th output.
Measured(r, i) ==
  r.step \in {"upload", "report"} \/ (r.step \in {"encode", "measure"} /\ i < r.n)
Wholly(r, i) == Measured(r, i) \/ (r.step = "measure" /\ i = r.n)
Stored(r, i) == r.step = "report" \/ (r.step = "upload" /\ i < r.n)

\* Another run may have written where a job's output is.
Disturbed(j, k) ==
  \/ j = "transcode" /\ queue["auto_edit"].state # "absent"
  \/ \E w \in Worker!Job :
       queue[w].stalls > 0 /\ \E m \in 1 .. Len(Worker!Outputs(w)) : Worker!Outputs(w)[m] = k

OutputFits(r, i, k) ==
  /\ Wholly(r, i) => k \in r.whole
  /\ Measured(r, i) => r.sums[k] = Done(r.take, k)
  /\ Stored(r, i) =>
       objects[k] # Worker!Nothing /\ (Disturbed(r.job, k) \/ objects[k] = Done(r.take, k))

\* A run that works holds its job, or the job has stalled; its outputs are as far as it is.
RunFits(r) ==
  /\ r.step = "idle" => r.take = 0
  /\ r.proc # "none" <=> r.step = "encode"
  /\ r.proc = "running" => r.timer > 0
  /\ r.step # "idle" =>
       /\ r.job \in Worker!Job /\ r.take \in 1 .. takes /\ r.n \in 1 .. Len(Worker!Outputs(r.job))
       /\ r.step = "download" => r.n = 1
       /\ queue[r.job].state # "absent"
       /\ Worker!Holds(r) \/ queue[r.job].stalls > 0
       /\ \A i \in 1 .. Len(Worker!Outputs(r.job)) : OutputFits(r, i, Worker!Outputs(r.job)[i])

Alone ==
  \A s \in Slot : \A t \in Slot :
    run[s].step # "idle" /\ run[t].step # "idle" /\ run[s].take = run[t].take => s = t

\* An active job has its run, unless the worker was killed; a completed one its outputs.
JobFits(j) ==
  /\ queue[j].state \in {"absent", "waiting", "active"} => queue[j].made < Attempts
  /\ queue[j].state = "active" /\ ~killed =>
       \E s \in Slot : run[s].step # "idle" /\ run[s].job = j /\ run[s].take = queue[j].take
  /\ queue[j].state = "completed" =>
       \A i \in 1 .. Len(Worker!Outputs(j)) :
         LET k == Worker!Outputs(j)[i] IN
           objects[k] # Worker!Nothing /\ (Disturbed(j, k) \/ objects[k] = queue[j].result[k])

QueueFits ==
  /\ \A j \in Worker!Job : JobFits(j)
  /\ queue["auto_edit"].state # "absent" => queue["transcode"].state = "completed"

ObjectsFit == \A k \in Worker!Key : objects[k] # Worker!Nothing => objects[k].whole

DiskFits ==
  /\ ~killed => disk = {run[s].take : s \in Slot} \ {0}
  /\ process = "down" => \A s \in Slot : run[s].step = "idle"

JobsInv ==
  /\ JobsTyped /\ Alone /\ QueueFits /\ ObjectsFit /\ DiskFits
  /\ \A s \in Slot : RunFits(run[s])

\* The outputs of the four jobs; two of them write the rendition.
LEMMA OutputsAre ==
  /\ \A j \in Worker!Job :
       /\ Len(Worker!Outputs(j)) \in {1, 2}
       /\ \A i \in 1 .. Len(Worker!Outputs(j)) : Worker!Outputs(j)[i] \in Worker!Key
       /\ \A i \in 1 .. Len(Worker!Outputs(j)) : \A m \in 1 .. Len(Worker!Outputs(j)) :
            Worker!Outputs(j)[i] = Worker!Outputs(j)[m] => i = m
  /\ \A j \in Worker!Job : \A w \in Worker!Job :
       \A i \in 1 .. Len(Worker!Outputs(j)) : \A m \in 1 .. Len(Worker!Outputs(w)) :
         Worker!Outputs(j)[i] = Worker!Outputs(w)[m] =>
           j = w \/ (j = "transcode" /\ w = "auto_edit") \/ (j = "auto_edit" /\ w = "transcode")
<1>1. /\ Len(Worker!Outputs("transcode")) = 1 /\ Worker!Outputs("transcode")[1] = "rendition"
      /\ Len(Worker!Outputs("thumbnail")) = 1 /\ Worker!Outputs("thumbnail")[1] = "thumbnail"
      /\ Len(Worker!Outputs("auto_edit")) = 2 /\ Worker!Outputs("auto_edit")[1] = "master"
      /\ Worker!Outputs("auto_edit")[2] = "rendition"
      /\ Len(Worker!Outputs("preview")) = 1 /\ Worker!Outputs("preview")[1] = "preview"
  BY DEF Worker!Outputs, Worker!Transcode, Worker!Thumbnail, Worker!AutoEdit, Worker!Preview
<1>2. ASSUME NEW j \in Worker!Job
      PROVE  /\ j = "auto_edit" => Len(Worker!Outputs(j)) = 2
             /\ j # "auto_edit" => Len(Worker!Outputs(j)) = 1
  BY <1>1 DEF Worker!Job
<1>3. ASSUME NEW j \in Worker!Job, NEW i \in 1 .. Len(Worker!Outputs(j))
      PROVE  /\ j = "auto_edit" => i \in {1, 2}
             /\ j # "auto_edit" => i = 1
             /\ j = "thumbnail" => Worker!Outputs(j)[i] = "thumbnail"
             /\ j = "preview" => Worker!Outputs(j)[i] = "preview"
             /\ j = "transcode" => Worker!Outputs(j)[i] = "rendition"
             /\ j = "auto_edit" /\ i = 1 => Worker!Outputs(j)[i] = "master"
             /\ j = "auto_edit" /\ i = 2 => Worker!Outputs(j)[i] = "rendition"
  <2>0. PICK n : n = Len(Worker!Outputs(j))
    OBVIOUS
  <2>1. CASE j = "auto_edit"
    <3>1. n = 2
      BY <1>2, <2>0, <2>1
    <3>2. i \in {1, 2}
      BY <2>0, <3>1
    <3> QED
      BY <1>1, <2>1, <3>2
  <2>2. CASE j # "auto_edit"
    <3>1. n = 1
      BY <1>2, <2>0, <2>2
    <3>2. i = 1
      BY <2>0, <3>1
    <3> QED
      BY <1>1, <2>2, <3>2 DEF Worker!Job
  <2> QED
    BY <2>1, <2>2
<1>4. \A j \in Worker!Job :
        /\ Len(Worker!Outputs(j)) \in {1, 2}
        /\ \A i \in 1 .. Len(Worker!Outputs(j)) : Worker!Outputs(j)[i] \in Worker!Key
        /\ \A i \in 1 .. Len(Worker!Outputs(j)) : \A m \in 1 .. Len(Worker!Outputs(j)) :
             Worker!Outputs(j)[i] = Worker!Outputs(j)[m] => i = m
  <2> TAKE j \in Worker!Job
  <2>1. Len(Worker!Outputs(j)) \in {1, 2}
    BY <1>2
  <2>2. ASSUME NEW i \in 1 .. Len(Worker!Outputs(j)) PROVE Worker!Outputs(j)[i] \in Worker!Key
    <3>1. j = "auto_edit" => i \in {1, 2}
      BY <1>3
    <3> QED
      BY <1>3, <3>1 DEF Worker!Key, Worker!Job
  <2>3. ASSUME NEW i \in 1 .. Len(Worker!Outputs(j)), NEW m \in 1 .. Len(Worker!Outputs(j)),
               Worker!Outputs(j)[i] = Worker!Outputs(j)[m]
        PROVE  i = m
    <3>1. CASE j = "auto_edit"
      <4>1. i \in {1, 2} /\ m \in {1, 2}
        BY <1>3, <3>1
      <4> QED
        BY <1>1, <2>3, <3>1, <4>1
    <3>2. CASE j # "auto_edit"
      BY <1>3, <3>2
    <3> QED
      BY <3>1, <3>2
  <2> QED
    BY <2>1, <2>2, <2>3
<1>5. ASSUME NEW j \in Worker!Job, NEW w \in Worker!Job, NEW i \in 1 .. Len(Worker!Outputs(j)),
             NEW m \in 1 .. Len(Worker!Outputs(w)), Worker!Outputs(j)[i] = Worker!Outputs(w)[m]
      PROVE  j = w \/ (j = "transcode" /\ w = "auto_edit") \/ (j = "auto_edit" /\ w = "transcode")
  <2>1. PICK x : x = Worker!Outputs(j)[i] /\ x = Worker!Outputs(w)[m]
    BY <1>5
  <2>2. /\ j = "thumbnail" => x = "thumbnail"
        /\ j = "preview" => x = "preview"
        /\ j = "transcode" => x = "rendition"
        /\ j = "auto_edit" => x \in {"master", "rendition"}
    BY <1>3, <2>1
  <2>3. /\ w = "thumbnail" => x = "thumbnail"
        /\ w = "preview" => x = "preview"
        /\ w = "transcode" => x = "rendition"
        /\ w = "auto_edit" => x \in {"master", "rendition"}
    BY <1>3, <2>1
  <2> QED
    BY <2>2, <2>3 DEF Worker!Job
<1> QED
  BY <1>4, <1>5

\* Who writes where another job's output is has lost its lock, or replaces the rendition.
LEMMA WriterDisturbs ==
  ASSUME JobsInv, NEW s \in Slot, run[s].step # "idle", NEW m \in 1 .. Len(Worker!Outputs(run[s].job)),
         NEW j \in Worker!Job, NEW i \in 1 .. Len(Worker!Outputs(j)), NEW k,
         k = Worker!Outputs(j)[i], k = Worker!Outputs(run[s].job)[m],
         queue[j].state # "absent",
         \/ queue[j].state = "completed"
         \/ \E t \in Slot : t # s /\ run[t].step # "idle" /\ run[t].job = j
  PROVE  Disturbed(j, k)
<1>1. PICK w \in Worker!Job : w = run[s].job
  BY DEF JobsInv, RunFits
<1>2. (queue[w].state = "active" /\ queue[w].take = run[s].take) \/ queue[w].stalls > 0
  BY <1>1 DEF JobsInv, RunFits, Worker!Holds
<1>3. queue[w].stalls > 0 => Disturbed(j, k)
  BY <1>1 DEF Disturbed
<1>4. CASE w = j
  <2>1. CASE queue[j].state = "completed"
    BY <1>2, <1>3, <1>4, <2>1
  <2>2. ASSUME NEW t \in Slot, t # s, run[t].step # "idle", run[t].job = j
        PROVE  Disturbed(j, k)
    <3>1. (queue[w].state = "active" /\ queue[w].take = run[t].take) \/ queue[w].stalls > 0
      BY <1>4, <2>2 DEF JobsInv, RunFits, Worker!Holds
    <3> QED
      BY <1>2, <1>3, <2>2, <3>1 DEF JobsInv, Alone
  <2> QED
    BY <2>1, <2>2
<1>5. CASE j = "transcode" /\ w = "auto_edit"
  <2>1. queue["auto_edit"].state # "absent"
    BY <1>1, <1>5 DEF JobsInv, RunFits
  <2> QED
    BY <1>5, <2>1 DEF Disturbed
<1>6. CASE j = "auto_edit" /\ w = "transcode"
  <2>1. queue[w].state = "completed"
    BY <1>6 DEF JobsInv, QueueFits
  <2> QED
    BY <1>2, <1>3, <2>1
<1> QED
  BY <1>1, <1>4, <1>5, <1>6, OutputsAre

\* A run that is left alone fits on: its job is kept, and what is written disturbs it.
LEMMA RunFitsOn ==
  ASSUME NEW r, RunFits(r), takes \in Nat, takes' \in Nat, takes' >= takes,
         \A w \in Worker!Job : queue[w].state # "absent" => queue'[w].state # "absent",
         \A w \in Worker!Job : queue[w].stalls > 0 => queue'[w].stalls > 0,
         r.step # "idle" => Worker!Holds(r)' \/ queue'[r.job].stalls > 0,
         r.step # "idle" =>
           \A i \in 1 .. Len(Worker!Outputs(r.job)) :
             LET k == Worker!Outputs(r.job)[i] IN
               \/ objects'[k] = objects[k]
               \/ objects'[k] # Worker!Nothing /\ Disturbed(r.job, k)
  PROVE  RunFits(r)'
<1>1. CASE r.step = "idle"
  BY <1>1 DEF RunFits
<1>2. CASE r.step # "idle"
  <2>1. r.job \in Worker!Job /\ r.take \in 1 .. takes /\ queue[r.job].state # "absent"
    BY <1>2 DEF RunFits
  <2>2. ASSUME NEW k, Disturbed(r.job, k) PROVE Disturbed(r.job, k)'
    <3>1. CASE r.job = "transcode" /\ queue["auto_edit"].state # "absent"
      BY <3>1 DEF Disturbed, Worker!Job
    <3>2. CASE \E w \in Worker!Job :
                 queue[w].stalls > 0 /\ \E m \in 1 .. Len(Worker!Outputs(w)) : Worker!Outputs(w)[m] = k
      <4>1. PICK w \in Worker!Job :
              queue[w].stalls > 0 /\ \E m \in 1 .. Len(Worker!Outputs(w)) : Worker!Outputs(w)[m] = k
        BY <3>2
      <4> QED
        BY <4>1 DEF Disturbed
    <3> QED
      BY <2>2, <3>1, <3>2 DEF Disturbed
  <2>3. ASSUME NEW i \in 1 .. Len(Worker!Outputs(r.job))
        PROVE  OutputFits(r, i, Worker!Outputs(r.job)[i])'
    <3>1. PICK k : k = Worker!Outputs(r.job)[i]
      OBVIOUS
    <3>2. OutputFits(r, i, k)
      BY <1>2, <3>1 DEF RunFits
    <3>3. objects'[k] = objects[k] \/ (objects'[k] # Worker!Nothing /\ Disturbed(r.job, k))
      BY <1>2, <3>1
    <3>4. Worker!Nothing' = Worker!Nothing
      BY DEF Worker!Nothing
    <3>5. OutputFits(r, i, k)'
      BY <2>2, <3>2, <3>3, <3>4 DEF OutputFits, Measured, Wholly, Stored, Done
    <3> QED
      BY <3>1, <3>5
  <2> QED
    BY <1>2, <2>1, <2>3 DEF RunFits
<1> QED
  BY <1>1, <1>2

\* So does a job whose entry is left alone.
LEMMA JobFitsOn ==
  ASSUME NEW j \in Worker!Job, JobFits(j), queue'[j] = queue[j], killed => killed',
         \A w \in Worker!Job : queue[w].state # "absent" => queue'[w].state # "absent",
         \A w \in Worker!Job : queue[w].stalls > 0 => queue'[w].stalls > 0,
         queue[j].state = "active" /\ ~killed' =>
           \E s \in Slot : run'[s].step # "idle" /\ run'[s].job = j /\ run'[s].take = queue[j].take,
         queue[j].state = "completed" =>
           \A i \in 1 .. Len(Worker!Outputs(j)) :
             LET k == Worker!Outputs(j)[i] IN
               \/ objects'[k] = objects[k]
               \/ objects'[k] # Worker!Nothing /\ Disturbed(j, k)
  PROVE  JobFits(j)'
<1>1. ASSUME NEW k, Disturbed(j, k) PROVE Disturbed(j, k)'
  <2>1. CASE j = "transcode" /\ queue["auto_edit"].state # "absent"
    BY <2>1 DEF Disturbed, Worker!Job
  <2>2. CASE \E w \in Worker!Job :
               queue[w].stalls > 0 /\ \E m \in 1 .. Len(Worker!Outputs(w)) : Worker!Outputs(w)[m] = k
    BY <2>2 DEF Disturbed
  <2> QED
    BY <1>1, <2>1, <2>2 DEF Disturbed
<1>2. ASSUME queue'[j].state = "completed", NEW i \in 1 .. Len(Worker!Outputs(j)), NEW k,
             k = Worker!Outputs(j)[i]
      PROVE  objects'[k] # Worker!Nothing /\ (Disturbed(j, k)' \/ objects'[k] = queue'[j].result[k])
  <2>1. objects[k] # Worker!Nothing /\ (Disturbed(j, k) \/ objects[k] = queue[j].result[k])
    BY <1>2 DEF JobFits
  <2>2. objects'[k] = objects[k] \/ (objects'[k] # Worker!Nothing /\ Disturbed(j, k))
    BY <1>2
  <2> QED
    BY <1>1, <2>1, <2>2
<1>3. Worker!Nothing' = Worker!Nothing
  BY DEF Worker!Nothing
<1> QED
  BY <1>2, <1>3 DEF JobFits

\* What a slot writes keeps the bucket whole, and the other runs and jobs disturbed or true.
ObjectsMove(s) ==
  /\ objects' \in Sums /\ ObjectsFit'
  /\ \A t \in Slot : t # s /\ run[t].step # "idle" =>
       \A i \in 1 .. Len(Worker!Outputs(run[t].job)) :
         LET k == Worker!Outputs(run[t].job)[i] IN
           objects'[k] = objects[k] \/ (objects'[k] # Worker!Nothing /\ Disturbed(run[t].job, k))
  /\ \A j \in Worker!Job : queue[j].state = "completed" =>
       \A i \in 1 .. Len(Worker!Outputs(j)) :
         LET k == Worker!Outputs(j)[i] IN
           objects'[k] = objects[k] \/ (objects'[k] # Worker!Nothing /\ Disturbed(j, k))

LEMMA NothingWritten == ASSUME JobsInv, NEW s, objects' = objects PROVE ObjectsMove(s)
BY DEF ObjectsMove, JobsInv, JobsTyped, ObjectsFit, Worker!Nothing

LEMMA OutputWritten ==
  ASSUME JobsInv, NEW s \in Slot, run[s].step = "upload", NEW k,
         k = Worker!Outputs(run[s].job)[run[s].n],
         objects' = [objects EXCEPT ![k] = Worker!Bytes(run[s], k)]
  PROVE  /\ ObjectsMove(s) /\ k \in Worker!Key /\ objects'[k] = Done(run[s].take, k)
         /\ objects'[k] # Worker!Nothing
<1>1. PICK r : r = run[s]
  OBVIOUS
<1>2. /\ r \in RunWork /\ r.job \in Worker!Job /\ r.n \in 1 .. Len(Worker!Outputs(r.job))
      /\ k = Worker!Outputs(r.job)[r.n] /\ r.step = "upload" /\ OutputFits(r, r.n, k)
  BY <1>1 DEF JobsInv, JobsTyped, RunFits
<1>3. k \in Worker!Key /\ k \in r.whole /\ r.take \in Nat
  BY <1>2, OutputsAre DEF OutputFits, Wholly, Measured, RunWork
<1>4. PICK b : b = Worker!Bytes(r, k)
  OBVIOUS
<1>5. b = Done(r.take, k) /\ b \in Content /\ b.whole /\ b # Worker!Nothing
  <2>1. b = [take |-> r.take, of |-> k, whole |-> TRUE]
    BY <1>3, <1>4 DEF Worker!Bytes
  <2>2. b.of = k /\ b.of # "none" /\ b.whole /\ b \in Content
    BY <1>3, <2>1 DEF Content, Worker!Key
  <2> QED
    BY <2>1, <2>2 DEF Done, Worker!Nothing
<1>6. /\ objects' = [objects EXCEPT ![k] = b] /\ objects \in Sums
  BY <1>1, <1>4 DEF JobsInv, JobsTyped
<1>7. objects' \in Sums /\ objects'[k] = b /\ \A h \in Worker!Key : h # k => objects'[h] = objects[h]
  BY <1>3, <1>5, <1>6 DEF Sums
<1>8. ObjectsFit'
  BY <1>5, <1>7 DEF JobsInv, ObjectsFit, Worker!Nothing
<1>9. ASSUME NEW t \in Slot, t # s, run[t].step # "idle", NEW i \in 1 .. Len(Worker!Outputs(run[t].job)),
             NEW h, h = Worker!Outputs(run[t].job)[i]
      PROVE  objects'[h] = objects[h] \/ (objects'[h] # Worker!Nothing /\ Disturbed(run[t].job, h))
  <2>1. PICK j \in Worker!Job : j = run[t].job /\ queue[j].state # "absent"
    BY <1>9 DEF JobsInv, RunFits
  <2>2. h \in Worker!Key
    BY <1>9, <2>1, OutputsAre
  <2>3. CASE h = k
    <3>1. Disturbed(j, k)
      <4>1. \E u \in Slot : u # s /\ run[u].step # "idle" /\ run[u].job = j
        BY <1>9, <2>1
      <4>2. i \in 1 .. Len(Worker!Outputs(j)) /\ k = Worker!Outputs(j)[i]
        BY <1>9, <2>1, <2>3
      <4>3. r.n \in 1 .. Len(Worker!Outputs(run[s].job)) /\ k = Worker!Outputs(run[s].job)[r.n]
            /\ run[s].step # "idle"
        BY <1>1, <1>2
      <4> QED
        BY <2>1, <4>1, <4>2, <4>3, WriterDisturbs
    <3> QED
      BY <1>5, <1>7, <2>1, <2>3, <3>1
  <2> QED
    BY <1>7, <2>2, <2>3
<1>10. ASSUME NEW j \in Worker!Job, queue[j].state = "completed", NEW i \in 1 .. Len(Worker!Outputs(j)),
              NEW h, h = Worker!Outputs(j)[i]
       PROVE  objects'[h] = objects[h] \/ (objects'[h] # Worker!Nothing /\ Disturbed(j, h))
  <2>1. h \in Worker!Key
    BY <1>10, OutputsAre
  <2>2. CASE h = k
    <3>1. Disturbed(j, k)
      BY <1>1, <1>2, <1>10, <2>2, WriterDisturbs
    <3> QED
      BY <1>5, <1>7, <2>2, <3>1
  <2> QED
    BY <1>7, <2>1, <2>2
<1>11. ObjectsMove(s)
  BY <1>7, <1>8, <1>9, <1>10 DEF ObjectsMove
<1> QED
  BY <1>1, <1>3, <1>5, <1>7, <1>11

\* A run goes on: its job, its take and its directory stay.
LEMMA RunGoesOn ==
  ASSUME JobsInv, NEW s \in Slot, run[s].step # "idle", NEW q \in RunWork, q.job = run[s].job,
         q.take = run[s].take, q.step # "idle", run' = [run EXCEPT ![s] = q],
         UNCHANGED <<queue, takes, disk, process, killed>>, ObjectsMove(s), RunFits(q)'
  PROVE  JobsInv'
<1>1. run'[s] = q /\ run' \in [Slot -> RunWork] /\ \A t \in Slot : t # s => run'[t] = run[t]
  BY DEF JobsInv, JobsTyped
<1>2. JobsTyped'
  BY <1>1 DEF JobsInv, JobsTyped, ObjectsMove
<1>3. \A t \in Slot : run'[t].take = run[t].take /\ run'[t].job = run[t].job
                      /\ (run'[t].step = "idle" <=> run[t].step = "idle")
  BY <1>1
<1>4. Alone'
  BY <1>3 DEF JobsInv, Alone
<1>5. DiskFits'
  <2>1. {run'[t].take : t \in Slot} = {run[t].take : t \in Slot}
    BY <1>3
  <2> QED
    BY <1>3, <2>1 DEF JobsInv, DiskFits
<1>6. QueueFits'
  <2>1. ASSUME NEW j \in Worker!Job PROVE JobFits(j)'
    <3>1. JobFits(j)
      BY DEF JobsInv, QueueFits
    <3>2. queue[j].state = "active" /\ ~killed' =>
            \E t \in Slot : run'[t].step # "idle" /\ run'[t].job = j /\ run'[t].take = queue[j].take
      BY <1>3, <3>1 DEF JobFits
    <3> QED
      BY <3>1, <3>2, JobFitsOn DEF ObjectsMove
  <2> QED
    BY <2>1 DEF JobsInv, QueueFits
<1>7. \A t \in Slot : RunFits(run[t])'
  <2>1. ASSUME NEW t \in Slot PROVE RunFits(run[t])'
    <3>1. CASE t = s
      BY <1>1, <3>1 DEF RunFits
    <3>2. CASE t # s
      <4>1. PICK r : r = run[t]
        OBVIOUS
      <4>2. RunFits(r) /\ takes \in Nat
        BY <4>1 DEF JobsInv, JobsTyped
      <4>3. r.step # "idle" => Worker!Holds(r)' \/ queue'[r.job].stalls > 0
        BY <4>2 DEF RunFits, Worker!Holds
      <4>4. r.step # "idle" =>
              \A i \in 1 .. Len(Worker!Outputs(r.job)) :
                LET k == Worker!Outputs(r.job)[i] IN
                  objects'[k] = objects[k] \/ (objects'[k] # Worker!Nothing /\ Disturbed(r.job, k))
        BY <3>2, <4>1 DEF ObjectsMove
      <4>5. RunFits(r)'
        BY <4>2, <4>3, <4>4, RunFitsOn
      <4>6. run'[t] = r
        BY <1>1, <3>2, <4>1
      <4> QED
        BY <4>5, <4>6 DEF RunFits
    <3> QED
      BY <3>1, <3>2
  <2> QED
    BY <2>1
<1>8. ObjectsFit'
  BY DEF ObjectsMove
<1> QED
  BY <1>2, <1>4, <1>5, <1>6, <1>7, <1>8 DEF JobsInv

\* What becomes of the job that an ending run holds.
EntryFits(r, e) ==
  /\ e \in Entered /\ e.state \in {"waiting", "failed", "completed"}
  /\ e.stalls = queue[r.job].stalls /\ (e.state = "waiting" => e.made < Attempts)
  /\ e.state = "completed" =>
       \A i \in 1 .. Len(Worker!Outputs(r.job)) :
         LET k == Worker!Outputs(r.job)[i] IN
           objects'[k] # Worker!Nothing /\ (Disturbed(r.job, k) \/ objects'[k] = e.result[k])

\* A run ends: its directory goes; the job it holds waits again, fails or is completed.
LEMMA RunIsOver ==
  ASSUME JobsInv, NEW s \in Slot, NEW r, r = run[s], r.step # "idle",
         run' = [run EXCEPT ![s] = Worker!Idle], disk' = disk \ {r.take},
         UNCHANGED <<takes, process, killed>>, ObjectsMove(s),
         NEW e, ~Worker!Holds(r) => queue' = queue,
         Worker!Holds(r) => queue' = [queue EXCEPT ![r.job] = e],
         Worker!Holds(r) => EntryFits(r, e)
  PROVE  JobsInv'
<1>1. PICK idle : idle = Worker!Idle
  OBVIOUS
<1>2. idle \in RunWork /\ idle.step = "idle" /\ idle.take = 0 /\ idle.proc = "none" /\ RunFits(idle)'
  <2>1. Worker!Nothing \in Content
    BY DEF Worker!Nothing, Content
  <2>2. Worker!NoSums \in Sums
    BY <2>1 DEF Worker!NoSums, Sums
  <2>3. /\ idle \in RunWork /\ idle.step = "idle" /\ idle.take = 0 /\ idle.proc = "none"
        /\ idle.timer = 0
    BY <1>1, <2>2, MediaAssumption DEF Worker!Idle, RunWork, RunStep
  <2> QED
    BY <2>3 DEF RunFits
<1>3. /\ run' = [run EXCEPT ![s] = idle] /\ run' \in [Slot -> RunWork] /\ run'[s] = idle
      /\ \A t \in Slot : t # s => run'[t] = run[t]
  BY <1>1, <1>2 DEF JobsInv, JobsTyped
<1>4. r \in RunWork /\ r.job \in Worker!Job /\ r.take \in 1 .. takes /\ takes \in Nat /\ r.take # 0
  BY DEF JobsInv, JobsTyped, RunFits
<1>5. /\ queue' \in [Worker!Job -> Entered] /\ \A j \in Worker!Job : queue'[j].stalls = queue[j].stalls
      /\ \A j \in Worker!Job : j # r.job => queue'[j] = queue[j]
      /\ ~Worker!Holds(r) => queue' = queue
      /\ Worker!Holds(r) => queue'[r.job] = e /\ queue[r.job].state = "active"
  <2>1. queue \in [Worker!Job -> Entered]
    BY DEF JobsInv, JobsTyped
  <2>2. CASE Worker!Holds(r)
    BY <1>4, <2>1, <2>2 DEF Worker!Holds, EntryFits
  <2>3. CASE ~Worker!Holds(r)
    BY <2>1, <2>3
  <2> QED
    BY <2>2, <2>3
<1>6. \A w \in Worker!Job : queue[w].state # "absent" => queue'[w].state # "absent"
  BY <1>5 DEF EntryFits
<1>7. JobsTyped'
  BY <1>3, <1>5 DEF JobsInv, JobsTyped, ObjectsMove
<1>8. Alone'
  BY <1>2, <1>3 DEF JobsInv, Alone
<1>9. DiskFits'
  <2>1. CASE killed
    BY <1>2, <1>3, <2>1 DEF JobsInv, DiskFits
  <2>2. CASE ~killed
    <3>1. disk = {run[t].take : t \in Slot} \ {0}
      BY <2>2 DEF JobsInv, DiskFits
    <3>2. \A t \in Slot : run[t].take = r.take => t = s
      BY <1>4 DEF JobsInv, Alone, RunFits
    <3>3. \A x : x \in {run'[t].take : t \in Slot} \ {0} <=> x \in ({run[t].take : t \in Slot} \ {0}) \ {r.take}
      <4>1. ASSUME NEW t \in Slot, run'[t].take # 0
            PROVE  run'[t].take \in ({run[u].take : u \in Slot} \ {0}) \ {r.take}
        <5>1. t # s /\ run'[t] = run[t]
          BY <1>2, <1>3, <4>1
        <5> QED
          BY <3>2, <4>1, <5>1
      <4>2. ASSUME NEW t \in Slot, run[t].take # 0, run[t].take # r.take
            PROVE  run[t].take \in {run'[u].take : u \in Slot} \ {0}
        <5>1. t # s /\ run'[t] = run[t]
          BY <1>3, <4>2
        <5> QED
          BY <4>2, <5>1
      <4> QED
        BY <4>1, <4>2
    <3>4. disk' = {run'[t].take : t \in Slot} \ {0}
      BY <3>1, <3>3
    <3>5. process' = "down" => \A t \in Slot : run'[t].step = "idle"
      BY <1>2, <1>3 DEF JobsInv, DiskFits
    <3> QED
      BY <2>2, <3>4, <3>5 DEF DiskFits
  <2> QED
    BY <2>1, <2>2
<1>10. ASSUME NEW j \in Worker!Job, queue'[j] = queue[j] PROVE JobFits(j)'
  <2>1. JobFits(j)
    BY DEF JobsInv, QueueFits
  <2>2. queue[j].state = "active" /\ ~killed' =>
          \E t \in Slot : run'[t].step # "idle" /\ run'[t].job = j /\ run'[t].take = queue[j].take
    <3>1. SUFFICES ASSUME queue[j].state = "active", ~killed'
                   PROVE  \E t \in Slot : run'[t].step # "idle" /\ run'[t].job = j /\ run'[t].take = queue[j].take
      OBVIOUS
    <3>2. PICK t \in Slot : run[t].step # "idle" /\ run[t].job = j /\ run[t].take = queue[j].take
      BY <2>1, <3>1 DEF JobFits
    <3>3. t # s
      BY <1>5, <1>10, <3>1, <3>2 DEF Worker!Holds, EntryFits
    <3> QED
      BY <1>3, <3>2, <3>3
  <2> QED
    BY <1>5, <1>6, <1>10, <2>1, <2>2, JobFitsOn DEF ObjectsMove
<1>11. ASSUME Worker!Holds(r), NEW j \in Worker!Job, j = r.job PROVE JobFits(j)'
  <2>1. queue'[j] = e
    BY <1>5, <1>11
  <2>2. ASSUME NEW k, Disturbed(j, k) PROVE Disturbed(j, k)'
    BY <1>5, <1>6, <2>2 DEF Disturbed, Worker!Job
  <2>3. Worker!Nothing' = Worker!Nothing
    BY DEF Worker!Nothing
  <2>4. ASSUME queue'[j].state = "completed", NEW i \in 1 .. Len(Worker!Outputs(j)), NEW k,
               k = Worker!Outputs(j)[i]
        PROVE  objects'[k] # Worker!Nothing /\ (Disturbed(j, k)' \/ objects'[k] = queue'[j].result[k])
    BY <1>11, <2>1, <2>2, <2>4 DEF EntryFits
  <2> QED
    BY <1>11, <2>1, <2>3, <2>4 DEF JobFits, EntryFits
<1>12. QueueFits'
  <2>1. ASSUME NEW j \in Worker!Job PROVE JobFits(j)'
    BY <1>5, <1>10, <1>11
  <2>2. queue'["auto_edit"].state # "absent" => queue'["transcode"].state = "completed"
    <3>1. queue'["auto_edit"].state # "absent" => queue["auto_edit"].state # "absent"
      BY <1>5 DEF Worker!Job
    <3>2. queue["transcode"].state = "completed" => queue'["transcode"] = queue["transcode"]
      BY <1>5 DEF Worker!Job
    <3> QED
      BY <3>1, <3>2 DEF JobsInv, QueueFits
  <2> QED
    BY <2>1, <2>2 DEF QueueFits
<1>13. \A t \in Slot : RunFits(run[t])'
  <2>1. ASSUME NEW t \in Slot PROVE RunFits(run[t])'
    <3>1. CASE t = s
      BY <1>2, <1>3, <3>1 DEF RunFits
    <3>2. CASE t # s
      <4>1. PICK q : q = run[t]
        OBVIOUS
      <4>2. RunFits(q)
        BY <4>1 DEF JobsInv
      <4>3. q.step # "idle" => Worker!Holds(q)' \/ queue'[q.job].stalls > 0
        <5>1. SUFFICES ASSUME q.step # "idle" PROVE Worker!Holds(q)' \/ queue'[q.job].stalls > 0
          OBVIOUS
        <5>2. q.job \in Worker!Job /\ (Worker!Holds(q) \/ queue[q.job].stalls > 0)
          BY <4>2, <5>1 DEF RunFits
        <5>3. q.take # r.take
          BY <3>2, <4>1, <5>1 DEF JobsInv, Alone
        <5>4. Worker!Holds(q) => queue'[q.job] = queue[q.job]
          BY <1>5, <5>2, <5>3 DEF Worker!Holds
        <5> QED
          BY <1>5, <5>2, <5>4 DEF Worker!Holds
      <4>4. q.step # "idle" =>
              \A i \in 1 .. Len(Worker!Outputs(q.job)) :
                LET k == Worker!Outputs(q.job)[i] IN
                  objects'[k] = objects[k] \/ (objects'[k] # Worker!Nothing /\ Disturbed(q.job, k))
        BY <3>2, <4>1 DEF ObjectsMove
      <4>5. RunFits(q)'
        BY <1>4, <1>5, <1>6, <4>2, <4>3, <4>4, RunFitsOn
      <4>6. run'[t] = q
        BY <1>3, <3>2, <4>1
      <4> QED
        BY <4>5, <4>6 DEF RunFits
    <3> QED
      BY <3>1, <3>2
  <2> QED
    BY <2>1
<1>14. ObjectsFit'
  BY DEF ObjectsMove
<1> QED
  BY <1>7, <1>8, <1>9, <1>12, <1>13, <1>14 DEF JobsInv

LEMMA Enqueued == ASSUME JobsInv, NEW j \in Worker!Job, Worker!Enqueue(j) PROVE JobsInv'
<1>1. /\ queue[j].state = "absent" /\ queue[Worker!After(j)].state = "completed"
      /\ queue' = [queue EXCEPT ![j].state = "waiting"]
      /\ UNCHANGED <<process, run, objects, disk, takes, killed, troubles>>
  BY DEF Worker!Enqueue
<1>2. PICK e : e = [queue[j] EXCEPT !.state = "waiting"]
  OBVIOUS
<1>3. queue \in [Worker!Job -> Entered] /\ queue[j] \in Entered
  BY DEF JobsInv, JobsTyped
<1>4. /\ e \in Entered /\ e.state = "waiting" /\ e.stalls = queue[j].stalls /\ e.made = queue[j].made
  BY <1>2, <1>3 DEF Entered, JobState
<1>5. /\ queue' \in [Worker!Job -> Entered] /\ queue'[j] = e
      /\ \A w \in Worker!Job : w # j => queue'[w] = queue[w]
      /\ \A w \in Worker!Job : queue'[w].stalls = queue[w].stalls
  BY <1>1, <1>2, <1>3, <1>4
<1>6. \A w \in Worker!Job : queue[w].state # "absent" => queue'[w].state # "absent"
  BY <1>4, <1>5
<1>7. JobsTyped' /\ Alone' /\ DiskFits' /\ ObjectsFit'
  BY <1>1, <1>5 DEF JobsInv, JobsTyped, Alone, DiskFits, ObjectsFit, Worker!Nothing
<1>8. ASSUME NEW w \in Worker!Job PROVE JobFits(w)'
  <2>1. JobFits(w)
    BY DEF JobsInv, QueueFits
  <2>2. CASE w = j
    BY <1>1, <1>4, <1>5, <2>1, <2>2 DEF JobFits
  <2>3. CASE w # j
    <3>1. queue[w].state = "active" /\ ~killed' =>
            \E s \in Slot : run'[s].step # "idle" /\ run'[s].job = w /\ run'[s].take = queue[w].take
      BY <1>1, <2>1 DEF JobFits
    <3> QED
      BY <1>1, <1>5, <1>6, <2>1, <2>3, <3>1, JobFitsOn
  <2> QED
    BY <2>2, <2>3
<1>9. QueueFits'
  <2>1. queue'["auto_edit"].state # "absent" => queue'["transcode"].state = "completed"
    <3>1. CASE j = "auto_edit"
      BY <1>1, <1>5, <3>1 DEF Worker!After, Worker!Job
    <3>2. CASE j # "auto_edit"
      BY <1>1, <1>5, <3>2 DEF Worker!Job, JobsInv, QueueFits
    <3> QED
      BY <3>1, <3>2
  <2> QED
    BY <1>8, <2>1 DEF QueueFits
<1>10. \A t \in Slot : RunFits(run[t])'
  <2>1. ASSUME NEW t \in Slot PROVE RunFits(run[t])'
    <3>1. PICK r : r = run[t]
      OBVIOUS
    <3>2. RunFits(r) /\ takes \in Nat
      BY <3>1 DEF JobsInv, JobsTyped
    <3>3. r.step # "idle" => Worker!Holds(r)' \/ queue'[r.job].stalls > 0
      <4>1. r.step # "idle" => r.job \in Worker!Job /\ queue[r.job].state # "absent"
        BY <3>2 DEF RunFits
      <4> QED
        BY <1>1, <1>5, <3>2, <4>1 DEF RunFits, Worker!Holds
    <3>4. RunFits(r)'
      BY <1>1, <1>5, <1>6, <3>2, <3>3, RunFitsOn
    <3>5. run'[t] = r
      BY <1>1, <3>1
    <3> QED
      BY <3>4, <3>5 DEF RunFits
  <2> QED
    BY <2>1
<1> QED
  BY <1>7, <1>9, <1>10 DEF JobsInv

LEMMA Taken ==
  ASSUME JobsInv, NEW s \in Slot, NEW j \in Worker!Job, Worker!Take(s, j) PROVE JobsInv'
<1>1. /\ process = "up" /\ run[s].step = "idle" /\ queue[j].state = "waiting" /\ takes' = takes + 1
      /\ queue' = [queue EXCEPT ![j].state = "active", ![j].take = takes']
      /\ run' = [run EXCEPT ![s] = [Worker!Idle EXCEPT !.job = j, !.take = takes', !.step = "download"]]
      /\ disk' = disk \union {takes'} /\ UNCHANGED <<process, objects, killed, troubles>>
  BY DEF Worker!Take
<1>2. takes \in Nat /\ takes' \in Nat /\ takes' > takes /\ takes' # 0
  BY <1>1 DEF JobsInv, JobsTyped
<1>3. PICK e : e = [queue[j] EXCEPT !.state = "active", !.take = takes']
  OBVIOUS
<1>4. queue \in [Worker!Job -> Entered] /\ queue[j] \in Entered /\ run \in [Slot -> RunWork]
  BY DEF JobsInv, JobsTyped
<1>5. /\ e \in Entered /\ e.state = "active" /\ e.take = takes' /\ e.stalls = queue[j].stalls
      /\ e.made = queue[j].made
  BY <1>2, <1>3, <1>4 DEF Entered, JobState
<1>6. /\ queue' \in [Worker!Job -> Entered] /\ queue'[j] = e
      /\ \A w \in Worker!Job : w # j => queue'[w] = queue[w]
      /\ \A w \in Worker!Job : queue'[w].stalls = queue[w].stalls
  <2>1. queue' = [queue EXCEPT ![j] = e]
    BY <1>1, <1>3, <1>4
  <2> QED
    BY <1>4, <1>5, <2>1
<1>7. \A w \in Worker!Job : queue[w].state # "absent" => queue'[w].state # "absent"
  BY <1>5, <1>6
<1>8. PICK q : q = [Worker!Idle EXCEPT !.job = j, !.take = takes', !.step = "download"]
  OBVIOUS
<1>9. /\ q \in RunWork /\ q.job = j /\ q.take = takes' /\ q.step = "download" /\ q.n = 1 /\ q.proc = "none"
  <2>1. Worker!Nothing \in Content
    BY DEF Worker!Nothing, Content
  <2>2. Worker!NoSums \in Sums
    BY <2>1 DEF Worker!NoSums, Sums
  <2>3. q = [job |-> j, take |-> takes', step |-> "download", n |-> 1, proc |-> "none", timer |-> 0,
             whole |-> {}, sums |-> Worker!NoSums]
    BY <1>8 DEF Worker!Idle
  <2> QED
    BY <1>2, <2>2, <2>3, MediaAssumption DEF RunWork, RunStep
<1>10. /\ run' \in [Slot -> RunWork] /\ run'[s] = q /\ \A t \in Slot : t # s => run'[t] = run[t]
  BY <1>1, <1>4, <1>8, <1>9
<1>11. JobsTyped' /\ ObjectsFit'
  BY <1>1, <1>2, <1>6, <1>10 DEF JobsInv, JobsTyped, ObjectsFit, Worker!Nothing
<1>12. \A t \in Slot : run[t].take # takes'
  BY <1>2 DEF JobsInv, RunFits
<1>13. Alone'
  BY <1>9, <1>10, <1>12 DEF JobsInv, Alone
<1>14. DiskFits'
  <2>1. CASE killed
    BY <1>1, <2>1 DEF DiskFits
  <2>2. CASE ~killed
    <3>1. disk = {run[t].take : t \in Slot} \ {0}
      BY <2>2 DEF JobsInv, DiskFits
    <3>2. run[s].take = 0
      BY <1>1 DEF JobsInv, RunFits
    <3>3. \A x : x \in {run'[t].take : t \in Slot} \ {0} <=> x \in ({run[t].take : t \in Slot} \ {0}) \union {takes'}
      <4>1. ASSUME NEW t \in Slot, run'[t].take # 0
            PROVE  run'[t].take \in ({run[u].take : u \in Slot} \ {0}) \union {takes'}
        BY <1>9, <1>10, <4>1
      <4>2. ASSUME NEW t \in Slot, run[t].take # 0
            PROVE  run[t].take \in {run'[u].take : u \in Slot} \ {0}
        <5>1. run'[t] = run[t]
          BY <1>10, <3>2, <4>2
        <5> QED
          BY <4>2, <5>1
      <4>3. takes' \in {run'[u].take : u \in Slot} \ {0}
        BY <1>2, <1>9, <1>10
      <4> QED
        BY <4>1, <4>2, <4>3
    <3>4. disk' = {run'[t].take : t \in Slot} \ {0}
      BY <1>1, <3>1, <3>3
    <3> QED
      BY <1>1, <2>2, <3>4 DEF DiskFits
  <2> QED
    BY <2>1, <2>2
<1>15. ASSUME NEW w \in Worker!Job PROVE JobFits(w)'
  <2>1. JobFits(w)
    BY DEF JobsInv, QueueFits
  <2>2. CASE w = j
    BY <1>1, <1>5, <1>6, <1>9, <1>10, <2>1, <2>2 DEF JobFits
  <2>3. CASE w # j
    <3>1. queue[w].state = "active" /\ ~killed' =>
            \E t \in Slot : run'[t].step # "idle" /\ run'[t].job = w /\ run'[t].take = queue[w].take
      <4>1. SUFFICES ASSUME queue[w].state = "active", ~killed'
                     PROVE  \E t \in Slot : run'[t].step # "idle" /\ run'[t].job = w /\ run'[t].take = queue[w].take
        OBVIOUS
      <4>2. PICK t \in Slot : run[t].step # "idle" /\ run[t].job = w /\ run[t].take = queue[w].take
        BY <1>1, <2>1, <4>1 DEF JobFits
      <4>3. run'[t] = run[t]
        BY <1>1, <1>10, <4>2
      <4> QED
        BY <4>2, <4>3
    <3> QED
      BY <1>1, <1>6, <1>7, <2>1, <2>3, <3>1, JobFitsOn
  <2> QED
    BY <2>2, <2>3
<1>16. QueueFits'
  <2>1. queue'["auto_edit"].state # "absent" => queue'["transcode"].state = "completed"
    <3>1. queue'["auto_edit"].state # "absent" => queue["auto_edit"].state # "absent"
      BY <1>1, <1>6 DEF Worker!Job
    <3>2. queue["transcode"].state = "completed" => queue'["transcode"] = queue["transcode"]
      BY <1>1, <1>6 DEF Worker!Job
    <3> QED
      BY <3>1, <3>2 DEF JobsInv, QueueFits
  <2> QED
    BY <1>15, <2>1 DEF QueueFits
<1>17. \A t \in Slot : RunFits(run[t])'
  <2>1. ASSUME NEW t \in Slot PROVE RunFits(run[t])'
    <3>1. CASE t = s
      <4>1. 1 \in 1 .. Len(Worker!Outputs(j))
        BY OutputsAre
      <4>2. Worker!Holds(q)'
        BY <1>5, <1>6, <1>9 DEF Worker!Holds
      <4>3. \A i \in 1 .. Len(Worker!Outputs(j)) : OutputFits(q, i, Worker!Outputs(j)[i])'
        BY <1>9 DEF OutputFits, Measured, Wholly, Stored
      <4>4. queue'[j].state # "absent" /\ q.take \in 1 .. takes'
        BY <1>2, <1>5, <1>6, <1>9
      <4>5. RunFits(q)'
        BY <1>9, <4>1, <4>2, <4>3, <4>4 DEF RunFits
      <4>6. run'[t] = q
        BY <1>10, <3>1
      <4> QED
        BY <4>5, <4>6 DEF RunFits
    <3>2. CASE t # s
      <4>1. PICK r : r = run[t]
        OBVIOUS
      <4>2. RunFits(r)
        BY <4>1 DEF JobsInv
      <4>3. r.step # "idle" => Worker!Holds(r)' \/ queue'[r.job].stalls > 0
        <5>1. r.step # "idle" => r.job \in Worker!Job /\ (Worker!Holds(r) \/ queue[r.job].stalls > 0)
          BY <4>2 DEF RunFits
        <5> QED
          BY <1>1, <1>6, <5>1 DEF Worker!Holds
      <4>6. takes' >= takes /\ objects' = objects
        BY <1>1, <1>2
      <4>7. \A w \in Worker!Job : queue[w].stalls > 0 => queue'[w].stalls > 0
        BY <1>6
      <4>4. RunFits(r)'
        BY <1>2, <1>7, <4>2, <4>3, <4>6, <4>7, RunFitsOn
      <4>5. run'[t] = r
        BY <1>10, <3>2, <4>1
      <4> QED
        BY <4>4, <4>5 DEF RunFits
    <3> QED
      BY <3>1, <3>2
  <2> QED
    BY <2>1
<1> QED
  BY <1>11, <1>13, <1>14, <1>16, <1>17 DEF JobsInv

LEMMA LockIsLost == ASSUME JobsInv, NEW j \in Worker!Job, Worker!LockLost(j) PROVE JobsInv'
<1>1. /\ queue[j].state = "active" /\ UNCHANGED <<process, run, objects, disk, takes, killed>>
      /\ queue' = [queue EXCEPT ![j].state = IF queue[j].stalls = 0 THEN "waiting" ELSE "failed",
                                ![j].stalls = 1, ![j].take = 0]
  BY DEF Worker!LockLost
<1>2. PICK new : new = IF queue[j].stalls = 0 THEN "waiting" ELSE "failed"
  OBVIOUS
<1>4. queue \in [Worker!Job -> Entered] /\ queue[j] \in Entered
  BY DEF JobsInv, JobsTyped
<1>3. PICK e : e = [queue[j] EXCEPT !.state = new, !.stalls = 1, !.take = 0]
  OBVIOUS
<1>5. /\ e \in Entered /\ e.state \in {"waiting", "failed"} /\ e.stalls = 1 /\ e.made = queue[j].made
  <2>1. PICK q \in Entered : q = queue[j]
    BY <1>4
  <2>2. e = [q EXCEPT !.state = new, !.stalls = 1, !.take = 0]
    BY <1>3, <2>1
  <2>3. new \in {"waiting", "failed"} /\ 1 \in 0 .. 1 /\ 0 \in Nat
    BY <1>2
  <2> QED
    BY <2>1, <2>2, <2>3 DEF Entered, JobState
<1>6. /\ queue' \in [Worker!Job -> Entered] /\ queue'[j] = e
      /\ \A w \in Worker!Job : w # j => queue'[w] = queue[w]
  <2>1. queue' = [queue EXCEPT ![j] = e]
    BY <1>1, <1>2, <1>3, <1>4
  <2> QED
    BY <1>4, <1>5, <2>1
<1>7. /\ \A w \in Worker!Job : queue[w].state # "absent" => queue'[w].state # "absent"
      /\ \A w \in Worker!Job : queue[w].stalls > 0 => queue'[w].stalls > 0
  BY <1>5, <1>6
<1>8. JobsTyped' /\ Alone' /\ DiskFits' /\ ObjectsFit'
  BY <1>1, <1>6 DEF JobsInv, JobsTyped, Alone, DiskFits, ObjectsFit, Worker!Nothing
<1>9. ASSUME NEW w \in Worker!Job PROVE JobFits(w)'
  <2>1. JobFits(w)
    BY DEF JobsInv, QueueFits
  <2>2. CASE w = j
    BY <1>1, <1>5, <1>6, <2>1, <2>2 DEF JobFits
  <2>3. CASE w # j
    <3>1. queue[w].state = "active" /\ ~killed' =>
            \E s \in Slot : run'[s].step # "idle" /\ run'[s].job = w /\ run'[s].take = queue[w].take
      BY <1>1, <2>1 DEF JobFits
    <3> QED
      BY <1>1, <1>6, <1>7, <2>1, <2>3, <3>1, JobFitsOn
  <2> QED
    BY <2>2, <2>3
<1>10. QueueFits'
  <2>1. queue'["auto_edit"].state # "absent" => queue'["transcode"].state = "completed"
    <3>1. queue'["auto_edit"].state # "absent" => queue["auto_edit"].state # "absent"
      BY <1>1, <1>6 DEF Worker!Job
    <3>2. queue["transcode"].state = "completed" => queue'["transcode"] = queue["transcode"]
      BY <1>1, <1>6 DEF Worker!Job
    <3> QED
      BY <3>1, <3>2 DEF JobsInv, QueueFits
  <2> QED
    BY <1>9, <2>1 DEF QueueFits
<1>11. ASSUME NEW t \in Slot PROVE RunFits(run[t])'
  <2>1. PICK r : r = run[t]
    OBVIOUS
  <2>2. RunFits(r) /\ takes \in Nat /\ takes' \in Nat /\ takes' >= takes /\ objects' = objects
    BY <1>1, <2>1 DEF JobsInv, JobsTyped
  <2>3. r.step # "idle" => Worker!Holds(r)' \/ queue'[r.job].stalls > 0
    <3>1. r.step # "idle" => r.job \in Worker!Job /\ (Worker!Holds(r) \/ queue[r.job].stalls > 0)
      BY <2>2 DEF RunFits
    <3>2. r.job = j => queue'[r.job].stalls > 0
      BY <1>5, <1>6
    <3>3. r.step # "idle" /\ r.job # j => queue'[r.job] = queue[r.job]
      BY <1>6, <3>1
    <3> QED
      BY <3>1, <3>2, <3>3 DEF Worker!Holds
  <2>4. RunFits(r)'
    BY <1>7, <2>2, <2>3, RunFitsOn
  <2>5. run'[t] = r
    BY <1>1, <2>1
  <2> QED
    BY <2>4, <2>5 DEF RunFits
<1> QED
  BY <1>8, <1>10, <1>11 DEF JobsInv

\* A run that throws leaves its job to another attempt, or failed.
LEMMA Thrown ==
  ASSUME JobsInv, NEW s \in Slot, run[s].step # "idle", Worker!Throw(s), ObjectsMove(s)
  PROVE  JobsInv'
<1>1. PICK r : r = run[s]
  OBVIOUS
<1>2. /\ run' = [run EXCEPT ![s] = Worker!Idle] /\ disk' = disk \ {r.take}
      /\ UNCHANGED <<process, takes, killed>>
      /\ ~Worker!Holds(r) => queue' = queue
      /\ Worker!Holds(r) =>
           queue' = [queue EXCEPT
                       ![r.job].made = @ + 1, ![r.job].take = 0,
                       ![r.job].state = IF @ = "active" /\ queue[r.job].made + 1 < Attempts
                                        THEN "waiting" ELSE "failed"]
  BY <1>1 DEF Worker!Throw, Worker!Cleaned
<1>3. r.job \in Worker!Job /\ queue \in [Worker!Job -> Entered]
  BY <1>1 DEF JobsInv, JobsTyped, RunFits
<1>4. PICK j, q : j = r.job /\ q = queue[j]
  OBVIOUS
<1>5. PICK new : new = IF q.state = "active" /\ q.made + 1 < Attempts THEN "waiting" ELSE "failed"
  OBVIOUS
<1>6. PICK e : e = [q EXCEPT !.made = q.made + 1, !.take = 0, !.state = new]
  OBVIOUS
<1>7. Worker!Holds(r) =>
        /\ e \in Entered /\ e.state \in {"waiting", "failed"} /\ e.stalls = q.stalls
        /\ (e.state = "waiting" => e.made < Attempts)
  <2> SUFFICES ASSUME Worker!Holds(r)
               PROVE  /\ e \in Entered /\ e.state \in {"waiting", "failed"} /\ e.stalls = q.stalls
                      /\ (e.state = "waiting" => e.made < Attempts)
    OBVIOUS
  <2>1. q.state = "active" /\ q \in Entered
    BY <1>3, <1>4 DEF Worker!Holds
  <2>2. q.made < Attempts
    BY <1>3, <1>4, <2>1 DEF JobsInv, QueueFits, JobFits
  <2>3. q.made + 1 \in 0 .. Attempts
    BY <2>1, <2>2, MediaAssumption DEF Entered
  <2>4. new \in {"waiting", "failed"} /\ (new = "waiting" => q.made + 1 < Attempts)
    BY <1>5
  <2> QED
    BY <1>6, <2>1, <2>3, <2>4 DEF Entered, JobState
<1>8. Worker!Holds(r) => queue' = [queue EXCEPT ![r.job] = e]
  BY <1>2, <1>3, <1>4, <1>5, <1>6
<1>9. Worker!Holds(r) => EntryFits(r, e)
  BY <1>4, <1>7 DEF EntryFits
<1>10. r.step # "idle"
  BY <1>1
<1> QED
  BY <1>1, <1>2, <1>8, <1>9, <1>10, RunIsOver

\* A step of a run that throws, and writes nothing.
LEMMA Failed ==
  ASSUME JobsInv, NEW s \in Slot, run[s].step # "idle", Worker!Throw(s), objects' = objects
  PROVE  JobsInv'
BY NothingWritten, Thrown

LEMMA Downloaded == ASSUME JobsInv, NEW s \in Slot, Worker!Download(s) PROVE JobsInv'
<1>1. PICK r : r = run[s]
  OBVIOUS
<1>2. r.step = "download" /\ r \in RunWork /\ RunFits(r) /\ objects' = objects
  BY <1>1 DEF Worker!Download, JobsInv, JobsTyped
<1>3. CASE Worker!Throw(s)
  BY <1>1, <1>2, <1>3, Failed
<1>4. CASE run' = [run EXCEPT ![s] = Worker!Begun(run[s])] /\ UNCHANGED <<queue, disk, process, takes, killed>>
  <2>1. PICK q : q = [r EXCEPT !.step = "encode", !.proc = "running", !.timer = Timeout]
    OBVIOUS
  <2>2. /\ q \in RunWork /\ q.job = r.job /\ q.take = r.take /\ q.step = "encode" /\ q.n = r.n
        /\ q.proc = "running" /\ q.timer > 0
    <3>1. Timeout \in 0 .. Timeout /\ Timeout > 0
      BY MediaAssumption
    <3> QED
      BY <1>2, <2>1, <3>1 DEF RunWork, RunStep
  <2>3. run' = [run EXCEPT ![s] = q]
    BY <1>1, <1>4, <2>1 DEF Worker!Begun
  <2>4. RunFits(q)'
    <3>1. /\ r.job \in Worker!Job /\ r.take \in 1 .. takes /\ r.n \in 1 .. Len(Worker!Outputs(r.job))
          /\ queue[r.job].state # "absent" /\ (Worker!Holds(r) \/ queue[r.job].stalls > 0) /\ r.n = 1
      BY <1>2 DEF RunFits
    <3>2. \A i \in 1 .. Len(Worker!Outputs(q.job)) : OutputFits(q, i, Worker!Outputs(q.job)[i])'
      BY <2>2, <3>1 DEF OutputFits, Measured, Wholly, Stored
    <3> QED
      BY <1>4, <2>2, <3>1, <3>2 DEF RunFits, Worker!Holds
  <2>5. ObjectsMove(s)
    BY <1>2, NothingWritten
  <2> QED
    BY <1>1, <1>2, <1>4, <2>2, <2>3, <2>4, <2>5, RunGoesOn
<1> QED
  BY <1>3, <1>4 DEF Worker!Download, Worker!Fail, Worker!StaysUp

\* A step of an encoding that only moves its ffmpeg and its timer.
LEMMA EncodesOn ==
  ASSUME JobsInv, NEW s \in Slot, run[s].step = "encode", NEW p \in {"running", "hung"}, NEW d \in 0 .. Timeout,
         p = "running" => d > 0,
         run' = [run EXCEPT ![s] = [run[s] EXCEPT !.proc = p, !.timer = d]],
         UNCHANGED <<queue, disk, process, takes, killed, objects>>
  PROVE  JobsInv'
<1>1. PICK r : r = run[s]
  OBVIOUS
<1>2. r.step = "encode" /\ r \in RunWork /\ RunFits(r)
  BY <1>1 DEF JobsInv, JobsTyped
<1>3. PICK q : q = [r EXCEPT !.proc = p, !.timer = d]
  OBVIOUS
<1>4. /\ q \in RunWork /\ q.job = r.job /\ q.take = r.take /\ q.step = "encode" /\ q.n = r.n
      /\ q.proc = p /\ q.timer = d /\ q.whole = r.whole /\ q.sums = r.sums
  BY <1>2, <1>3 DEF RunWork
<1>5. RunFits(q)'
  <2>1. /\ r.job \in Worker!Job /\ r.take \in 1 .. takes /\ r.n \in 1 .. Len(Worker!Outputs(r.job))
        /\ queue[r.job].state # "absent" /\ (Worker!Holds(r) \/ queue[r.job].stalls > 0)
    BY <1>2 DEF RunFits
  <2>2. ASSUME NEW i \in 1 .. Len(Worker!Outputs(q.job)) PROVE OutputFits(q, i, Worker!Outputs(q.job)[i])'
    <3>1. PICK k : k = Worker!Outputs(r.job)[i]
      OBVIOUS
    <3>2. OutputFits(r, i, k)
      BY <1>2, <1>4, <2>2, <3>1 DEF RunFits
    <3>3. OutputFits(q, i, k)'
      BY <1>2, <1>4, <3>2 DEF OutputFits, Measured, Wholly, Stored
    <3> QED
      BY <1>4, <3>1, <3>3
  <2> QED
    BY <1>4, <2>1, <2>2 DEF RunFits, Worker!Holds
<1>6. ObjectsMove(s)
  BY NothingWritten
<1>7. run' = [run EXCEPT ![s] = q]
  BY <1>1, <1>3
<1> QED
  BY <1>1, <1>2, <1>4, <1>5, <1>6, <1>7, RunGoesOn

LEMMA Hung == ASSUME JobsInv, NEW s \in Slot, Worker!Hang(s) PROVE JobsInv'
<1>1. run[s].proc = "running" /\ run[s] \in RunWork /\ RunFits(run[s])
  BY DEF Worker!Hang, JobsInv, JobsTyped
<1>2. run[s].step = "encode" /\ run[s].timer \in 0 .. Timeout
  BY <1>1 DEF RunFits, RunWork
<1>3. PICK r : r = run[s]
  OBVIOUS
<1>4. [r EXCEPT !.proc = "hung"] = [r EXCEPT !.proc = "hung", !.timer = r.timer]
  BY <1>1, <1>3 DEF RunWork
<1>5. run' = [run EXCEPT ![s] = [run[s] EXCEPT !.proc = "hung", !.timer = run[s].timer]]
  BY <1>3, <1>4 DEF Worker!Hang
<1>6. UNCHANGED <<queue, disk, process, takes, killed, objects>>
  BY DEF Worker!Hang
<1> QED
  BY <1>2, <1>5, <1>6, EncodesOn

LEMMA PeriodPasses == ASSUME JobsInv, NEW s \in Slot, Worker!Period(s) PROVE JobsInv'
<1>1. PICK r : r = run[s]
  OBVIOUS
<1>2. /\ r.step = "encode" /\ r.timer \in 1 .. Timeout /\ r \in RunWork
      /\ (r.proc = "running" /\ r.job = "thumbnail" => r.timer > 1)
      /\ UNCHANGED <<queue, disk, process, takes, killed, objects>>
  BY <1>1 DEF Worker!Period, Worker!StaysUp, JobsInv, JobsTyped
<1>3. PICK d : d = IF r.proc = "running" /\ r.job # "thumbnail" THEN Timeout ELSE r.timer - 1
  OBVIOUS
<1>4. run' = [run EXCEPT ![s] = [r EXCEPT !.timer = d]]
  BY <1>1, <1>3 DEF Worker!Period, Worker!Signalled
<1>5. d \in 0 .. Timeout /\ (r.proc = "running" => d > 0)
  BY <1>2, <1>3, MediaAssumption
<1>6. CASE r.proc \in {"running", "hung"}
  <2>1. [r EXCEPT !.timer = d] = [r EXCEPT !.proc = r.proc, !.timer = d]
    BY <1>2 DEF RunWork
  <2>2. run' = [run EXCEPT ![s] = [run[s] EXCEPT !.proc = r.proc, !.timer = d]]
    BY <1>1, <1>4, <2>1
  <2> QED
    BY <1>1, <1>2, <1>5, <1>6, <2>2, EncodesOn
<1>7. r.proc \in {"running", "hung"}
  BY <1>1, <1>2 DEF JobsInv, RunFits, RunWork
<1> QED
  BY <1>6, <1>7

LEMMA HasEncoded == ASSUME JobsInv, NEW s \in Slot, Worker!Encoded(s) PROVE JobsInv'
<1>1. PICK r : r = run[s]
  OBVIOUS
<1>2. /\ r.proc = "running" /\ UNCHANGED <<queue, disk, process, takes, killed, objects>>
      /\ r \in RunWork /\ RunFits(r)
  BY <1>1 DEF Worker!Encoded, Worker!StaysUp, JobsInv, JobsTyped
<1>3. /\ r.job \in Worker!Job /\ r.take \in 1 .. takes /\ r.n \in 1 .. Len(Worker!Outputs(r.job))
      /\ queue[r.job].state # "absent" /\ (Worker!Holds(r) \/ queue[r.job].stalls > 0)
      /\ r.step = "encode"
  BY <1>2 DEF RunFits
<1>4. PICK k \in Worker!Key : k = Worker!Outputs(r.job)[r.n]
  BY <1>3, OutputsAre
<1>5. PICK more : more = r.whole \union {k}
  OBVIOUS
<1>6. PICK q : q = [r EXCEPT !.proc = "none", !.timer = 0, !.step = "measure", !.whole = more]
  OBVIOUS
<1>7. /\ q \in RunWork /\ q.job = r.job /\ q.take = r.take /\ q.step = "measure" /\ q.n = r.n
      /\ q.proc = "none" /\ q.whole = more /\ q.sums = r.sums
  <2>1. more \subseteq Worker!Key /\ 0 \in 0 .. Timeout
    BY <1>2, <1>4, <1>5, MediaAssumption DEF RunWork
  <2> QED
    BY <1>2, <1>6, <2>1 DEF RunWork, RunStep
<1>8. run' = [run EXCEPT ![s] = q]
  BY <1>1, <1>4, <1>5, <1>6 DEF Worker!Encoded, Worker!Settled
<1>9. ASSUME NEW i \in 1 .. Len(Worker!Outputs(q.job)) PROVE OutputFits(q, i, Worker!Outputs(q.job)[i])'
  <2>1. PICK h : h = Worker!Outputs(r.job)[i]
    OBVIOUS
  <2>2. OutputFits(r, i, h)
    BY <1>2, <1>3, <1>7, <1>9, <2>1 DEF RunFits
  <2>3. i = r.n => h = k
    BY <1>4, <2>1
  <2>4. OutputFits(q, i, h)'
    BY <1>2, <1>3, <1>5, <1>7, <2>2, <2>3 DEF OutputFits, Measured, Wholly, Stored
  <2> QED
    BY <1>7, <2>1, <2>4
<1>10. RunFits(q)'
  BY <1>2, <1>3, <1>7, <1>9 DEF RunFits, Worker!Holds
<1>11. ObjectsMove(s)
  BY <1>2, NothingWritten
<1> QED
  BY <1>1, <1>2, <1>3, <1>7, <1>8, <1>10, <1>11, RunGoesOn

LEMMA HasMeasured == ASSUME JobsInv, NEW s \in Slot, Worker!Measure(s) PROVE JobsInv'
<1>1. PICK r : r = run[s]
  OBVIOUS
<1>2. r.step = "measure" /\ r \in RunWork /\ RunFits(r) /\ objects' = objects
  BY <1>1 DEF Worker!Measure, JobsInv, JobsTyped
<1>3. CASE Worker!Throw(s)
  BY <1>1, <1>2, <1>3, Failed
<1>4. CASE ~Worker!Throw(s)
  <2>1. /\ r.job \in Worker!Job /\ r.take \in 1 .. takes /\ r.n \in 1 .. Len(Worker!Outputs(r.job))
        /\ queue[r.job].state # "absent" /\ (Worker!Holds(r) \/ queue[r.job].stalls > 0)
        /\ Len(Worker!Outputs(r.job)) \in {1, 2} /\ r.take \in Nat
    BY <1>2, OutputsAre DEF RunFits, RunWork
  <2>2. PICK k \in Worker!Key : k = Worker!Outputs(r.job)[r.n] /\ OutputFits(r, r.n, k)
    BY <1>2, <2>1, OutputsAre DEF RunFits
  <2>3. PICK sum : sum = Worker!Sum(r, k)
    OBVIOUS
  <2>4. sum = Done(r.take, k) /\ sum \in Content
    <3>1. k \in r.whole
      BY <1>2, <2>2 DEF OutputFits, Wholly
    <3> QED
      BY <2>1, <2>2, <2>3, <3>1 DEF Worker!Sum, Worker!Bytes, Done, Content
  <2>5. PICK sums : sums = [r.sums EXCEPT ![k] = sum]
    OBVIOUS
  <2>6. sums \in Sums /\ sums[k] = Done(r.take, k) /\ \A h \in Worker!Key : h # k => sums[h] = r.sums[h]
    BY <1>2, <2>2, <2>4, <2>5 DEF Sums, RunWork
  <2>7. /\ UNCHANGED <<queue, disk, process, takes, killed>>
        /\ r.n < Len(Worker!Outputs(r.job)) =>
             run' = [run EXCEPT ![s] = [r EXCEPT !.sums = sums, !.n = r.n + 1, !.step = "encode",
                                                 !.proc = "running", !.timer = Timeout]]
        /\ ~(r.n < Len(Worker!Outputs(r.job))) =>
             run' = [run EXCEPT ![s] = [r EXCEPT !.sums = sums, !.step = "upload", !.n = 1]]
    <3>1. /\ UNCHANGED <<queue, disk, process, takes, killed>>
          /\ run' = [run EXCEPT ![s] =
                       IF r.n < Len(Worker!Outputs(r.job))
                       THEN Worker!Begun([[r EXCEPT !.sums[k] = Worker!Sum(r, k)] EXCEPT !.n = @ + 1])
                       ELSE [[r EXCEPT !.sums[k] = Worker!Sum(r, k)] EXCEPT !.step = "upload", !.n = 1]]
      BY <1>1, <1>4, <2>2 DEF Worker!Measure, Worker!Fail, Worker!StaysUp
    <3>2. PICK m : m = [r EXCEPT !.sums[k] = Worker!Sum(r, k)]
      OBVIOUS
    <3>3. m = [r EXCEPT !.sums = sums] /\ m.n = r.n
      BY <1>2, <2>3, <2>5, <3>2 DEF RunWork
    <3>4. [m EXCEPT !.step = "upload", !.n = 1] = [r EXCEPT !.sums = sums, !.step = "upload", !.n = 1]
      BY <1>2, <3>3 DEF RunWork
    <3>5. Worker!Begun([m EXCEPT !.n = @ + 1]) =
            [r EXCEPT !.sums = sums, !.n = r.n + 1, !.step = "encode", !.proc = "running", !.timer = Timeout]
      BY <1>2, <3>3 DEF RunWork, Worker!Begun
    <3> QED
      BY <3>1, <3>2, <3>4, <3>5
  <2>8. ObjectsMove(s)
    BY <1>2, NothingWritten
  <2>9. CASE r.n < Len(Worker!Outputs(r.job))
    <3>1. r.n = 1 /\ r.n + 1 = 2 /\ r.n + 1 \in 1 .. Len(Worker!Outputs(r.job))
      <4>1. PICK len \in {1, 2} : len = Len(Worker!Outputs(r.job))
        BY <2>1
      <4>2. PICK n \in {1, 2} : n = r.n
        BY <1>2 DEF RunWork
      <4>3. n < len /\ n \in 1 .. len
        BY <2>1, <2>9, <4>1, <4>2
      <4>4. n = 1 /\ len = 2
        BY <4>3
      <4> QED
        BY <4>1, <4>2, <4>4
    <3>2. PICK q : q = [r EXCEPT !.sums = sums, !.n = 2, !.step = "encode", !.proc = "running",
                                 !.timer = Timeout]
      OBVIOUS
    <3>3. /\ q \in RunWork /\ q.job = r.job /\ q.take = r.take /\ q.step = "encode" /\ q.n = 2
          /\ q.proc = "running" /\ q.timer = Timeout /\ q.whole = r.whole /\ q.sums = sums
      <4>1. Timeout \in 0 .. Timeout
        BY MediaAssumption
      <4> QED
        BY <1>2, <2>6, <3>2, <4>1 DEF RunWork, RunStep
    <3>4. run' = [run EXCEPT ![s] = q]
      BY <2>7, <2>9, <3>1, <3>2
    <3>5. ASSUME NEW i \in 1 .. Len(Worker!Outputs(q.job)) PROVE OutputFits(q, i, Worker!Outputs(q.job)[i])'
      <4>1. PICK h : h = Worker!Outputs(r.job)[i]
        OBVIOUS
      <4>2. OutputFits(r, i, h) /\ h \in Worker!Key
        BY <1>2, <2>1, <3>3, <3>5, <4>1, OutputsAre DEF RunFits
      <4>3. i < 2 => h = k
        BY <2>2, <3>1, <3>3, <3>5, <4>1
      <4>4. k \in r.whole
        BY <1>2, <2>2 DEF OutputFits, Wholly
      <4>5. OutputFits(q, i, h)'
        BY <2>6, <3>3, <4>3, <4>4 DEF OutputFits, Measured, Wholly, Stored, Done
      <4> QED
        BY <3>3, <4>1, <4>5
    <3>6. RunFits(q)'
      BY <1>2, <2>1, <2>7, <3>1, <3>3, <3>5, MediaAssumption DEF RunFits, Worker!Holds
    <3> QED
      BY <1>1, <1>2, <2>7, <2>8, <3>3, <3>4, <3>6, RunGoesOn
  <2>10. CASE ~(r.n < Len(Worker!Outputs(r.job)))
    <3>1. r.n = Len(Worker!Outputs(r.job))
      BY <2>1, <2>10
    <3>2. PICK q : q = [r EXCEPT !.sums = sums, !.step = "upload", !.n = 1]
      OBVIOUS
    <3>3. /\ q \in RunWork /\ q.job = r.job /\ q.take = r.take /\ q.step = "upload" /\ q.n = 1
          /\ q.proc = r.proc /\ q.whole = r.whole /\ q.sums = sums
      BY <1>2, <2>6, <3>2 DEF RunWork, RunStep
    <3>4. run' = [run EXCEPT ![s] = q]
      BY <2>7, <2>10, <3>2
    <3>5. ASSUME NEW i \in 1 .. Len(Worker!Outputs(q.job)) PROVE OutputFits(q, i, Worker!Outputs(q.job)[i])'
      <4>1. PICK h : h = Worker!Outputs(r.job)[i]
        OBVIOUS
      <4>2. OutputFits(r, i, h) /\ h \in Worker!Key
        BY <1>2, <2>1, <3>3, <3>5, <4>1, OutputsAre DEF RunFits
      <4>3. i = r.n => h = k
        BY <2>2, <4>1
      <4>4. i # r.n => h # k /\ i < r.n
        BY <2>1, <2>2, <3>1, <3>3, <3>5, <4>1, OutputsAre
      <4>5. h \in r.whole
        BY <1>2, <4>2, <4>4 DEF OutputFits, Wholly, Measured
      <4>6. sums[h] = Done(r.take, h)
        BY <1>2, <2>6, <4>2, <4>3, <4>4 DEF OutputFits, Measured
      <4>7. OutputFits(q, i, h)'
        BY <3>3, <4>5, <4>6 DEF OutputFits, Measured, Wholly, Stored, Done
      <4> QED
        BY <3>3, <4>1, <4>7
    <3>6. r.proc = "none"
      BY <1>2 DEF RunFits
    <3>7. RunFits(q)'
      BY <1>2, <2>1, <2>7, <3>3, <3>5, <3>6 DEF RunFits, Worker!Holds
    <3> QED
      BY <1>1, <1>2, <2>7, <2>8, <3>3, <3>4, <3>7, RunGoesOn
  <2> QED
    BY <2>9, <2>10
<1> QED
  BY <1>3, <1>4

LEMMA HasUploaded == ASSUME JobsInv, NEW s \in Slot, Worker!Upload(s) PROVE JobsInv'
<1>1. PICK r : r = run[s]
  OBVIOUS
<1>2. r.step = "upload" /\ r \in RunWork /\ RunFits(r)
  BY <1>1 DEF Worker!Upload, JobsInv, JobsTyped
<1>3. /\ r.job \in Worker!Job /\ r.take \in 1 .. takes /\ r.n \in 1 .. Len(Worker!Outputs(r.job))
      /\ queue[r.job].state # "absent" /\ (Worker!Holds(r) \/ queue[r.job].stalls > 0)
      /\ Len(Worker!Outputs(r.job)) \in {1, 2} /\ r.take \in Nat
  BY <1>2, OutputsAre DEF RunFits, RunWork
<1>4. PICK k : k = Worker!Outputs(r.job)[r.n]
  OBVIOUS
<1>5. CASE Worker!Throw(s)
  <2>1. objects' = objects \/ objects' = [objects EXCEPT ![k] = Worker!Bytes(r, k)]
    <3>1. CASE Worker!Fail(s) /\ objects' \in {objects, [objects EXCEPT ![k] = Worker!Bytes(r, k)]}
      BY <3>1
    <3>2. CASE objects' = [objects EXCEPT ![k] = Worker!Bytes(r, k)]
      BY <3>2
    <3> QED
      BY <1>1, <1>4, <3>1, <3>2 DEF Worker!Upload
  <2>2. ObjectsMove(s)
    BY <1>1, <1>2, <1>4, <2>1, NothingWritten, OutputWritten
  <2> QED
    BY <1>1, <1>2, <1>5, <2>2, Thrown
<1>6. CASE ~Worker!Throw(s)
  <2>1. /\ objects' = [objects EXCEPT ![k] = Worker!Bytes(r, k)]
        /\ run' = [run EXCEPT ![s] = Worker!Uploaded(r)]
        /\ UNCHANGED <<queue, disk, process, takes, killed>>
    BY <1>1, <1>4, <1>6 DEF Worker!Upload, Worker!Fail, Worker!StaysUp
  <2>2. ObjectsMove(s) /\ k \in Worker!Key /\ objects'[k] = Done(r.take, k) /\ objects'[k] # Worker!Nothing
    BY <1>1, <1>2, <1>4, <2>1, OutputWritten
  <2>3. \A h \in Worker!Key : h # k => objects'[h] = objects[h]
    BY <2>1 DEF JobsInv, JobsTyped, Sums
  <2>4. PICK q : q = Worker!Uploaded(r)
    OBVIOUS
  <2>5. PICK len \in {1, 2} : len = Len(Worker!Outputs(r.job))
    BY <1>3
  <2>6. PICK n \in {1, 2} : n = r.n /\ n \in 1 .. len
    BY <1>2, <1>3, <2>5 DEF RunWork
  <2>0. n \in {1, 2} /\ len \in {1, 2} /\ n \in 1 .. len
    BY <2>5, <2>6
  <2>7. /\ q \in RunWork /\ q.job = r.job /\ q.take = r.take /\ q.proc = r.proc /\ q.whole = r.whole
        /\ q.sums = r.sums /\ q.n \in 1 .. len
        /\ (q.step = "upload" /\ q.n = n + 1) \/ (q.step = "report" /\ q.n = n /\ n = len)
    <3>1. CASE n < len
      <4>1. n = 1 /\ len = 2
        BY <2>6, <3>1
      <4>2. q = [r EXCEPT !.n = 2]
        BY <2>4, <2>5, <2>6, <3>1, <4>1 DEF Worker!Uploaded
      <4>3. q \in RunWork /\ q.job = r.job /\ q.take = r.take /\ q.proc = r.proc /\ q.whole = r.whole
            /\ q.sums = r.sums /\ q.n = 2 /\ q.step = "upload"
        BY <1>2, <4>2 DEF RunWork
      <4>4. q.n = n + 1 /\ q.n \in 1 .. len
        BY <4>1, <4>3
      <4> QED
        BY <1>2, <4>1, <4>3, <4>4
    <3>2. CASE ~(n < len)
      <4>1. n = len
        BY <2>5, <2>6, <3>2
      <4>2. q = [r EXCEPT !.step = "report"]
        BY <2>4, <2>5, <2>6, <3>2 DEF Worker!Uploaded
      <4> QED
        BY <1>2, <2>6, <4>1, <4>2 DEF RunWork, RunStep
    <3> QED
      BY <3>1, <3>2
  <2>8. ASSUME NEW i \in 1 .. Len(Worker!Outputs(q.job)) PROVE OutputFits(q, i, Worker!Outputs(q.job)[i])'
    <3>1. PICK h : h = Worker!Outputs(r.job)[i]
      OBVIOUS
    <3>2. OutputFits(r, i, h) /\ h \in Worker!Key /\ i \in 1 .. len
      BY <1>2, <1>3, <2>5, <2>7, <2>8, <3>1, OutputsAre DEF RunFits
    <3>3. Worker!Nothing' = Worker!Nothing
      BY DEF Worker!Nothing
    <3>4. h \in q.whole /\ q.sums[h] = Done(q.take, h)
      BY <1>2, <2>7, <3>2 DEF OutputFits, Wholly, Measured
    <3>5. CASE h = k
      <4>1. OutputFits(q, i, h)'
        BY <2>2, <2>7, <3>3, <3>4, <3>5 DEF OutputFits, Done
      <4> QED
        BY <2>7, <3>1, <4>1
    <3>6. CASE h # k
      <4>1. i # n
        BY <1>4, <2>6, <3>1, <3>6
      <4>2. Stored(q, i) => i < n
        BY <2>5, <2>6, <2>7, <3>2, <4>1 DEF Stored
      <4>3. Stored(q, i) => Stored(r, i)
        BY <1>2, <2>6, <4>2 DEF Stored
      <4>4. objects'[h] = objects[h]
        BY <2>3, <3>2, <3>6
      <4>5. Disturbed(q.job, h)' <=> Disturbed(r.job, h)
        BY <2>1, <2>7 DEF Disturbed
      <4>6. OutputFits(q, i, h)'
        BY <2>7, <3>2, <3>3, <3>4, <4>3, <4>4, <4>5 DEF OutputFits, Done
      <4> QED
        BY <2>7, <3>1, <4>6
    <3> QED
      BY <3>5, <3>6
  <2>9. RunFits(q)'
    <3>1. r.proc = "none"
      BY <1>2 DEF RunFits
    <3> QED
      BY <1>3, <2>1, <2>5, <2>7, <2>8, <3>1 DEF RunFits, Worker!Holds
  <2> QED
    BY <1>1, <1>2, <2>1, <2>2, <2>4, <2>7, <2>9, RunGoesOn
<1> QED
  BY <1>5, <1>6

LEMMA HasReported == ASSUME JobsInv, NEW s \in Slot, Worker!Report(s) PROVE JobsInv'
<1>1. PICK r : r = run[s]
  OBVIOUS
<1>2. r.step = "report" /\ r \in RunWork /\ RunFits(r) /\ objects' = objects
  BY <1>1 DEF Worker!Report, JobsInv, JobsTyped
<1>3. CASE Worker!Throw(s)
  BY <1>1, <1>2, <1>3, Failed
<1>4. CASE ~Worker!Throw(s)
  <2>1. /\ run' = [run EXCEPT ![s] = Worker!Idle] /\ disk' = disk \ {r.take}
        /\ UNCHANGED <<takes, process, killed>>
        /\ ~Worker!Holds(r) => queue' = queue
        /\ Worker!Holds(r) =>
             queue' = [queue EXCEPT ![r.job].state = "completed", ![r.job].take = 0, ![r.job].result = r.sums]
    BY <1>1, <1>4 DEF Worker!Report, Worker!Fail, Worker!StaysUp, Worker!Cleaned
  <2>2. r.job \in Worker!Job /\ queue \in [Worker!Job -> Entered]
    BY <1>2 DEF JobsInv, JobsTyped, RunFits
  <2>3. PICK e : e = [queue[r.job] EXCEPT !.state = "completed", !.take = 0, !.result = r.sums]
    OBVIOUS
  <2>4. /\ e \in Entered /\ e.state = "completed" /\ e.stalls = queue[r.job].stalls /\ e.result = r.sums
    <3>1. PICK q \in Entered : q = queue[r.job]
      BY <2>2
    <3> QED
      BY <1>2, <2>3, <3>1 DEF Entered, JobState, RunWork
  <2>5. Worker!Holds(r) => queue' = [queue EXCEPT ![r.job] = e]
    BY <2>1, <2>2, <2>3
  <2>6. ASSUME NEW i \in 1 .. Len(Worker!Outputs(r.job)), NEW k, k = Worker!Outputs(r.job)[i]
        PROVE  objects'[k] # Worker!Nothing /\ (Disturbed(r.job, k) \/ objects'[k] = e.result[k])
    <3>1. OutputFits(r, i, k)
      BY <1>2, <2>6 DEF RunFits
    <3> QED
      BY <1>2, <2>4, <3>1 DEF OutputFits, Stored, Measured
  <2>7. EntryFits(r, e)
    BY <2>4, <2>6 DEF EntryFits
  <2>8. ObjectsMove(s)
    BY <1>2, NothingWritten
  <2> QED
    BY <1>1, <1>2, <2>1, <2>5, <2>7, <2>8, RunIsOver
<1> QED
  BY <1>3, <1>4

\* The process stops and starts when nothing runs, or is killed.
LEMMA ProcessMoves ==
  ASSUME JobsInv, Worker!Shutdown \/ Worker!Exit \/ Worker!Kill \/ Worker!Start PROVE JobsInv'
<1>1. PICK idle : idle = Worker!Idle
  OBVIOUS
<1>2. idle \in RunWork /\ idle.step = "idle" /\ idle.take = 0 /\ idle.proc = "none"
  <2>1. Worker!Nothing \in Content
    BY DEF Worker!Nothing, Content
  <2>2. Worker!NoSums \in Sums
    BY <2>1 DEF Worker!NoSums, Sums
  <2> QED
    BY <1>1, <2>2, MediaAssumption DEF Worker!Idle, RunWork, RunStep
<1>3. UNCHANGED <<queue, objects, disk, takes>>
  BY DEF Worker!Shutdown, Worker!Exit, Worker!Kill, Worker!Start
<1>4. ObjectsFit' /\ Worker!Nothing' = Worker!Nothing
  BY <1>3 DEF JobsInv, ObjectsFit, Worker!Nothing
<1>5. CASE Worker!Shutdown \/ Worker!Start
  <2>1. run' = run /\ killed' = killed /\ process' \in {"up", "closing"}
    BY <1>5 DEF Worker!Shutdown, Worker!Start
  <2>2. JobsTyped' /\ Alone' /\ DiskFits'
    BY <1>3, <2>1 DEF JobsInv, JobsTyped, Alone, DiskFits
  <2>3. QueueFits'
    BY <1>3, <1>4, <2>1 DEF JobsInv, QueueFits, JobFits, Disturbed
  <2>4. \A t \in Slot : RunFits(run[t])'
    BY <1>3, <1>4, <2>1 DEF JobsInv, RunFits, OutputFits, Disturbed, Worker!Holds
  <2> QED
    BY <1>4, <2>2, <2>3, <2>4 DEF JobsInv
<1>6. CASE Worker!Exit \/ Worker!Kill
  <2>1. /\ run' = [s \in Slot |-> idle] /\ process' = "down"
        /\ killed' \/ (killed' = killed /\ \A s \in Slot : run[s].step = "idle")
        /\ killed' \in BOOLEAN /\ (killed => killed')
    BY <1>1, <1>6 DEF Worker!Exit, Worker!Kill, Worker!Closed, JobsInv, JobsTyped
  <2>2. JobsTyped' /\ Alone'
    BY <1>2, <1>3, <2>1 DEF JobsInv, JobsTyped, Alone
  <2>3. DiskFits'
    <3>1. CASE killed'
      BY <1>2, <2>1, <3>1 DEF DiskFits
    <3>2. CASE ~killed'
      <4>1. disk = {run[s].take : s \in Slot} \ {0} /\ \A s \in Slot : run[s].take = 0
        BY <2>1, <3>2 DEF JobsInv, DiskFits, RunFits
      <4>2. \A s \in Slot : run'[s].take = 0
        BY <1>2, <2>1
      <4> QED
        BY <1>2, <1>3, <2>1, <4>1, <4>2 DEF DiskFits
    <3> QED
      BY <3>1, <3>2
  <2>4. ASSUME NEW j \in Worker!Job PROVE JobFits(j)'
    <3>1. JobFits(j)
      BY DEF JobsInv, QueueFits
    <3>2. ~(queue[j].state = "active" /\ ~killed')
      BY <2>1, <3>1 DEF JobFits
    <3> QED
      BY <1>3, <2>1, <3>1, <3>2, JobFitsOn
  <2>5. QueueFits'
    BY <1>3, <2>4 DEF JobsInv, QueueFits
  <2>6. ASSUME NEW t \in Slot PROVE RunFits(run[t])'
    <3>1. run'[t] = idle
      BY <2>1
    <3> QED
      BY <1>2, <3>1 DEF RunFits
  <2> QED
    BY <1>4, <2>2, <2>3, <2>5, <2>6 DEF JobsInv
<1> QED
  BY <1>5, <1>6

LEMMA JobsSteps == ASSUME JobsInv, Worker!MediaJobsNext \/ UNCHANGED mediaVars PROVE JobsInv'
<1>1. CASE UNCHANGED mediaVars
  <2>1. UNCHANGED <<process, queue, run, objects, disk, takes, killed, troubles>>
    BY <1>1 DEF mediaVars
  <2>2. Worker!Nothing' = Worker!Nothing
    BY DEF Worker!Nothing
  <2>3. JobsTyped' /\ Alone' /\ DiskFits' /\ ObjectsFit'
    BY <2>1, <2>2 DEF JobsInv, JobsTyped, Alone, DiskFits, ObjectsFit
  <2>4. QueueFits'
    BY <2>1, <2>2 DEF JobsInv, QueueFits, JobFits, Disturbed
  <2>5. \A t \in Slot : RunFits(run[t])'
    BY <2>1, <2>2 DEF JobsInv, RunFits, OutputFits, Disturbed, Worker!Holds
  <2> QED
    BY <2>3, <2>4, <2>5 DEF JobsInv
<1>2. ASSUME NEW s \in Slot, Worker!Erred(s) PROVE JobsInv'
  <2>1. run[s].step = "encode"
    BY <1>2 DEF Worker!Erred, JobsInv, RunFits, JobsTyped
  <2> QED
    BY <1>2, <2>1, Failed DEF Worker!Erred, Worker!Fail
<1>3. ASSUME NEW s \in Slot, Worker!Watchdog(s) PROVE JobsInv'
  BY <1>3, Failed DEF Worker!Watchdog
<1> QED
  BY <1>1, <1>2, <1>3, Enqueued, LockIsLost, Taken, Downloaded, HasEncoded, Hung, PeriodPasses, HasMeasured,
     HasUploaded, HasReported, ProcessMoves DEF Worker!MediaJobsNext

LEMMA JobsBegin == ASSUME Worker!MediaJobsInit PROVE JobsInv
<1>1. PICK idle : idle = Worker!Idle
  OBVIOUS
<1>2. Worker!Nothing \in Content /\ Worker!NoSums \in Sums
  <2>1. Worker!Nothing \in Content
    BY DEF Worker!Nothing, Content
  <2> QED
    BY <2>1 DEF Worker!NoSums, Sums
<1>3. idle \in RunWork /\ idle.step = "idle" /\ idle.take = 0 /\ idle.proc = "none"
  BY <1>1, <1>2, MediaAssumption DEF Worker!Idle, RunWork, RunStep
<1>4. PICK blank : blank = Worker!Fresh
  OBVIOUS
<1>5. blank \in Entered /\ blank.made = 0 /\ blank.state = "absent"
  BY <1>2, <1>4, MediaAssumption DEF Worker!Fresh, Entered, JobState
<1>6. PICK waits : waits = [blank EXCEPT !.state = "waiting"]
  OBVIOUS
<1>7. waits \in Entered /\ waits.made = 0 /\ waits.state = "waiting"
  BY <1>5, <1>6 DEF Entered, JobState
<1>8. /\ process = "up" /\ objects = Worker!NoSums /\ disk = {} /\ takes = 0 /\ killed = FALSE
      /\ queue = [j \in Worker!Job |-> IF j = "transcode" THEN waits ELSE blank]
      /\ run = [s \in Slot |-> idle]
  BY <1>1, <1>4, <1>6 DEF Worker!MediaJobsInit
<1>9. JobsTyped
  BY <1>2, <1>3, <1>5, <1>7, <1>8 DEF JobsTyped
<1>10. Alone /\ DiskFits /\ \A s \in Slot : RunFits(run[s])
  BY <1>3, <1>8 DEF Alone, DiskFits, RunFits
<1>11. ObjectsFit
  BY <1>8 DEF ObjectsFit, Worker!NoSums
<1>12. QueueFits
  <2>1. 0 < Attempts
    BY MediaAssumption
  <2>2. \A j \in Worker!Job : JobFits(j)
    BY <1>5, <1>7, <1>8, <2>1 DEF JobFits
  <2>3. queue["auto_edit"].state = "absent"
    BY <1>5, <1>8 DEF Worker!Job
  <2> QED
    BY <2>2, <2>3 DEF QueueFits
<1> QED
  BY <1>9, <1>10, <1>11, <1>12 DEF JobsInv

LEMMA JobsHold ==
  ASSUME JobsInv
  PROVE  /\ Worker!MediaJobsTypeOK /\ Worker!PromisedIsStored /\ Worker!ChecksumMatches
         /\ Worker!HangIsWatched /\ Worker!HealthyIsNotKilled
         /\ Worker!NothingLeftBehind /\ Worker!StopFinishesItsJobs
<1>0. \A s \in Slot : run[s] \in RunWork /\ RunFits(run[s])
  BY DEF JobsInv, JobsTyped
<1>1. Worker!MediaJobsTypeOK
  <2>1. \A j \in Worker!Job : queue[j] \in Entered
    BY DEF JobsInv, JobsTyped
  <2>2. \A x \in 0 .. Timeout : x \in 0 .. Worker!Off
    BY MediaAssumption DEF Worker!Off
  <2>3. \A s \in Slot :
          /\ run[s].step \in RunStep /\ run[s].proc \in {"none", "running", "hung"}
          /\ run[s].timer \in 0 .. Timeout
          /\ run[s].step # "idle" => run[s].n \in 1 .. Len(Worker!Outputs(run[s].job))
    BY <1>0 DEF RunWork, RunFits
  <2> QED
    BY <2>1, <2>2, <2>3 DEF JobsInv, JobsTyped, Worker!MediaJobsTypeOK, Entered, JobState, RunStep
<1>2. Worker!PromisedIsStored
  <2>1. \A k \in Worker!Key : objects[k] # Worker!Nothing => objects[k].whole
    BY DEF JobsInv, ObjectsFit
  <2>2. \A j \in Worker!Job : queue[j].state = "completed" =>
          \A i \in 1 .. Len(Worker!Outputs(j)) : objects[Worker!Outputs(j)[i]] # Worker!Nothing
    BY DEF JobsInv, QueueFits, JobFits
  <2> QED
    BY <2>1, <2>2 DEF Worker!PromisedIsStored
<1>3. Worker!ChecksumMatches
  BY DEF JobsInv, QueueFits, JobFits, Disturbed, Worker!ChecksumMatches
<1>4. Worker!HangIsWatched
  BY <1>0, MediaAssumption DEF Worker!HangIsWatched, Worker!Off, RunWork
<1>5. Worker!HealthyIsNotKilled
  BY <1>0 DEF Worker!HealthyIsNotKilled, RunFits
<1>6. Worker!NothingLeftBehind
  BY DEF Worker!NothingLeftBehind, JobsInv, DiskFits
<1>7. Worker!StopFinishesItsJobs
  BY DEF Worker!StopFinishesItsJobs, JobsInv, DiskFits, QueueFits, JobFits
<1> QED
  BY <1>1, <1>2, <1>3, <1>4, <1>5, <1>6, <1>7

-------------------------------------------------------------------------------
(* The cut: sizes *)

\* A rounded quotient is as large as what its dividend holds.
LEMMA Roundings ==
  ASSUME NEW a \in Nat, NEW b \in Nat \ {0}, NEW k \in Nat
  PROVE  /\ Worker!Rounded(a, b) \in Nat
         /\ a >= k * b => Worker!Rounded(a, b) >= k
         /\ a = k * b => Worker!Rounded(a, b) = k
<1>1. PICK c \in Nat : c = 2 * a + b
  OBVIOUS
<1>2. PICK d \in Nat : d = 2 * b /\ d > 0
  OBVIOUS
<1>3. PICK q : q = c \div d
  OBVIOUS
<1>4. q \in Int /\ d * q <= c /\ c < d * (q + 1)
  BY <1>1, <1>2, <1>3
<1>5. Worker!Rounded(a, b) = q
  BY <1>1, <1>2, <1>3 DEF Worker!Rounded
<1>6. q \in Nat
  BY <1>2, <1>4
<1>7. ASSUME a >= k * b PROVE q >= k
  <2>1. c >= d * k
    BY <1>1, <1>2, <1>7
  <2>2. d * k < d * (q + 1)
    BY <1>2, <1>4, <1>6, <2>1
  <2>3. k < q + 1
    BY <1>2, <1>6, <2>2
  <2> QED
    BY <1>6, <2>3
<1>8. ASSUME a = k * b PROVE q <= k
  <2>1. c = d * k + b /\ c < d * (k + 1)
    BY <1>1, <1>2, <1>8
  <2>2. d * q < d * (k + 1)
    BY <1>2, <1>4, <1>6, <2>1
  <2>3. q < k + 1
    BY <1>2, <1>6, <2>2
  <2> QED
    BY <1>6, <2>3
<1> QED
  BY <1>5, <1>6, <1>7, <1>8

LEMMA LeastOfTwo ==
  ASSUME NEW a \in Nat, NEW b \in Nat
  PROVE  Worker!Least(a, b) \in Nat /\ Worker!Least(a, b) = (IF a < b THEN a ELSE b)
BY DEF Worker!Least

\* The two edges of the master, the long one and the short one.
LEMMA EdgesFit ==
  ASSUME NEW l \in Nat \ {0}, NEW s \in Nat \ {0}, s <= l,
         NEW bl, bl = Worker!Least(l, LongEdge), NEW bs, bs = Worker!Least(s, ShortEdge),
         NEW ml, ml = Worker!Least(bl, Worker!Rounded(bs * l, s)),
         NEW ms, ms = Worker!Least(bs, Worker!Rounded(bl * s, l))
  PROVE  /\ ml \in Nat /\ ms \in Nat /\ ml <= LongEdge /\ ms <= ShortEdge
         /\ (ml = l /\ ms = s) \/ ml = LongEdge \/ (ms = ShortEdge /\ ml >= ShortEdge)
<1>0. PICK L \in Nat \ {0}, S \in Nat \ {0} : L = LongEdge /\ S = ShortEdge /\ S <= L
  BY CutAssumption
<1>1. /\ bl \in Nat /\ bl = (IF l < L THEN l ELSE L) /\ bl > 0
      /\ bs \in Nat /\ bs = (IF s < S THEN s ELSE S) /\ bs > 0
  <2>1. Worker!Least(l, L) \in Nat /\ Worker!Least(l, L) = (IF l < L THEN l ELSE L)
    BY LeastOfTwo
  <2>2. Worker!Least(s, S) \in Nat /\ Worker!Least(s, S) = (IF s < S THEN s ELSE S)
    BY LeastOfTwo
  <2> QED
    BY <1>0, <2>1, <2>2
<1>2. PICK x, y : x = Worker!Rounded(bs * l, s) /\ y = Worker!Rounded(bl * s, l)
  OBVIOUS
<1>3. bs * l \in Nat /\ bl * s \in Nat
  BY <1>1
<1>4. x \in Nat /\ y \in Nat
  BY <1>2, <1>3, Roundings
<1>5. /\ ml \in Nat /\ ml = (IF bl < x THEN bl ELSE x)
      /\ ms \in Nat /\ ms = (IF bs < y THEN bs ELSE y)
  BY <1>1, <1>2, <1>4, LeastOfTwo
<1>6. ml <= LongEdge /\ ms <= ShortEdge
  BY <1>0, <1>1, <1>4, <1>5
<1>7. CASE l <= L /\ s <= S
  <2>1. bl = l /\ bs = s
    BY <1>0, <1>1, <1>7
  <2>2. bs * l = l * s /\ bl * s = s * l
    BY <2>1
  <2>3. x = l /\ y = s
    BY <1>2, <1>3, <2>2, Roundings
  <2> QED
    BY <1>5, <1>6, <2>1, <2>3
<1>8. CASE l > L /\ s <= S
  <2>1. bl = L /\ bs = s
    BY <1>0, <1>1, <1>8
  <2>2. bs * l = l * s
    BY <2>1
  <2>3. x = l
    BY <1>2, <1>3, <2>2, Roundings
  <2> QED
    BY <1>0, <1>5, <1>6, <1>8, <2>1, <2>3
<1>9. CASE l <= L /\ s > S
  <2>1. bl = l /\ bs = S
    BY <1>0, <1>1, <1>9
  <2>2. bl * s = s * l /\ bs * l >= S * s
    BY <1>0, <2>1
  <2>3. y = s /\ x >= S
    BY <1>0, <1>2, <1>3, <2>2, Roundings
  <2> QED
    BY <1>0, <1>4, <1>5, <1>6, <1>9, <2>1, <2>3
<1>10. CASE l > L /\ s > S
  <2>1. bl = L /\ bs = S
    BY <1>0, <1>1, <1>10
  <2>2. bs * l >= S * s
    BY <1>0, <2>1
  <2>3. x >= S
    BY <1>0, <1>2, <1>3, <2>2, Roundings
  <2>4. CASE S * l >= L * s
    <3>1. x >= L
      BY <1>0, <1>2, <1>3, <2>1, <2>4, Roundings
    <3>2. ml = L
      BY <1>0, <1>4, <1>5, <2>1, <3>1
    <3> QED
      BY <1>0, <1>5, <1>6, <3>2
  <2>5. CASE S * l < L * s
    <3>1. bl * s >= S * l
      BY <1>0, <2>1, <2>5
    <3>2. y >= S
      BY <1>0, <1>2, <1>3, <3>1, Roundings
    <3>3. ms = S /\ ml >= S
      BY <1>0, <1>4, <1>5, <2>1, <2>3, <3>2
    <3> QED
      BY <1>0, <1>5, <1>6, <3>3
  <2> QED
    BY <1>0, <2>4, <2>5
<1> QED
  BY <1>0, <1>7, <1>8, <1>9, <1>10

LEMMA MaxOfTwo ==
  ASSUME NEW a \in Int, NEW b \in Int
  PROVE  Worker!Max({a, b}) = IF a >= b THEN a ELSE b
<1>1. PICK m : m = IF a >= b THEN a ELSE b
  OBVIOUS
<1>2. m \in {a, b} /\ \A y \in {a, b} : m >= y
  BY <1>1
<1>3. Worker!Max({a, b}) \in {a, b} /\ \A y \in {a, b} : Worker!Max({a, b}) >= y
  BY <1>2 DEF Worker!Max
<1> QED
  BY <1>1, <1>3

LEMMA MinOfTwo ==
  ASSUME NEW a \in Int, NEW b \in Int
  PROVE  Worker!Min({a, b}) = IF a <= b THEN a ELSE b
<1>1. PICK m : m = IF a <= b THEN a ELSE b
  OBVIOUS
<1>2. m \in {a, b} /\ \A y \in {a, b} : m <= y
  BY <1>1
<1>3. Worker!Min({a, b}) \in {a, b} /\ \A y \in {a, b} : Worker!Min({a, b}) <= y
  BY <1>2 DEF Worker!Min
<1> QED
  BY <1>1, <1>3

\* The master of a recording, whichever way it is held.
LEMMA MastersFit ==
  ASSUME NEW w \in Nat \ {0}, NEW h \in Nat \ {0}, NEW x, NEW y,
         Worker!Master(<<w, h>>) = <<x, y>>
  PROVE  /\ Worker!Long(<<x, y>>) <= LongEdge /\ Worker!Short(<<x, y>>) <= ShortEdge
         /\ \/ x = w /\ y = h
            \/ Worker!Long(<<x, y>>) = LongEdge
            \/ Worker!Short(<<x, y>>) = ShortEdge
<1>0. PICK L \in Nat \ {0}, S \in Nat \ {0} : L = LongEdge /\ S = ShortEdge /\ S <= L
  BY CutAssumption
<1>1. CASE w >= h
  <2>1. PICK bl, bs : bl = Worker!Least(w, LongEdge) /\ bs = Worker!Least(h, ShortEdge)
    OBVIOUS
  <2>2. Worker!Box(w, h) = <<bl, bs>>
    BY <1>1, <2>1 DEF Worker!Box
  <2>3. x = Worker!Least(bl, Worker!Rounded(bs * w, h)) /\ y = Worker!Least(bs, Worker!Rounded(bl * h, w))
    BY <2>2 DEF Worker!Master, Worker!Decreased
  <2>4. /\ x \in Nat /\ y \in Nat /\ x <= LongEdge /\ y <= ShortEdge
        /\ (x = w /\ y = h) \/ x = LongEdge \/ (y = ShortEdge /\ x >= ShortEdge)
    BY <1>1, <2>1, <2>3, EdgesFit
  <2>5. /\ Worker!Long(<<x, y>>) = IF x >= y THEN x ELSE y
        /\ Worker!Short(<<x, y>>) = IF x <= y THEN x ELSE y
    BY <2>4, MaxOfTwo, MinOfTwo DEF Worker!Long, Worker!Short
  <2> QED
    BY <1>0, <2>4, <2>5
<1>2. CASE w < h
  <2>1. PICK bl, bs : bl = Worker!Least(h, LongEdge) /\ bs = Worker!Least(w, ShortEdge)
    OBVIOUS
  <2>2. Worker!Box(w, h) = <<bs, bl>>
    BY <1>2, <2>1 DEF Worker!Box
  <2>3. x = Worker!Least(bs, Worker!Rounded(bl * w, h)) /\ y = Worker!Least(bl, Worker!Rounded(bs * h, w))
    BY <2>2 DEF Worker!Master, Worker!Decreased
  <2>4. /\ x \in Nat /\ y \in Nat /\ y <= LongEdge /\ x <= ShortEdge
        /\ (x = w /\ y = h) \/ y = LongEdge \/ (x = ShortEdge /\ y >= ShortEdge)
    BY <1>2, <2>1, <2>3, EdgesFit
  <2>5. /\ Worker!Long(<<x, y>>) = IF x >= y THEN x ELSE y
        /\ Worker!Short(<<x, y>>) = IF x <= y THEN x ELSE y
    BY <2>4, MaxOfTwo, MinOfTwo DEF Worker!Long, Worker!Short
  <2> QED
    BY <1>0, <2>4, <2>5
<1> QED
  BY <1>1, <1>2

-------------------------------------------------------------------------------
(* The cut: what is shown, and when *)

LEMMA LeastIndex ==
  ASSUME NEW T \in SUBSET Nat, T # {}
  PROVE  \E m \in T : \A k \in T : m <= k
<1>1. \E x \in T : \A y \in T : ~ (<<y, x>> \in OpToRel(<, Nat))
  BY NatLessThanWellFounded, WFMin
<1>2. PICK x \in T : \A y \in T : ~ (<<y, x>> \in OpToRel(<, Nat))
  BY <1>1
<1>3. ASSUME NEW y \in T PROVE x <= y
  <2>1. y \in Nat /\ x \in Nat
    OBVIOUS
  <2>2. ~ (y < x)
    BY <1>2, <2>1 DEF OpToRel
  <2> QED
    BY <2>1, <2>2
<1> QED
  BY <1>3

\* What a step after another makes of a first value.
Follows(f, first, step, n) ==
  /\ f = [i \in 0 .. n |-> f[i]] /\ f[0] = first
  /\ \A i \in 1 .. n : f[i] = step[i][f[i - 1]]

LEMMA FollowsExist ==
  ASSUME NEW first, NEW step, NEW n \in Nat
  PROVE  \E f : Follows(f, first, step, n)
<1> DEFINE T == {m \in Nat : ~ \E f : Follows(f, first, step, m)}
<1>1. CASE T = {}
  BY <1>1
<1>2. CASE T # {}
  <2>1. PICK m \in T : \A k \in T : m <= k
    BY <1>2, LeastIndex
  <2>2. m # 0
    <3>1. Follows([i \in 0 .. 0 |-> first], first, step, 0)
      BY DEF Follows
    <3> QED
      BY <2>1, <3>1
  <2>3. m \in Nat /\ m - 1 \in Nat /\ m - 1 \notin T
    BY <2>1, <2>2
  <2>4. PICK f : Follows(f, first, step, m - 1)
    BY <2>3
  <2> DEFINE g == [i \in 0 .. m |-> IF i < m THEN f[i] ELSE step[m][f[m - 1]]]
  <2>5. Follows(g, first, step, m)
    <3>1. g = [i \in 0 .. m |-> g[i]]
      OBVIOUS
    <3>2. g[0] = first
      BY <2>3, <2>2, <2>4 DEF Follows
    <3>3. ASSUME NEW i \in 1 .. m PROVE g[i] = step[i][g[i - 1]]
      <4>0. i - 1 \in 0 .. m /\ i - 1 < m /\ g[i - 1] = f[i - 1]
        BY <2>3
      <4>1. CASE i < m
        <5>1. i \in 1 .. m - 1 /\ g[i] = f[i]
          BY <2>3, <4>1
        <5>2. f[i] = step[i][f[i - 1]]
          BY <2>4, <5>1 DEF Follows
        <5> QED
          BY <4>0, <5>1, <5>2
      <4>2. CASE i = m
        BY <4>0, <4>2, <2>3
      <4> QED
        BY <4>1, <4>2, <2>3
    <3> HIDE DEF g
    <3> QED
      BY <3>1, <3>2, <3>3 DEF Follows
  <2> QED
    BY <2>1, <2>5
<1> QED
  BY <1>1, <1>2

\* When each step stays in a set, what follows is there.
LEMMA FollowersFit ==
  ASSUME NEW V, NEW first \in V, NEW n \in Nat, NEW step, NEW f, Follows(f, first, step, n),
         \A i \in 1 .. n : \A v \in V : step[i][v] \in V
  PROVE  \A i \in 0 .. n : f[i] \in V
<1> DEFINE T == {i \in 0 .. n : f[i] \notin V}
<1>1. CASE T = {}
  BY <1>1
<1>2. CASE T # {}
  <2>1. T \in SUBSET Nat
    OBVIOUS
  <2>2. PICK m \in T : \A k \in T : m <= k
    BY <1>2, <2>1, LeastIndex
  <2>3. m # 0
    BY <2>2 DEF Follows
  <2>4. m \in 1 .. n /\ m - 1 \in 0 .. n /\ m - 1 \notin T
    BY <2>2, <2>3
  <2>5. f[m - 1] \in V /\ f[m] = step[m][f[m - 1]]
    BY <2>4 DEF Follows
  <2> QED
    BY <2>2, <2>4, <2>5
<1> QED
  BY <1>1, <1>2

\* The longest duration is a number, and so are the ends of a segment.
LEMMA SegmentsAreTimes ==
  ASSUME NEW s \in Worker!Segment
  PROVE  s.start \in Nat /\ s.end \in Nat /\ Worker!LengthOf(s) \in Nat
         /\ Worker!LengthOf(s) = (IF s.start < s.end THEN s.end - s.start ELSE 0)
<1>1. PICK d \in Durations : \A e \in Durations : e <= d
  BY CutAssumption
<1>2. d \in Nat /\ Durations \subseteq Nat
  BY CutAssumption
<1>3. d \in Durations /\ \A e \in Durations : d >= e
  BY <1>1, <1>2
<1>4. Worker!Max(Durations) \in Durations
  BY <1>3 DEF Worker!Max
<1>5. PICK m \in Nat : m = Worker!Max(Durations)
  BY <1>2, <1>4
<1>6. s.start \in 0 .. m /\ s.end \in 0 .. m + 1
  BY <1>5 DEF Worker!Segment
<1>7. PICK x \in Int : x = s.end - s.start
  BY <1>5, <1>6
<1>8. Worker!LengthOf(s) = IF 0 >= x THEN 0 ELSE x
  BY <1>7, MaxOfTwo DEF Worker!LengthOf
<1> QED
  BY <1>5, <1>6, <1>7, <1>8

\* Where the master is, segment after segment.
LEMMA Cursors ==
  ASSUME NEW s \in Seq(Worker!Segment)
  PROVE  /\ Worker!Cursor(s)[0] = 0
         /\ \A i \in 0 .. Len(s) : Worker!Cursor(s)[i] \in Nat
         /\ \A i \in 1 .. Len(s) :
              Worker!Cursor(s)[i] = Worker!Cursor(s)[i - 1] + Worker!LengthOf(s[i])
<1> DEFINE n == Len(s)
           Rule(f) == [i \in 0 .. n |-> IF i = 0 THEN 0 ELSE f[i - 1] + Worker!LengthOf(s[i])]
           step == [i \in 1 .. n |-> [v \in Nat |-> v + Worker!LengthOf(s[i])]]
           at == CHOOSE f : f = Rule(f)
<1>0. n \in Nat /\ \A i \in 1 .. n : Worker!LengthOf(s[i]) \in Nat
  <2>1. ASSUME NEW i \in 1 .. n PROVE s[i] \in Worker!Segment
    OBVIOUS
  <2> QED
    BY <2>1, SegmentsAreTimes
<1>1. PICK g : Follows(g, 0, step, n)
  BY <1>0, FollowsExist
<1>2. \A i \in 1 .. n : \A v \in Nat : step[i][v] = v + Worker!LengthOf(s[i]) /\ step[i][v] \in Nat
  BY <1>0
<1> HIDE DEF step
<1>3. \A i \in 0 .. n : g[i] \in Nat
  BY <1>0, <1>1, <1>2, FollowersFit
<1>4. g = Rule(g)
  <2>1. ASSUME NEW i \in 0 .. n
        PROVE  g[i] = IF i = 0 THEN 0 ELSE g[i - 1] + Worker!LengthOf(s[i])
    <3>1. CASE i = 0
      BY <1>1, <3>1 DEF Follows
    <3>2. CASE i # 0
      <4>1. i \in 1 .. n /\ i - 1 \in 0 .. n
        BY <1>0, <3>2
      <4> QED
        BY <1>1, <1>2, <1>3, <4>1, <3>2 DEF Follows
    <3> QED
      BY <3>1, <3>2
  <2>2. g = [i \in 0 .. n |-> g[i]]
    BY <1>1 DEF Follows
  <2> QED
    BY <2>1, <2>2
<1>5. at = Rule(at)
  BY <1>4
<1>6. Worker!Cursor(s) = at
  BY DEF Worker!Cursor
<1> HIDE DEF at
<1>7. /\ at[0] = 0
      /\ \A i \in 1 .. n : at[i] = at[i - 1] + Worker!LengthOf(s[i])
  <2>1. at[0] = 0
    BY <1>0, <1>5
  <2>2. ASSUME NEW i \in 1 .. n PROVE at[i] = at[i - 1] + Worker!LengthOf(s[i])
    BY <1>0, <1>5
  <2> QED
    BY <2>1, <2>2
<1>8. \A i \in 0 .. n : at[i] \in Nat
  <2> DEFINE T == {i \in 0 .. n : at[i] \notin Nat}
  <2>1. T \in SUBSET Nat
    OBVIOUS
  <2>2. CASE T # {}
    <3>1. PICK m \in T : \A k \in T : m <= k
      BY <2>1, <2>2, LeastIndex
    <3>2. m # 0
      BY <1>7, <3>1
    <3>3. m \in 1 .. n /\ m - 1 \in 0 .. n /\ m - 1 \notin T
      BY <1>0, <3>1, <3>2
    <3>4. at[m - 1] \in Nat
      BY <3>3
    <3>5. at[m] \in Nat
      BY <1>0, <1>7, <3>3, <3>4
    <3> QED
      BY <3>1, <3>5
  <2> QED
    BY <2>2
<1> QED
  BY <1>6, <1>7, <1>8

\* A clip and a plan as the job is given them.
CutTyped ==
  /\ clip \in [size : Sizes, duration : Durations, probed : Nat, rate : Rates]
  /\ clip.probed \in {0, clip.duration}
  /\ plan \in Seq(Worker!Segment) /\ Len(plan) <= MaxSegments

\* What is kept of a segment: all of it, when it lies in the recording.
LEMMA TrimsFit ==
  ASSUME CutTyped, NEW s \in Worker!Segment
  PROVE  /\ Worker!Trimmed(s) \in Seq(Int)
         /\ s.start < s.end /\ s.end <= clip.duration =>
              /\ Len(Worker!Trimmed(s)) = s.end - s.start
              /\ \A i \in 1 .. s.end - s.start : Worker!Trimmed(s)[i] = s.start + i - 1
<1>0. s.start \in Nat /\ s.end \in Nat
  BY SegmentsAreTimes
<1>1. clip.duration \in Nat
  BY CutAssumption DEF CutTyped
<1>2. PICK l \in Nat : l = Worker!Least(s.end, clip.duration)
  BY <1>0, <1>1, LeastOfTwo
<1>3. l = IF s.end < clip.duration THEN s.end ELSE clip.duration
  BY <1>0, <1>1, <1>2, LeastOfTwo
<1>4. PICK x \in Int : x = l - s.start
  BY <1>0, <1>2
<1>5. PICK m \in Nat : m = Worker!Max({0, x}) /\ m = IF 0 >= x THEN 0 ELSE x
  BY <1>4, MaxOfTwo
<1>6. Worker!Trimmed(s) = [i \in 1 .. m |-> s.start + i - 1]
  BY <1>2, <1>4, <1>5 DEF Worker!Trimmed
<1>7. Worker!Trimmed(s) \in Seq(Int) /\ Len(Worker!Trimmed(s)) = m
  BY <1>0, <1>6
<1>8. ASSUME s.start < s.end, s.end <= clip.duration PROVE m = s.end - s.start
  BY <1>0, <1>1, <1>3, <1>4, <1>5, <1>8
<1> QED
  BY <1>0, <1>6, <1>7, <1>8

\* The first segments of the master, one after the other.
LEMMA Concats ==
  ASSUME CutTyped
  PROVE  /\ Worker!Concat[0] = <<>>
         /\ \A i \in 0 .. Len(plan) : Worker!Concat[i] \in Seq(Int)
         /\ \A i \in 1 .. Len(plan) :
              Worker!Concat[i] = Worker!Concat[i - 1] \o Worker!Trimmed(plan[i])
<1> DEFINE n == Len(plan)
           Rule(f) == [i \in 0 .. n |-> IF i = 0 THEN <<>> ELSE f[i - 1] \o Worker!Trimmed(plan[i])]
           step == [i \in 1 .. n |-> [v \in Seq(Int) |-> v \o Worker!Trimmed(plan[i])]]
           at == CHOOSE f : f = Rule(f)
<1>0. n \in Nat /\ \A i \in 1 .. n : Worker!Trimmed(plan[i]) \in Seq(Int)
  <2>1. n \in Nat
    BY DEF CutTyped
  <2>2. ASSUME NEW i \in 1 .. n PROVE plan[i] \in Worker!Segment
    BY DEF CutTyped
  <2> QED
    BY <2>1, <2>2, TrimsFit
<1>1. PICK g : Follows(g, <<>>, step, n)
  BY <1>0, FollowsExist
<1>2. \A i \in 1 .. n : \A v \in Seq(Int) :
        step[i][v] = v \o Worker!Trimmed(plan[i]) /\ step[i][v] \in Seq(Int)
  <2>1. ASSUME NEW i \in 1 .. n, NEW v \in Seq(Int) PROVE v \o Worker!Trimmed(plan[i]) \in Seq(Int)
    BY <1>0
  <2> QED
    BY <2>1
<1> HIDE DEF step
<1>3. \A i \in 0 .. n : g[i] \in Seq(Int)
  <2>1. <<>> \in Seq(Int)
    OBVIOUS
  <2> QED
    BY <1>0, <1>1, <1>2, <2>1, FollowersFit
<1>4. g = Rule(g)
  <2>1. ASSUME NEW i \in 0 .. n
        PROVE  g[i] = IF i = 0 THEN <<>> ELSE g[i - 1] \o Worker!Trimmed(plan[i])
    <3>1. CASE i = 0
      BY <1>1, <3>1 DEF Follows
    <3>2. CASE i # 0
      <4>1. i \in 1 .. n /\ i - 1 \in 0 .. n
        BY <1>0, <3>2
      <4>2. g[i - 1] \in Seq(Int)
        BY <1>3, <4>1
      <4>3. g[i] = step[i][g[i - 1]]
        BY <1>1, <4>1 DEF Follows
      <4>4. g[i] = g[i - 1] \o Worker!Trimmed(plan[i])
        BY <1>2, <4>1, <4>2, <4>3
      <4> QED
        BY <3>2, <4>4
    <3> QED
      BY <3>1, <3>2
  <2>2. g = [i \in 0 .. n |-> g[i]]
    BY <1>1 DEF Follows
  <2> QED
    BY <2>1, <2>2
<1>5. at = Rule(at)
  BY <1>4
<1>6. Worker!Concat = at
  BY DEF Worker!Concat
<1> HIDE DEF at
<1>7. /\ at[0] = <<>>
      /\ \A i \in 1 .. n : at[i] = at[i - 1] \o Worker!Trimmed(plan[i])
  <2>1. at[0] = <<>>
    BY <1>0, <1>5
  <2>2. ASSUME NEW i \in 1 .. n PROVE at[i] = at[i - 1] \o Worker!Trimmed(plan[i])
    <3>1. i \in 0 .. n /\ i # 0
      BY <1>0
    <3>2. at[i] = Rule(at)[i]
      BY <1>5
    <3>3. Rule(at)[i] = IF i = 0 THEN <<>> ELSE at[i - 1] \o Worker!Trimmed(plan[i])
      BY <3>1
    <3> QED
      BY <3>1, <3>2, <3>3
  <2> QED
    BY <2>1, <2>2
<1>8. \A i \in 0 .. n : at[i] \in Seq(Int)
  <2> DEFINE T == {i \in 0 .. n : at[i] \notin Seq(Int)}
  <2>1. T \in SUBSET Nat
    OBVIOUS
  <2>2. CASE T # {}
    <3>1. PICK m \in T : \A k \in T : m <= k
      BY <2>1, <2>2, LeastIndex
    <3>2. m # 0
      <4>1. <<>> \in Seq(Int)
        OBVIOUS
      <4> QED
        BY <1>7, <3>1, <4>1
    <3>3. m \in 1 .. n /\ m - 1 \in 0 .. n /\ m - 1 \notin T
      BY <1>0, <3>1, <3>2
    <3>4. at[m - 1] \in Seq(Int)
      BY <3>3
    <3>5. at[m] \in Seq(Int)
      <4>1. at[m] = at[m - 1] \o Worker!Trimmed(plan[m]) /\ Worker!Trimmed(plan[m]) \in Seq(Int)
        BY <1>0, <1>7, <3>3
      <4> QED
        BY <3>4, <4>1
    <3> QED
      BY <3>1, <3>5
  <2> QED
    BY <2>2
<1> QED
  BY <1>6, <1>7, <1>8

\* The cursor never goes back.
LEMMA CursorsGrow ==
  ASSUME CutTyped, NEW j \in 0 .. Len(plan), NEW n \in j .. Len(plan)
  PROVE  Worker!Cursor(plan)[j] <= Worker!Cursor(plan)[n]
<1> DEFINE at == Worker!Cursor(plan)
           T == {i \in j .. Len(plan) : ~ (at[j] <= at[i])}
<1>0. Len(plan) \in Nat /\ T \in SUBSET Nat
  BY DEF CutTyped
<1>1. /\ \A i \in 0 .. Len(plan) : at[i] \in Nat
      /\ \A i \in 1 .. Len(plan) : at[i] = at[i - 1] + Worker!LengthOf(plan[i])
  BY Cursors DEF CutTyped
<1>2. \A i \in 1 .. Len(plan) : Worker!LengthOf(plan[i]) \in Nat
  BY SegmentsAreTimes DEF CutTyped
<1> HIDE DEF at
<1>3. CASE T # {}
  <2>1. PICK m \in T : \A k \in T : m <= k
    BY <1>0, <1>3, LeastIndex
  <2>2. m # j
    BY <1>1, <2>1
  <2>3. m \in 1 .. Len(plan) /\ m - 1 \in j .. Len(plan) /\ m - 1 \notin T
    BY <1>0, <2>1, <2>2
  <2>4. at[j] <= at[m - 1]
    BY <2>3
  <2>5. at[j] \in Nat /\ at[m - 1] \in Nat /\ at[m] = at[m - 1] + Worker!LengthOf(plan[m])
    BY <1>1, <2>3
  <2>6. at[j] <= at[m]
    BY <1>2, <2>3, <2>4, <2>5
  <2> QED
    BY <2>1, <2>6
<1> QED
  BY <1>3 DEF at

\* The first i segments are in the master where the cursor says, to the second.
Placed(i) ==
  /\ Len(Worker!Concat[i]) = Worker!Cursor(plan)[i]
  /\ \A j \in 1 .. i : \A k \in 0 .. plan[j].end - plan[j].start - 1 :
       Worker!Concat[i][Worker!Cursor(plan)[j - 1] + k + 1] = plan[j].start + k

LEMMA SegmentsArePlaced ==
  ASSUME CutTyped, Worker!WellFormed, NEW n \in 0 .. Len(plan)
  PROVE  Placed(n)
<1> DEFINE T == {i \in 0 .. Len(plan) : ~ Placed(i)}
<1>0. Len(plan) \in Nat /\ T \in SUBSET Nat
  BY DEF CutTyped
<1>1. CASE T # {}
  <2>1. PICK m \in T : \A k \in T : m <= k
    BY <1>0, <1>1, LeastIndex
  <2>2. m # 0
    <3>1. Placed(0)
      <4>1. Worker!Concat[0] = <<>> /\ Worker!Cursor(plan)[0] = 0
        BY Concats, Cursors DEF CutTyped
      <4>2. Len(<<>>) = 0 /\ 1 .. 0 = {}
        OBVIOUS
      <4>3. Len(Worker!Concat[0]) = Worker!Cursor(plan)[0]
        BY <4>1, <4>2
      <4> QED
        BY <4>2, <4>3 DEF Placed
    <3> QED
      BY <2>1, <3>1
  <2>3. m \in 1 .. Len(plan) /\ m - 1 \in 0 .. Len(plan) /\ m - 1 \notin T
    BY <1>0, <2>1, <2>2
  <2>4. Placed(m - 1)
    BY <2>3
  <2>5. PICK s \in Worker!Segment : s = plan[m]
    BY <2>3 DEF CutTyped
  <2>6. s.start \in Nat /\ s.end \in Nat /\ s.start < s.end /\ s.end <= clip.duration
    BY <2>3, <2>5, SegmentsAreTimes DEF Worker!WellFormed, CutTyped
  <2>7. PICK t \in Seq(Int) : t = Worker!Trimmed(s)
    BY TrimsFit
  <2>8. Len(t) = s.end - s.start /\ \A i \in 1 .. s.end - s.start : t[i] = s.start + i - 1
    BY <2>6, <2>7, TrimsFit
  <2>9. PICK u \in Seq(Int), v \in Seq(Int) :
          u = Worker!Concat[m - 1] /\ v = Worker!Concat[m] /\ v = u \o t
    BY <2>3, <2>5, <2>7, Concats
  <2>10. PICK c \in Nat, d \in Nat :
           /\ c = Worker!Cursor(plan)[m - 1] /\ d = Worker!Cursor(plan)[m]
           /\ d = c + (s.end - s.start)
    <3>1. Worker!LengthOf(s) = s.end - s.start
      BY <2>6, SegmentsAreTimes
    <3>2. plan \in Seq(Worker!Segment) /\ m \in 0 .. Len(plan)
      BY <2>3 DEF CutTyped
    <3>3. /\ Worker!Cursor(plan)[m - 1] \in Nat /\ Worker!Cursor(plan)[m] \in Nat
          /\ Worker!Cursor(plan)[m] = Worker!Cursor(plan)[m - 1] + Worker!LengthOf(plan[m])
      BY <2>3, <3>2, Cursors
    <3> QED
      BY <2>5, <3>1, <3>3
  <2>11. /\ Len(u) = c
         /\ \A j \in 1 .. m - 1 : \A k \in 0 .. plan[j].end - plan[j].start - 1 :
              u[Worker!Cursor(plan)[j - 1] + k + 1] = plan[j].start + k
    BY <2>4, <2>9, <2>10 DEF Placed
  <2>12. /\ Len(v) = Len(u) + Len(t)
         /\ \A i \in 1 .. Len(u) + Len(t) : v[i] = IF i <= Len(u) THEN u[i] ELSE t[i - Len(u)]
    BY <2>9, ConcatProperties
  <2>13. Len(v) = d
    BY <2>6, <2>8, <2>10, <2>11, <2>12
  <2>14. ASSUME NEW j \in 1 .. m, NEW k \in 0 .. plan[j].end - plan[j].start - 1
         PROVE  v[Worker!Cursor(plan)[j - 1] + k + 1] = plan[j].start + k
    <3>1. CASE j = m
      <4>1. k \in 0 .. s.end - s.start - 1
        BY <2>5, <2>14, <3>1
      <4>2. /\ c + k + 1 \in 1 .. Len(u) + Len(t) /\ ~ (c + k + 1 <= Len(u))
            /\ c + k + 1 - Len(u) = k + 1 /\ k + 1 \in 1 .. s.end - s.start
        <5>1. PICK x \in Nat : x = s.end - s.start /\ Len(t) = x /\ k \in 0 .. x - 1
          BY <2>6, <2>8, <4>1
        <5>2. Len(u) = c
          BY <2>11
        <5>3. c \in Nat /\ k \in Nat /\ k < x
          BY <2>10, <5>1
        <5>4. /\ c + k + 1 \in 1 .. c + x /\ ~ (c + k + 1 <= c)
              /\ c + k + 1 - c = k + 1 /\ k + 1 \in 1 .. x
          BY <5>1, <5>3
        <5> QED
          BY <5>1, <5>2, <5>4
      <4>3. v[c + k + 1] = t[k + 1]
        <5>1. PICK p : p = c + k + 1
          OBVIOUS
        <5>2. v[p] = IF p <= Len(u) THEN u[p] ELSE t[p - Len(u)]
          BY <2>12, <4>2, <5>1
        <5> QED
          BY <4>2, <5>1, <5>2
      <4>4. t[k + 1] = s.start + (k + 1) - 1
        BY <2>8, <4>2
      <4>5. s.start + (k + 1) - 1 = s.start + k
        BY <2>6, <4>1
      <4> QED
        BY <2>5, <2>10, <3>1, <4>3, <4>4, <4>5
    <3>2. CASE j # m
      <4>1. j \in 1 .. m - 1 /\ j \in 1 .. Len(plan) /\ j - 1 \in 0 .. Len(plan) /\ j - 1 < m - 1
        BY <2>3, <3>2
      <4>2. u[Worker!Cursor(plan)[j - 1] + k + 1] = plan[j].start + k
        BY <2>11, <2>14, <4>1
      <4>3. PICK b \in Nat : b = Worker!Cursor(plan)[j - 1]
        BY <4>1, Cursors DEF CutTyped
      <4>4. b + k + 1 <= c
        <5>1. PICK r \in Worker!Segment : r = plan[j]
          BY <4>1 DEF CutTyped
        <5>2. r.start \in Nat /\ r.end \in Nat /\ Worker!LengthOf(r) \in Nat
              /\ r.start < r.end /\ Worker!LengthOf(r) = r.end - r.start
          <6>1. j \in DOMAIN plan
            BY <4>1 DEF CutTyped
          <6>2. r.start < r.end
            BY <5>1, <6>1 DEF Worker!WellFormed
          <6> QED
            BY <6>2, SegmentsAreTimes
        <5>3. Worker!Cursor(plan)[j] = b + (r.end - r.start)
          BY <4>1, <4>3, <5>1, <5>2, Cursors DEF CutTyped
        <5>4. PICK e \in Nat : e = Worker!Cursor(plan)[j]
          <6>1. plan \in Seq(Worker!Segment) /\ j \in 0 .. Len(plan)
            BY <4>1 DEF CutTyped
          <6> QED
            BY <6>1, Cursors
        <5>5. e <= c
          <6>1. j \in 0 .. Len(plan) /\ m - 1 \in j .. Len(plan)
            BY <2>3, <4>1
          <6> QED
            BY <2>10, <5>4, <6>1, CursorsGrow
        <5>6. k \in 0 .. r.end - r.start - 1
          BY <2>14, <5>1
        <5> QED
          BY <5>2, <5>3, <5>4, <5>5, <5>6
      <4>5. b + k + 1 \in 1 .. Len(u) + Len(t) /\ b + k + 1 <= Len(u)
        <5>1. Len(u) = c
          BY <2>11
        <5>2. PICK x \in Nat : x = Len(t)
          BY <2>7
        <5>3. b \in Nat /\ c \in Nat /\ k \in Nat
          BY <2>10, <2>14, <4>3
        <5>4. b + k + 1 \in 1 .. c + x
          BY <4>4, <5>2, <5>3
        <5> QED
          BY <4>4, <5>1, <5>2, <5>4
      <4> QED
        BY <2>12, <4>2, <4>3, <4>5
    <3> QED
      BY <3>1, <3>2
  <2>15. Placed(m)
    BY <2>9, <2>10, <2>13, <2>14 DEF Placed
  <2> QED
    BY <2>1, <2>15
<1> QED
  BY <1>1

-------------------------------------------------------------------------------
(* The cut: its steps *)

\* What the job may have made of the recording.
Cuts ==
  [stage : {"edited", "recorded"},
   master : {Worker!Master(clip.size)}, rendition : {Worker!Rendition(Worker!Master(clip.size))},
   gop : {Worker!GopFromFps(clip.rate)}, shot : {Worker!ShotOf(clip.probed)},
   shown : {Worker!Shown},
   timeline : {Worker!BuildTimeline(plan, clip.probed, Len(Worker!Shown)),
               Worker!BuildTimeline(plan, clip.probed, Worker!Unknown)}]

CutInv ==
  /\ CutTyped
  /\ made.stage # "none" =>
       /\ made \in Cuts /\ Worker!Shown # <<>>
       /\ made.stage = "recorded" => warned = Worker!IsShifted(made.timeline)

LEMMA CutBegins ==
  ASSUME Worker!MasterCutInit
  PROVE  CutInv
<1>1. PICK size \in Sizes, d \in Durations, rate \in Rates, tells \in BOOLEAN :
        clip = [size |-> size, duration |-> d, probed |-> IF tells THEN d ELSE Worker!Unknown,
                rate |-> rate]
  BY DEF Worker!MasterCutInit
<1>2. /\ clip \in [size : Sizes, duration : Durations, probed : Nat, rate : Rates]
      /\ clip.probed \in {0, clip.duration}
  BY <1>1, CutAssumption DEF Worker!Unknown
<1>3. PICK m \in 0 .. MaxSegments : plan \in [1 .. m -> Worker!Segment]
  BY DEF Worker!MasterCutInit
<1>4. MaxSegments \in Nat /\ m \in Nat /\ m <= MaxSegments
  BY <1>3, CutAssumption
<1>5. plan \in Seq(Worker!Segment) /\ Len(plan) = m
  BY <1>3, <1>4
<1>6. made.stage = "none"
  BY DEF Worker!MasterCutInit, Worker!NotYet
<1> QED
  BY <1>2, <1>4, <1>5, <1>6 DEF CutInv, CutTyped

LEMMA CutsStay ==
  ASSUME clip' = clip, plan' = plan
  PROVE  Cuts' = Cuts /\ Worker!Shown' = Worker!Shown
<1>1. Worker!Concat' = Worker!Concat
  BY DEF Worker!Concat, Worker!Trimmed
<1>2. Worker!Shown' = Worker!Shown
  BY <1>1 DEF Worker!Shown
<1> QED
  BY <1>2 DEF Cuts

LEMMA CutSteps ==
  ASSUME CutInv, Worker!MasterCutNext \/ UNCHANGED cutVars
  PROVE  CutInv'
<1>0. clip' = clip /\ plan' = plan
  BY DEF Worker!MasterCutNext, Worker!Edit, Worker!Record, cutVars
<1>1. Cuts' = Cuts /\ Worker!Shown' = Worker!Shown /\ CutTyped'
  BY <1>0, CutsStay DEF CutInv, CutTyped
<1>2. CASE Worker!Edit
  <2>1. PICK tells \in BOOLEAN :
          made' = [stage |-> "edited",
                   master |-> Worker!Master(clip.size),
                   rendition |-> Worker!Rendition(Worker!Master(clip.size)),
                   gop |-> Worker!GopFromFps(clip.rate), shot |-> Worker!ShotOf(clip.probed),
                   shown |-> Worker!Shown,
                   timeline |-> Worker!BuildTimeline(plan, clip.probed,
                                  IF tells THEN Len(Worker!Shown) ELSE Worker!Unknown)]
    BY <1>2 DEF Worker!Edit
  <2>2. Worker!Shown # <<>>
    BY <1>2 DEF Worker!Edit
  <2>3. PICK line : line = Worker!BuildTimeline(plan, clip.probed,
                             IF tells THEN Len(Worker!Shown) ELSE Worker!Unknown)
    OBVIOUS
  <2>4. line \in {Worker!BuildTimeline(plan, clip.probed, Len(Worker!Shown)),
                  Worker!BuildTimeline(plan, clip.probed, Worker!Unknown)}
    BY <2>3
  <2>5. made' \in Cuts /\ made'.stage = "edited"
    BY <2>1, <2>3, <2>4 DEF Cuts
  <2> QED
    BY <1>1, <2>2, <2>5 DEF CutInv
<1>3. CASE Worker!Record
  <2>1. made.stage = "edited" /\ made' = [made EXCEPT !.stage = "recorded"]
        /\ warned' = Worker!IsShifted(made.timeline)
    BY <1>3 DEF Worker!Record
  <2>2. made \in Cuts /\ Worker!Shown # <<>>
    BY <2>1 DEF CutInv
  <2>3. made' \in Cuts /\ made'.stage = "recorded" /\ made'.timeline = made.timeline
    BY <2>1, <2>2 DEF Cuts
  <2>4. warned' = Worker!IsShifted(made.timeline)'
    BY <2>1, <2>3 DEF Worker!IsShifted
  <2> QED
    BY <1>1, <2>2, <2>3, <2>4 DEF CutInv
<1>4. CASE UNCHANGED cutVars
  <2>1. made' = made /\ warned' = warned
    BY <1>4 DEF cutVars
  <2>2. Worker!IsShifted(made.timeline)' = Worker!IsShifted(made.timeline)
    BY <2>1 DEF Worker!IsShifted
  <2> QED
    BY <1>1, <2>1, <2>2 DEF CutInv
<1> QED
  BY <1>2, <1>3, <1>4 DEF Worker!MasterCutNext

\* What the master shows of a plan that is well formed, and of none.
LEMMA ShownFits ==
  ASSUME CutTyped
  PROVE  /\ Worker!Shown \in Seq(Int)
         /\ plan = <<>> => /\ Len(Worker!Shown) = clip.duration
                           /\ \A i \in 1 .. clip.duration : Worker!Shown[i] = i - 1
         /\ plan # <<>> => Worker!Shown = Worker!Concat[Len(plan)]
<1>1. PICK d \in Nat : d = clip.duration
  BY CutAssumption DEF CutTyped
<1>2. CASE plan = <<>>
  <2>1. Worker!Shown = [i \in 1 .. d |-> i - 1]
    BY <1>1, <1>2 DEF Worker!Shown
  <2> QED
    BY <1>1, <1>2, <2>1
<1>3. CASE plan # <<>>
  <2>1. Worker!Shown = Worker!Concat[Len(plan)]
    BY <1>3 DEF Worker!Shown
  <2>2. Len(plan) \in 0 .. Len(plan)
    BY DEF CutTyped
  <2> QED
    BY <1>3, <2>1, <2>2, Concats
<1> QED
  BY <1>2, <1>3

\* The timeline of a plan, segment by segment.
LEMMA TimelineOfPlan ==
  ASSUME CutTyped, Worker!WellFormed, plan # <<>>, made \in Cuts
  PROVE  /\ DOMAIN made.timeline = 1 .. Len(plan) /\ Len(made.timeline) = Len(plan)
         /\ \A i \in 1 .. Len(plan) :
              /\ made.timeline[i].source = <<plan[i].start, plan[i].end>>
              /\ made.timeline[i].output =
                   <<Worker!Cursor(plan)[i - 1],
                     Worker!Cursor(plan)[i - 1] + (plan[i].end - plan[i].start)>>
<1>0. Len(plan) \in Nat /\ DOMAIN plan = 1 .. Len(plan)
  BY DEF CutTyped
<1>1. made.timeline = [i \in 1 .. Len(plan) |->
                         Worker!Mapping(plan[i].start, plan[i].end, Worker!Cursor(plan)[i - 1])]
  BY <1>0 DEF Cuts, Worker!BuildTimeline
<1>2. ASSUME NEW i \in 1 .. Len(plan)
      PROVE  Worker!Max({0, plan[i].end - plan[i].start}) = plan[i].end - plan[i].start
  <2>1. PICK s \in Worker!Segment : s = plan[i]
    BY <1>2 DEF CutTyped
  <2>2. s.start < s.end
    BY <1>0, <1>2, <2>1 DEF Worker!WellFormed
  <2> QED
    BY <2>1, <2>2, SegmentsAreTimes DEF Worker!LengthOf
<1>3. ASSUME NEW i \in 1 .. Len(plan)
      PROVE  /\ made.timeline[i].source = <<plan[i].start, plan[i].end>>
             /\ made.timeline[i].output =
                  <<Worker!Cursor(plan)[i - 1],
                    Worker!Cursor(plan)[i - 1] + (plan[i].end - plan[i].start)>>
  <2>1. PICK c : c = Worker!Cursor(plan)[i - 1]
    OBVIOUS
  <2>2. made.timeline[i] = Worker!Mapping(plan[i].start, plan[i].end, c)
    BY <1>1, <2>1
  <2>3. Worker!Mapping(plan[i].start, plan[i].end, c) =
          [source |-> <<plan[i].start, plan[i].end>>,
           output |-> <<c, c + (plan[i].end - plan[i].start)>>]
    BY <1>2 DEF Worker!Mapping
  <2> QED
    BY <2>1, <2>2, <2>3
<1>4. DOMAIN made.timeline = 1 .. Len(plan) /\ Len(made.timeline) = Len(plan)
  BY <1>0, <1>1
<1> QED
  BY <1>3, <1>4

\* The timeline of no plan: the recording, or nothing when its duration is not told.
LEMMA TimelineOfNone ==
  ASSUME CutTyped, plan = <<>>, made \in Cuts
  PROVE  \/ made.timeline = <<>>
         \/ made.timeline = <<[source |-> <<0, clip.duration>>, output |-> <<0, clip.duration>>]>>
<1>1. PICK d \in Nat \ {0} : d = clip.duration
  BY CutAssumption DEF CutTyped
<1>2. Len(Worker!Shown) = d
  BY <1>1, ShownFits
<1>3. Worker!Mapping(0, d, 0) = [source |-> <<0, d>>, output |-> <<0, d>>]
  <2>1. d - 0 = d /\ Worker!Max({0, d}) = d /\ 0 + d = d
    BY MaxOfTwo
  <2> QED
    BY <2>1 DEF Worker!Mapping
<1>4. made.timeline \in {Worker!BuildTimeline(plan, clip.probed, d),
                         Worker!BuildTimeline(plan, clip.probed, 0)}
  BY <1>2 DEF Cuts, Worker!Unknown
<1>5. Worker!BuildTimeline(plan, clip.probed, d) = <<Worker!Mapping(0, d, 0)>>
  BY DEF Worker!BuildTimeline, Worker!Unknown
<1>6. /\ clip.probed = 0 => Worker!BuildTimeline(plan, clip.probed, 0) = <<>>
      /\ clip.probed = d => Worker!BuildTimeline(plan, clip.probed, 0) = <<Worker!Mapping(0, d, 0)>>
  BY DEF Worker!BuildTimeline, Worker!Unknown
<1>7. clip.probed \in {0, d}
  BY <1>1 DEF CutTyped
<1> QED
  BY <1>1, <1>3, <1>4, <1>5, <1>6, <1>7

LEMMA CutHolds ==
  ASSUME CutInv
  PROVE  /\ Worker!MasterCutTypeOK /\ Worker!MasterKeepsWhatFits /\ Worker!ShotIsInTheVideo
         /\ Worker!TimelineIsTrue /\ Worker!SilentMeansInPlace
<1>0. CutTyped
  BY DEF CutInv
<1>1. PICK d \in Nat \ {0} : d = clip.duration
  BY <1>0, CutAssumption DEF CutTyped
<1>2. Worker!MasterCutTypeOK
  <2>1. clip.size \in Sizes /\ clip.duration \in Durations /\ clip.rate \in Rates
    BY <1>0 DEF CutTyped
  <2>2. Len(plan) \in 0 .. MaxSegments
    BY <1>0, CutAssumption DEF CutTyped
  <2>3. ASSUME made.stage # "none" PROVE made.gop > 0 /\ made.shot >= 0
    <3>1. made.gop = Worker!GopFromFps(clip.rate) /\ made.shot = Worker!ShotOf(clip.probed)
      BY <2>3 DEF CutInv, Cuts
    <3>2. PICK rate \in Nat : rate = IF clip.rate # Worker!Unknown THEN clip.rate ELSE 30
      BY <2>1, CutAssumption
    <3>3. PICK r \in Nat : r = Worker!Rounded(rate, 2)
      BY Roundings
    <3>4. Worker!GopFromFps(clip.rate) = Worker!Max({1, r})
      BY <3>2, <3>3 DEF Worker!GopFromFps
    <3>5. Worker!Max({1, r}) = IF 1 >= r THEN 1 ELSE r
      BY MaxOfTwo
    <3>6. Worker!ShotOf(clip.probed) \in Nat
      <4>1. PICK a \in Nat, p \in Nat : a = 2 * ShotAt /\ p = clip.probed
        BY <1>0, CutAssumption DEF CutTyped
      <4>2. Worker!Least(a, p) \in Nat
        BY LeastOfTwo
      <4> QED
        BY <4>1, <4>2 DEF Worker!ShotOf
    <3> QED
      BY <3>1, <3>4, <3>5, <3>6
  <2> QED
    BY <2>1, <2>2, <2>3 DEF Worker!MasterCutTypeOK
<1>3. Worker!MasterKeepsWhatFits
  <2> SUFFICES ASSUME made.stage # "none"
               PROVE  /\ Worker!Long(made.master) <= LongEdge
                      /\ Worker!Short(made.master) <= ShortEdge
                      /\ \/ made.master = clip.size
                         \/ Worker!Long(made.master) = LongEdge
                         \/ Worker!Short(made.master) = ShortEdge
    BY DEF Worker!MasterKeepsWhatFits
  <2>1. made.master = Worker!Master(clip.size)
    BY DEF CutInv, Cuts
  <2>2. clip.size \in (Nat \ {0}) \X (Nat \ {0})
    BY <1>0, CutAssumption DEF CutTyped
  <2>3. PICK w \in Nat \ {0}, h \in Nat \ {0} : clip.size = <<w, h>>
    BY <2>2
  <2>4. PICK x, y : Worker!Master(<<w, h>>) = <<x, y>>
    BY DEF Worker!Master, Worker!Decreased
  <2>5. made.master = <<x, y>>
    BY <2>1, <2>3, <2>4
  <2>6. /\ Worker!Long(<<x, y>>) <= LongEdge /\ Worker!Short(<<x, y>>) <= ShortEdge
        /\ \/ x = w /\ y = h
           \/ Worker!Long(<<x, y>>) = LongEdge
           \/ Worker!Short(<<x, y>>) = ShortEdge
    BY <2>4, MastersFit
  <2> QED
    BY <2>3, <2>5, <2>6
<1>4. Worker!ShotIsInTheVideo
  <2> SUFFICES ASSUME made.stage # "none" PROVE made.shot < 2 * clip.duration
    BY DEF Worker!ShotIsInTheVideo
  <2>1. made.shot = Worker!ShotOf(clip.probed)
    BY DEF CutInv, Cuts
  <2>2. clip.probed \in {0, d}
    BY <1>0, <1>1 DEF CutTyped
  <2>3. Worker!ShotOf(0) = 0
    BY DEF Worker!ShotOf, Worker!Unknown
  <2>4. Worker!ShotOf(d) <= d
    <3>1. PICK a \in Nat : a = 2 * ShotAt
      BY CutAssumption
    <3>2. Worker!Least(a, d) = IF a < d THEN a ELSE d
      BY LeastOfTwo
    <3> QED
      BY <3>1, <3>2 DEF Worker!ShotOf, Worker!Unknown
  <2>5. PICK s \in Nat : s = Worker!ShotOf(d)
    <3>1. PICK a \in Nat : a = 2 * ShotAt
      BY CutAssumption
    <3> QED
      BY <3>1, LeastOfTwo DEF Worker!ShotOf, Worker!Unknown
  <2> QED
    BY <1>1, <2>1, <2>2, <2>3, <2>4, <2>5
<1>5. Worker!TimelineIsTrue
  <2> SUFFICES ASSUME made.stage # "none", Worker!WellFormed, made.timeline # <<>>
               PROVE  /\ \A i \in DOMAIN made.timeline :
                           \A k \in 0 .. made.timeline[i].output[2] - made.timeline[i].output[1] - 1 :
                             made.shown[made.timeline[i].output[1] + k + 1]
                               = made.timeline[i].source[1] + k
                      /\ made.timeline[Len(made.timeline)].output[2] = Len(made.shown)
    BY DEF Worker!TimelineIsTrue
  <2>1. made \in Cuts /\ made.shown = Worker!Shown
    BY DEF CutInv, Cuts
  <2>2. CASE plan = <<>>
    <3>1. /\ Len(made.shown) = d /\ \A i \in 1 .. d : made.shown[i] = i - 1
      BY <1>0, <1>1, <2>1, <2>2, ShownFits
    <3>2. made.timeline = <<[source |-> <<0, d>>, output |-> <<0, d>>]>>
      BY <1>0, <1>1, <2>1, <2>2, TimelineOfNone
    <3>3. /\ DOMAIN made.timeline = {1} /\ Len(made.timeline) = 1
          /\ made.timeline[1].output[1] = 0 /\ made.timeline[1].output[2] = d
          /\ made.timeline[1].source[1] = 0
      BY <3>2
    <3>4. ASSUME NEW k \in 0 .. d - 0 - 1 PROVE made.shown[0 + k + 1] = 0 + k
      <4>1. 0 + k + 1 \in 1 .. d /\ (0 + k + 1) - 1 = 0 + k
        OBVIOUS
      <4> QED
        BY <3>1, <4>1
    <3> QED
      BY <3>1, <3>3, <3>4
  <2>3. CASE plan # <<>>
    <3>1. Len(plan) \in Nat \ {0}
      BY <1>0, <2>3 DEF CutTyped
    <3>2. made.shown = Worker!Concat[Len(plan)] /\ Placed(Len(plan))
      BY <1>0, <2>1, <2>3, <3>1, ShownFits, SegmentsArePlaced
    <3>3. /\ DOMAIN made.timeline = 1 .. Len(plan) /\ Len(made.timeline) = Len(plan)
          /\ \A i \in 1 .. Len(plan) :
              /\ made.timeline[i].source = <<plan[i].start, plan[i].end>>
              /\ made.timeline[i].output =
                   <<Worker!Cursor(plan)[i - 1],
                     Worker!Cursor(plan)[i - 1] + (plan[i].end - plan[i].start)>>
      BY <1>0, <2>1, <2>3, TimelineOfPlan
    <3>4. ASSUME NEW i \in 1 .. Len(plan)
          PROVE  /\ \A k \in 0 .. made.timeline[i].output[2] - made.timeline[i].output[1] - 1 :
                      made.shown[made.timeline[i].output[1] + k + 1] = made.timeline[i].source[1] + k
                 /\ made.timeline[i].output[2] = Worker!Cursor(plan)[i]
      <4>1. PICK s \in Worker!Segment : s = plan[i]
        BY <1>0 DEF CutTyped
      <4>2. s.start \in Nat /\ s.end \in Nat /\ s.start < s.end
            /\ Worker!LengthOf(s) = s.end - s.start
        <5>1. i \in DOMAIN plan
          BY <1>0 DEF CutTyped
        <5>2. s.start < s.end
          BY <4>1, <5>1 DEF Worker!WellFormed
        <5> QED
          BY <5>2, SegmentsAreTimes
      <4>3. PICK c \in Nat : c = Worker!Cursor(plan)[i - 1] /\ Worker!Cursor(plan)[i] = c + (s.end - s.start)
        <5>1. plan \in Seq(Worker!Segment) /\ i - 1 \in 0 .. Len(plan)
          BY <1>0, <3>1 DEF CutTyped
        <5> QED
          BY <4>1, <4>2, <5>1, Cursors
      <4>4. /\ made.timeline[i].source[1] = s.start
            /\ made.timeline[i].output[1] = c /\ made.timeline[i].output[2] = c + (s.end - s.start)
        BY <3>3, <4>1, <4>3
      <4>5. ASSUME NEW k \in 0 .. (c + (s.end - s.start)) - c - 1
            PROVE  made.shown[c + k + 1] = s.start + k
        <5>1. k \in 0 .. plan[i].end - plan[i].start - 1
          BY <4>1, <4>2, <4>3, <4>5
        <5> QED
          BY <3>2, <4>1, <4>3, <5>1 DEF Placed
      <4> QED
        BY <4>3, <4>4, <4>5
    <3>5. made.timeline[Len(made.timeline)].output[2] = Len(made.shown)
      BY <3>1, <3>2, <3>3, <3>4 DEF Placed
    <3> QED
      BY <3>3, <3>4, <3>5
  <2> QED
    BY <2>2, <2>3
<1>6. Worker!SilentMeansInPlace
  <2> SUFFICES ASSUME made.stage = "recorded", Worker!WellFormed, ~ warned,
                      NEW i \in DOMAIN made.shown
               PROVE  made.shown[i] = i - 1
    BY DEF Worker!SilentMeansInPlace
  <2>1. made \in Cuts /\ made.shown = Worker!Shown /\ ~ Worker!IsShifted(made.timeline)
    BY DEF CutInv, Cuts
  <2>2. CASE plan = <<>>
    <3>1. Len(made.shown) = d /\ made.shown \in Seq(Int) /\ \A j \in 1 .. d : made.shown[j] = j - 1
      BY <1>0, <1>1, <2>1, <2>2, ShownFits
    <3>2. i \in 1 .. d
      BY <3>1
    <3> QED
      BY <3>1, <3>2
  <2>3. CASE plan # <<>>
    <3>1. Len(plan) \in Nat \ {0}
      BY <1>0, <2>3 DEF CutTyped
    <3>2. made.shown = Worker!Concat[Len(plan)] /\ Placed(Len(plan))
      BY <1>0, <2>1, <2>3, <3>1, ShownFits, SegmentsArePlaced
    <3>3. /\ DOMAIN made.timeline = 1 .. Len(plan) /\ Len(made.timeline) = Len(plan)
          /\ made.timeline[1].source = <<plan[1].start, plan[1].end>>
          /\ made.timeline[1].output =
                   <<Worker!Cursor(plan)[0],
                     Worker!Cursor(plan)[0] + (plan[1].end - plan[1].start)>>
      <4>1. 1 \in 1 .. Len(plan) /\ 1 - 1 = 0
        BY <3>1
      <4> QED
        BY <1>0, <2>1, <2>3, <4>1, TimelineOfPlan
    <3>4. Len(plan) = 1 /\ made.timeline[1].source = made.timeline[1].output
      <4>1. PICK n \in Nat \ {0} : n = Len(plan)
        BY <3>1
      <4>2. /\ ~ (n > 1)
            /\ \A j \in 1 .. n : made.timeline[j].source = made.timeline[j].output
        BY <2>1, <3>3, <4>1 DEF Worker!IsShifted
      <4>3. n = 1 /\ 1 \in 1 .. n
        BY <4>2
      <4> QED
        BY <4>1, <4>2, <4>3
    <3>5. PICK s \in Worker!Segment : s = plan[1]
      <4>1. 1 \in 1 .. Len(plan)
        BY <3>4
      <4> QED
        BY <1>0, <4>1 DEF CutTyped
    <3>6. s.start \in Nat /\ s.end \in Nat /\ s.start < s.end
          /\ Worker!LengthOf(s) = s.end - s.start
      <4>1. 1 \in DOMAIN plan
        BY <1>0, <3>4 DEF CutTyped
      <4>2. s.start < s.end
        BY <3>5, <4>1 DEF Worker!WellFormed
      <4> QED
        BY <4>2, SegmentsAreTimes
    <3>7. Worker!Cursor(plan)[0] = 0 /\ Worker!Cursor(plan)[1] = s.end - s.start
      <4>1. plan \in Seq(Worker!Segment) /\ 1 - 1 = 0 /\ 1 \in 1 .. Len(plan)
        BY <1>0, <3>4 DEF CutTyped
      <4>2. Worker!Cursor(plan)[0] = 0
        BY <4>1, Cursors
      <4>3. Worker!Cursor(plan)[1] = Worker!Cursor(plan)[0] + Worker!LengthOf(plan[1])
        BY <4>1, Cursors
      <4> QED
        BY <3>5, <3>6, <4>2, <4>3
    <3>8. s.start = 0
      BY <3>3, <3>4, <3>5, <3>7
    <3>9. Len(made.shown) = s.end /\ made.shown \in Seq(Int)
      <4>1. Len(Worker!Concat[1]) = Worker!Cursor(plan)[1]
        BY <3>2, <3>4 DEF Placed
      <4> QED
        BY <1>0, <2>1, <3>2, <3>4, <3>6, <3>7, <3>8, <4>1, ShownFits
    <3>10. i \in 1 .. s.end /\ i - 1 \in 0 .. s.end - 0 - 1 /\ 0 + (i - 1) + 1 = i
      <4>1. i \in 1 .. s.end
        BY <3>9
      <4>2. PICK e \in Nat : e = s.end
        BY <3>6
      <4> QED
        BY <4>1, <4>2
    <3>11. made.shown[0 + (i - 1) + 1] = 0 + (i - 1)
      <4>1. \A k \in 0 .. plan[1].end - plan[1].start - 1 :
              made.shown[Worker!Cursor(plan)[0] + k + 1] = plan[1].start + k
        <5>1. 1 \in 1 .. Len(plan) /\ 1 - 1 = 0
          BY <3>4
        <5> QED
          BY <3>2, <5>1 DEF Placed
      <4> QED
        BY <3>5, <3>7, <3>8, <3>10, <4>1
    <3> QED
      BY <3>10, <3>11
  <2> QED
    BY <2>2, <2>3
<1> QED
  BY <1>2, <1>3, <1>4, <1>5, <1>6

-------------------------------------------------------------------------------
(* The parts together *)

\* A step of one part leaves the others where they are.
LEMMA PartsStep ==
  ASSUME Next \/ UNCHANGED vars
  PROVE  /\ Saved!BackupNext \/ UNCHANGED backupVars
         /\ Gate!RoleGateNext \/ UNCHANGED gateVars
         /\ Worker!MediaJobsNext \/ UNCHANGED mediaVars
         /\ Worker!MasterCutNext \/ UNCHANGED cutVars
<1>1. CASE UNCHANGED vars
  BY <1>1 DEF vars
<1>2. CASE Next
  <2>1. \A f \in Focus : Only(f) => \A g \in Focus \ {f} : Still(g)
    BY DEF Only
  <2>2. /\ Still("backup") => UNCHANGED backupVars
        /\ Still("gate") => UNCHANGED gateVars
        /\ Still("media") => UNCHANGED mediaVars
        /\ Still("cut") => UNCHANGED cutVars
    BY DEF Still
  <2>3. Saved!BackupNext \/ Still("backup")
    BY <1>2, <2>1 DEF Next, Focus
  <2>4. Gate!RoleGateNext \/ Still("gate")
    BY <1>2, <2>1 DEF Next, Focus
  <2>5. Worker!MediaJobsNext \/ Still("media")
    BY <1>2, <2>1 DEF Next, Focus
  <2>6. Worker!MasterCutNext \/ Still("cut")
    BY <1>2, <2>1 DEF Next, Focus
  <2> QED
    BY <2>2, <2>3, <2>4, <2>5, <2>6
<1> QED
  BY <1>1, <1>2

\* SafeguardsHold: what the backups keep can be restored and stays, and the gate of the
\* controllers passes no open route (backup.sh, backup-nas.sh, controller-role-gate.mjs).
THEOREM SafeguardsStand == Spec => []SafeguardsHold
<1>1. Init => SavedInv /\ GateInv
  BY SavedBegins, GateBegins DEF Init
<1>2. SavedInv /\ GateInv /\ [Next]_vars => (SavedInv /\ GateInv)'
  BY PartsStep, SavedSteps, GateSteps
<1>3. SavedInv /\ GateInv => SafeguardsHold
  BY SavedHolds, GateHolds DEF SafeguardsHold
<1> QED
  BY <1>1, <1>2, <1>3, PTL DEF Spec

\* MediaIsWhole: what a job promised is in the bucket, whole and with its checksum, no hang
\* goes unwatched, and the cut shows each second where its timeline says (media-worker).
THEOREM MediaStaysWhole == Spec => []MediaIsWhole
<1>1. Init => JobsInv /\ CutInv
  BY JobsBegin, CutBegins DEF Init
<1>2. JobsInv /\ CutInv /\ [Next]_vars => (JobsInv /\ CutInv)'
  BY PartsStep, JobsSteps, CutSteps
<1>3. JobsInv /\ CutInv => MediaIsWhole
  BY JobsHold, CutHolds DEF MediaIsWhole
<1> QED
  BY <1>1, <1>2, <1>3, PTL DEF Spec
===============================================================================
