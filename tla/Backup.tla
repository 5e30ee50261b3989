--------------------------------- MODULE Backup ---------------------------------
(***************************************************************************)
(* The nightly backups (infra/backup): pg-dump-to-r2.sh sends a dump of    *)
(* the database to a bucket, media-to-nas.sh copies MinIO's files and      *)
(* another dump to a NAS, while the system works on.  pg_dump, rsync, the  *)
(* bucket and the NAS are external.  The scripts share nothing they write, *)
(* so one runs at a time here; the rows matter to the second only.         *)
(***************************************************************************)
EXTENDS Naturals, FiniteSets

CONSTANTS
  Media,                 \* media objects, each of one content
  Retention,             \* BACKUP_RETENTION_DAYS, which may not be 0
  MaxDays,               \* bound on the days
  MaxNights              \* bound on the runs of the two scripts

VARIABLES
  store,                 \* the objects of MinIO
  gone,                  \* the objects that were deleted there
  rows,                  \* the objects the database knows
  today,
  remote,                \* the run of pg-dump-to-r2.sh: [pc, kind, sum]
  bucket,                \* its dumps: [night, day, kind, sum]
  nas,                   \* the run of media-to-nas.sh: [pc, before]
  copy,                  \* the objects on the NAS
  dumps,                 \* the dumps on the NAS: [night, day, kind, rows]
  nights,                \* runs of each script so far
  had                    \* what the scripts have had once: whole dumps, thin ones, objects

backupVars == <<store, gone, rows, today, remote, bucket, nas, copy, dumps, nights, had>>
system == <<store, gone, rows>>
onRemote == <<remote, bucket>>
onNas == <<nas, copy, dumps>>

\* A dump is whole, cut short, or of a database without the tables.
Kind == {"whole", "cut", "thin"}
Idle == [pc |-> "idle", kind |-> "whole", sum |-> FALSE]
Asleep == [pc |-> "idle", before |-> {}]

BackupTypeOK ==
  /\ store \subseteq Media /\ gone \subseteq Media /\ rows \subseteq Media
  /\ copy \subseteq Media /\ today \in 0 .. MaxDays
  /\ remote.pc \in {"idle", "dump", "sum", "put", "putSum", "prune"}
  /\ nas.pc \in {"idle", "sync", "dump", "prune", "verify", "done"}
  /\ \A d \in bucket \cup dumps : d.day \in 0 .. today /\ d.kind \in Kind
  /\ nights.remote \in 0 .. MaxNights /\ nights.nas \in 0 .. MaxNights

BackupInit ==
  /\ store = {} /\ gone = {} /\ rows = {} /\ today = 0
  /\ remote = Idle /\ bucket = {} /\ nas = Asleep /\ copy = {} /\ dumps = {}
  /\ nights = [remote |-> 0, nas |-> 0]
  /\ had = [remote |-> FALSE, nas |-> FALSE, thin |-> FALSE, copied |-> {}]

-------------------------------------------------------------------------------
(* The system that is backed up *)

\* A content's object is stored, then its row; an object may be deleted by mistake.
Work ==
  /\ remote.pc = "idle"
  /\ \/ \E m \in Media \ (store \cup gone) : store' = store \cup {m} /\ UNCHANGED <<gone, rows>>
     \/ \E m \in store \ rows : rows' = rows \cup {m} /\ UNCHANGED <<store, gone>>
     \/ \E m \in store : store' = store \ {m} /\ gone' = gone \cup {m} /\ UNCHANGED rows
  /\ UNCHANGED <<today, onRemote, onNas, nights, had>>

\* A run ends within its day.
Day ==
  /\ remote.pc = "idle" /\ nas.pc \in {"idle", "done"}
  /\ today < MaxDays /\ today' = today + 1
  /\ UNCHANGED <<system, onRemote, onNas, nights, had>>

Older(d) == today - d.day > Retention

-------------------------------------------------------------------------------
(* pg-dump-to-r2.sh, one at a time (flock) *)

AtRemote(pc) == remote.pc = pc /\ UNCHANGED <<system, today, onNas>>
GoRemote(pc) == remote' = [remote EXCEPT !.pc = pc]
NoNight == UNCHANGED <<nights, had>>

StartRemote ==
  /\ AtRemote("idle") /\ nas.pc \in {"idle", "done"} /\ nights.remote + nights.nas < MaxNights
  /\ nights' = [nights EXCEPT !.remote = @ + 1] /\ GoRemote("dump")
  /\ UNCHANGED <<bucket, had>>

\* die, a command that set -e does not forgive, or the end of the process; the temporary
\* directory goes in any case but the last.
FailRemote ==
  /\ remote.pc # "idle" /\ remote' = Idle
  /\ UNCHANGED <<system, today, bucket, onNas>> /\ NoNight

\* The faulty version for the mutant checks: the end of the pipe hides that pg_dump broke off.
DumpRemote_IgnoresExit ==
  /\ AtRemote("dump")
  /\ \E k \in Kind : remote' = [remote EXCEPT !.pc = "sum", !.kind = k]
  /\ UNCHANGED bucket /\ NoNight

\* dump_database: only a pg_dump that ended well goes on.
DumpRemote ==
  /\ AtRemote("dump")
  /\ \E k \in {"whole", "thin"} : remote' = [remote EXCEPT !.pc = "sum", !.kind = k]
  /\ UNCHANGED bucket /\ NoNight

\* The checksum, if there is a tool for it, and s3_ensure_bucket.
ChecksumRemote ==
  /\ AtRemote("sum")
  /\ \E s \in BOOLEAN : remote' = [remote EXCEPT !.pc = "put", !.sum = s]
  /\ UNCHANGED bucket /\ NoNight

\* s3_put of the dump ...
PutDump ==
  /\ AtRemote("put")
  /\ bucket' = bucket \cup
       {[night |-> nights.remote, day |-> today, kind |-> remote.kind, sum |-> FALSE]}
  /\ had' = [had EXCEPT !.remote = @ \/ remote.kind = "whole",
                         !.thin = @ \/ remote.kind = "thin"]
  /\ GoRemote(IF remote.sum THEN "putSum" ELSE "prune") /\ UNCHANGED nights

\* ... and of its checksum, without which it goes on as well.
PutSum ==
  /\ AtRemote("putSum") /\ GoRemote("prune") /\ NoNight
  /\ \/ bucket' = {IF d.night = nights.remote THEN [d EXCEPT !.sum = TRUE] ELSE d : d \in bucket}
     \/ UNCHANGED bucket

\* s3_prune_old, which may fail in part and is left out with the aws client.
PruneRemote ==
  /\ AtRemote("prune") /\ remote' = Idle /\ NoNight
  /\ \E kept \in SUBSET {d \in bucket : Older(d)} :
       bucket' = {d \in bucket : ~Older(d)} \cup kept

-------------------------------------------------------------------------------
(* media-to-nas.sh *)

AtNas(pc) == nas.pc = pc /\ UNCHANGED <<system, today, onRemote>>
GoNas(pc) == nas' = [nas EXCEPT !.pc = pc]
Dump(k) == [night |-> nights.nas, day |-> today, kind |-> k, rows |-> rows]

\* require_mount
StartNas ==
  /\ nas.pc \in {"idle", "done"} /\ remote.pc = "idle" /\ nights.remote + nights.nas < MaxNights
  /\ nights' = [nights EXCEPT !.nas = @ + 1]
  /\ nas' = [pc |-> "sync", before |-> store]
  /\ UNCHANGED <<system, today, onRemote, copy, dumps, had>>

\* The run ends; pg_dump may have been interrupted, whose file set -e leaves behind.
FailNas ==
  /\ nas.pc \notin {"idle", "done"} /\ nas' = Asleep
  /\ \/ UNCHANGED dumps
     \/ nas.pc = "dump" /\ dumps' = dumps \cup {Dump("cut")}
  /\ UNCHANGED <<system, today, onRemote, copy>> /\ NoNight

\* What rsync has when it ends well.
SyncAll == copy' = copy \cup store

\* sync_media: rsync copies some objects and ends the run, or all.
SyncMedia ==
  /\ AtNas("sync") /\ NoNight /\ UNCHANGED dumps
  /\ \/ SyncAll /\ GoNas("dump")
     \/ \E some \in SUBSET store : copy' = copy \cup some /\ nas' = Asleep

\* dump_pg
DumpNas ==
  /\ AtNas("dump") /\ GoNas("prune")
  /\ \E k \in {"whole", "thin"} :
       /\ dumps' = dumps \cup {Dump(k)}
       /\ had' = [had EXCEPT !.nas = @ \/ k = "whole", !.thin = @ \/ k = "thin"]
  /\ UNCHANGED <<copy, nights>>

\* prune_pg
PruneNas ==
  /\ AtNas("prune") /\ GoNas("verify") /\ NoNight
  /\ dumps' = {d \in dumps : ~Older(d)} /\ UNCHANGED copy

Newest == CHOOSE d \in dumps : \A e \in dumps : e.night <= d.night

\* verify_latest: a dump without tables is refused, one that gzip has closed is not.
VerifyNas ==
  /\ AtNas("verify") /\ dumps # {}
  /\ IF Newest.kind = "thin" THEN nas' = Asleep /\ UNCHANGED had
     ELSE GoNas("done") /\ had' = [had EXCEPT !.copied = @ \cup copy]
  /\ UNCHANGED <<copy, dumps, nights>>

BackupNext ==
  \/ Work \/ Day
  \/ StartRemote \/ FailRemote \/ DumpRemote \/ ChecksumRemote
  \/ PutDump \/ PutSum \/ PruneRemote
  \/ StartNas \/ FailNas \/ SyncMedia \/ DumpNas \/ PruneNas \/ VerifyNas

-------------------------------------------------------------------------------
(* Properties *)

\* No dump that broke off reaches the bucket, where nothing verifies it.
BucketIsWhole == \A d \in bucket : d.kind # "cut"

\* A good dump that was saved once is not lost to the retention before another one is there,
\* however many nights fail (the order of main), unless the dump that followed it was of an
\* empty database, which is noticed after the old ones are gone.
LastBackupStays ==
  ~had.thin =>
    /\ had.nas => \E d \in dumps : d.kind = "whole"
    /\ had.remote => \E d \in bucket : d.kind = "whole"

\* A run that reports success has left a dump that can be restored and the media it speaks
\* of, but for what came during the run and what was deleted meanwhile.
SuccessIsRestorable ==
  nas.pc = "done" =>
    Newest.kind = "whole" /\ Newest.rows \cap nas.before \subseteq copy \cup gone

\* What a successful run had copied is still there when the original is deleted.
DeletionIsNotCopied == had.copied \subseteq copy
===============================================================================
