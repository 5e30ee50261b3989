------------------------------ MODULE MediaWorker ------------------------------
(***************************************************************************)
(* One content's jobs in the media-worker (services/media-worker): a job   *)
(* is taken by a slot, works in a directory of its own, encodes under a    *)
(* watchdog, measures, uploads and reports.  BullMQ, the object storage    *)
(* and ffmpeg are external: a lock may be lost while its holder works on,  *)
(* an upload may be stored although it failed, ffmpeg may hang in silence. *)
(*                                                                         *)
(* And what auto_edit makes of a recording (auto-edit, ffmpeg, profiles):  *)
(* the segments of its plan one after the other, in a box that is the same *)
(* for both orientations, then a rendition of that master; and what the    *)
(* api makes of the timeline that comes with it.  Sizes are in units of    *)
(* 120 pixels, as displayed; instants are whole seconds.                   *)
(***************************************************************************)
EXTENDS Integers, Sequences, FiniteSetsExt

CONSTANTS
  Slot,                  \* the places of MEDIA_WORKER_CONCURRENCY
  Attempts,              \* MEDIA_JOB_ATTEMPTS
  Timeout,               \* periods of silence the watchdog allows
  MaxTroubles,           \* bound on failures, hangs, lost locks, stops and kills
  Sizes,                 \* sizes of recordings: <<width, height>>
  Durations,             \* their durations
  Rates,                 \* frame rates, 0 for one ffprobe does not tell
  MaxSegments,           \* bound on the segments of a plan
  LongEdge, ShortEdge,   \* MEDIA_MASTER_LONG_EDGE, MEDIA_MASTER_SHORT_EDGE
  RenditionHeight,       \* MEDIA_RENDITION_HEIGHT
  ShotAt                 \* MEDIA_THUMBNAIL_AT_SEC

VARIABLES
  process,               \* the worker: "up", "closing" or "down"
  queue,                 \* job -> [state, made, stalls, take, result]
  run,                   \* slot -> the job it works on, and how far
  objects,               \* the bucket: key -> the bytes there
  disk,                  \* the takes whose directory exists
  takes,                 \* takes so far
  killed,                \* the worker was killed once
  troubles,
  clip,                  \* the recording: [size, duration, probed, rate]
  plan,                  \* the segments of the plan: <<start, end>>
  made,                  \* what the worker has made of it
  warned                 \* the api's log says that the captions move

mediaVars == <<process, queue, run, objects, disk, takes, killed, troubles>>

Job == {"transcode", "thumbnail", "auto_edit", "preview"}
Key == {"rendition", "thumbnail", "master", "preview"}

\* The processors, by the files they encode and upload, in order.
Transcode == <<"rendition">>
Thumbnail == <<"thumbnail">>
AutoEdit == <<"master", "rendition">>
Preview == <<"preview">>
Outputs(j) ==
  CASE j = "transcode" -> Transcode
    [] j = "thumbnail" -> Thumbnail
    [] j = "auto_edit" -> AutoEdit
    [] j = "preview" -> Preview

\* What a take's encoding of an output left in its file.
Bytes(r, k) == [take |-> r.take, of |-> k, whole |-> k \in r.whole]
Nothing == [take |-> 0, of |-> "none", whole |-> FALSE]
NoSums == [k \in Key |-> Nothing]
Idle ==
  [job |-> "none", take |-> 0, step |-> "idle", n |-> 1, proc |-> "none", timer |-> 0,
   whole |-> {}, sums |-> NoSums]
Off == Timeout + 1       \* no timer runs
Fresh == [state |-> "absent", made |-> 0, stalls |-> 0, take |-> 0, result |-> NoSums]

MediaJobsTypeOK ==
  /\ process \in {"up", "closing", "down"}
  /\ \A j \in Job :
       /\ queue[j].state \in {"absent", "waiting", "active", "completed", "failed"}
       /\ queue[j].made \in 0 .. Attempts /\ queue[j].stalls \in 0 .. 1
  /\ \A s \in Slot :
       /\ run[s].step \in {"idle", "download", "encode", "measure", "upload", "report"}
       /\ run[s].proc \in {"none", "running", "hung"} /\ run[s].timer \in 0 .. Off
       /\ run[s].step # "idle" => run[s].n \in 1 .. Len(Outputs(run[s].job))
  /\ disk \subseteq 1 .. takes

MediaJobsInit ==
  /\ process = "up"
  /\ queue = [j \in Job |-> IF j = "transcode" THEN [Fresh EXCEPT !.state = "waiting"] ELSE Fresh]
  /\ run = [s \in Slot |-> Idle] /\ objects = NoSums
  /\ disk = {} /\ takes = 0 /\ killed = FALSE /\ troubles = 0

-------------------------------------------------------------------------------
(* The queue *)

\* The api asks for the next jobs when a result has come.
After(j) == IF j = "preview" THEN "auto_edit" ELSE "transcode"
Enqueue(j) ==
  /\ queue[j].state = "absent" /\ queue[After(j)].state = "completed"
  /\ queue' = [queue EXCEPT ![j].state = "waiting"]
  /\ UNCHANGED <<process, run, objects, disk, takes, killed, troubles>>

\* A free slot takes a job and makes its directory.
Take(s, j) ==
  /\ process = "up" /\ run[s].step = "idle" /\ queue[j].state = "waiting"
  /\ takes' = takes + 1
  /\ queue' = [queue EXCEPT ![j].state = "active", ![j].take = takes']
  /\ run' = [run EXCEPT ![s] = [Idle EXCEPT !.job = j, !.take = takes', !.step = "download"]]
  /\ disk' = disk \cup {takes'}
  /\ UNCHANGED <<process, objects, killed, troubles>>

Holds(r) == queue[r.job].state = "active" /\ queue[r.job].take = r.take

\* A job's lock runs out: it waits again, once, while its holder may work on.
LockLost(j) ==
  /\ queue[j].state = "active"
  /\ \/ \A s \in Slot : run[s].take # queue[j].take
     \/ troubles < MaxTroubles
  /\ troubles' = IF \E s \in Slot : run[s].take = queue[j].take THEN troubles + 1 ELSE troubles
  /\ queue' =
       [queue EXCEPT ![j].state = IF queue[j].stalls = 0 THEN "waiting" ELSE "failed",
                     ![j].stalls = 1, ![j].take = 0]
  /\ UNCHANGED <<process, run, objects, disk, takes, killed>>

-------------------------------------------------------------------------------
(* A run.  However it ends, its directory goes. *)

Cleaned(r, well) == disk \ {r.take}

\* A run that throws: another attempt, or the job has failed.
Throw(s) ==
  LET r == run[s] IN
    /\ run' = [run EXCEPT ![s] = Idle]
    /\ disk' = Cleaned(r, FALSE)
    /\ queue' =
         IF ~Holds(r) THEN queue
         ELSE [queue EXCEPT
                 ![r.job].made = @ + 1, ![r.job].take = 0,
                 ![r.job].state = IF @ = "active" /\ queue[r.job].made + 1 < Attempts
                                  THEN "waiting" ELSE "failed"]
    /\ UNCHANGED <<process, takes, killed>>

\* ffmpeg starts, watched.
Begun(r) == [r EXCEPT !.step = "encode", !.proc = "running", !.timer = Timeout]

Settled(r) == [r EXCEPT !.proc = "none", !.timer = 0]

Fail(s) == troubles < MaxTroubles /\ troubles' = troubles + 1 /\ Throw(s)
StaysUp == UNCHANGED <<process, takes, killed, troubles>>

\* The source arrives and is probed, or not.
Download(s) ==
  /\ run[s].step = "download" /\ UNCHANGED objects
  /\ \/ Fail(s)
     \/ run' = [run EXCEPT ![s] = Begun(run[s])] /\ UNCHANGED <<queue, disk>> /\ StaysUp

\* ffmpeg ends, or ends with an error.
Encoded(s) ==
  /\ run[s].proc = "running" /\ UNCHANGED <<queue, objects, disk>> /\ StaysUp
  /\ run' = [run EXCEPT ![s] =
               [Settled(run[s]) EXCEPT !.step = "measure",
                                       !.whole = @ \cup {Outputs(run[s].job)[run[s].n]}]]

Erred(s) == run[s].proc = "running" /\ Fail(s) /\ UNCHANGED objects

Hang(s) ==
  /\ run[s].proc = "running" /\ troubles < MaxTroubles
  /\ troubles' = troubles + 1 /\ run' = [run EXCEPT ![s].proc = "hung"]
  /\ UNCHANGED <<process, queue, objects, disk, takes, killed>>

\* A signal of progress arms the watchdog again.
Signalled(left) == Timeout

\* A period passes: a working ffmpeg signals, except that a thumbnail is one frame, soon done.
Period(s) ==
  LET r == run[s] IN
    /\ r.step = "encode" /\ r.timer \in 1 .. Timeout
    /\ r.proc = "running" /\ r.job = "thumbnail" => r.timer > 1
    /\ run' = [run EXCEPT ![s].timer =
                 IF r.proc = "running" /\ r.job # "thumbnail" THEN Signalled(@ - 1) ELSE @ - 1]
    /\ UNCHANGED <<queue, objects, disk>> /\ StaysUp

\* Silence for too long: ffmpeg is killed and the run throws.
Watchdog(s) ==
  run[s].step = "encode" /\ run[s].timer = 0 /\ Throw(s) /\ UNCHANGED <<objects, troubles>>

\* Size and checksum of an output, then the next output or the uploads.
Sum(r, k) == Bytes(r, k)

Measure(s) ==
  LET r == run[s]
      k == Outputs(r.job)[r.n]
      measured == [r EXCEPT !.sums[k] = Sum(r, k)]
  IN /\ r.step = "measure" /\ UNCHANGED objects
     /\ \/ Fail(s)
        \/ /\ run' = [run EXCEPT ![s] =
                        IF r.n < Len(Outputs(r.job)) THEN Begun([measured EXCEPT !.n = @ + 1])
                        ELSE [measured EXCEPT !.step = "upload", !.n = 1]]
           /\ UNCHANGED <<queue, disk>> /\ StaysUp

\* An output is put in the bucket; a failed upload may have been stored.
Uploaded(r) ==
  IF r.n < Len(Outputs(r.job)) THEN [r EXCEPT !.n = @ + 1] ELSE [r EXCEPT !.step = "report"]

Upload(s) ==
  LET r == run[s]
      k == Outputs(r.job)[r.n]
      put == [objects EXCEPT ![k] = Bytes(r, k)]
  IN /\ r.step = "upload"
     /\ \/ Fail(s) /\ objects' \in {objects, put}
        \/ /\ objects' = put /\ run' = [run EXCEPT ![s] = Uploaded(r)]
           /\ UNCHANGED <<queue, disk>> /\ StaysUp

\* The result is the job's, if the job is still the run's.
Report(s) ==
  LET r == run[s] IN
    /\ r.step = "report" /\ UNCHANGED objects
    /\ \/ Fail(s)
       \/ /\ run' = [run EXCEPT ![s] = Idle] /\ disk' = Cleaned(r, TRUE)
          /\ queue' = IF ~Holds(r) THEN queue
                      ELSE [queue EXCEPT ![r.job].state = "completed", ![r.job].take = 0,
                                         ![r.job].result = r.sums]
          /\ StaysUp

-------------------------------------------------------------------------------
(* The process *)

Shutdown ==
  /\ process = "up" /\ troubles < MaxTroubles
  /\ process' = "closing" /\ troubles' = troubles + 1
  /\ UNCHANGED <<queue, run, objects, disk, takes, killed>>

\* Closing waits for the runs in the slots.
Closed == \A s \in Slot : run[s].step = "idle"

Exit ==
  /\ process = "closing" /\ Closed
  /\ process' = "down" /\ run' = [s \in Slot |-> Idle]
  /\ UNCHANGED <<queue, objects, disk, takes, killed, troubles>>

Kill ==
  /\ process # "down" /\ troubles < MaxTroubles
  /\ process' = "down" /\ run' = [s \in Slot |-> Idle]
  /\ killed' = TRUE /\ troubles' = troubles + 1
  /\ UNCHANGED <<queue, objects, disk, takes>>

Start ==
  /\ process = "down" /\ process' = "up"
  /\ UNCHANGED <<queue, run, objects, disk, takes, killed, troubles>>

MediaJobsNext ==
  \/ \E j \in Job : Enqueue(j) \/ LockLost(j) \/ \E s \in Slot : Take(s, j)
  \/ \E s \in Slot :
       \/ Download(s) \/ Encoded(s) \/ Erred(s) \/ Hang(s) \/ Period(s) \/ Watchdog(s)
       \/ Measure(s) \/ Upload(s) \/ Report(s)
  \/ Shutdown \/ Exit \/ Kill \/ Start

-------------------------------------------------------------------------------
(* The cut *)

cutVars == <<clip, plan, made, warned>>

Unknown == 0             \* ffprobe tells no duration, or no frame rate
NotYet == [stage |-> "none"]

\* A segment may be empty, reversed, or run past the end of the recording.
Segment == [start : 0 .. Max(Durations), end : 0 .. Max(Durations) + 1]

MasterCutTypeOK ==
  /\ clip.size \in Sizes /\ clip.duration \in Durations /\ clip.rate \in Rates
  /\ Len(plan) \in 0 .. MaxSegments
  /\ made.stage # "none" => made.gop > 0 /\ made.shot >= 0

MasterCutInit ==
  /\ \E size \in Sizes, d \in Durations, rate \in Rates, tells \in BOOLEAN :
       clip = [size |-> size, duration |-> d, probed |-> IF tells THEN d ELSE Unknown,
               rate |-> rate]
  /\ plan \in UNION {[1 .. n -> Segment] : n \in 0 .. MaxSegments}
  /\ made = NotYet /\ warned = FALSE

-------------------------------------------------------------------------------
(* The cut: sizes *)

Least(a, b) == IF a < b THEN a ELSE b
Rounded(a, b) == (2 * a + b) \div (2 * b)

\* A faulty version for the mutant checks: the box of landscape recordings for all.
Box_LandscapeOnly(w, h) == <<Least(w, LongEdge), Least(h, ShortEdge)>>

\* The box of a recording: its long edge and its short one are bounded, never enlarged.
Box(w, h) ==
  IF w >= h THEN <<Least(w, LongEdge), Least(h, ShortEdge)>>
  ELSE <<Least(w, ShortEdge), Least(h, LongEdge)>>

\* ffmpeg: force_original_aspect_ratio=decrease.
Decreased(w, h, box) ==
  <<Least(box[1], Rounded(box[2] * w, h)), Least(box[2], Rounded(box[1] * h, w))>>

Master(size) == Decreased(size[1], size[2], Box(size[1], size[2]))

\* The rendition bounds the height alone, whatever the orientation (scale=-2:min(ih,H)).
Rendition(size) ==
  LET h == Least(size[2], RenditionHeight) IN <<Rounded(size[1] * h, size[2]), h>>

\* A key frame every half second, of 30 frames when the rate is not known.
GopFromFps(rate) == Max({1, Rounded(IF rate # Unknown THEN rate ELSE 30, 2)})

\* The instant of the thumbnail, in half seconds: never past the middle.
ShotOf(probed) == IF probed # Unknown THEN Least(2 * ShotAt, probed) ELSE 0

-------------------------------------------------------------------------------
(* The cut: time *)

\* ffmpeg: the seconds of the recording that a segment keeps, and the first n segments.
Trimmed(s) == [i \in 1 .. Max({0, Least(s.end, clip.duration) - s.start}) |-> s.start + i - 1]
Concat[n \in 0 .. Len(plan)] == IF n = 0 THEN <<>> ELSE Concat[n - 1] \o Trimmed(plan[n])

\* What the master shows, one second after the other.
Shown ==
  IF plan = <<>> THEN [i \in 1 .. clip.duration |-> i - 1] ELSE Concat[Len(plan)]

Mapping(from, to, at) == [source |-> <<from, to>>, output |-> <<at, at + Max({0, to - from})>>]

LengthOf(s) == Max({0, s.end - s.start})

\* Where the master is when the first n segments are in it.
Cursor(segments) ==
  LET at[n \in 0 .. Len(segments)] == IF n = 0 THEN 0 ELSE at[n - 1] + LengthOf(segments[n])
  IN at

BuildTimeline(segments, source, output) ==
  IF segments # <<>>
  THEN [i \in DOMAIN segments |->
          Mapping(segments[i].start, segments[i].end, Cursor(segments)[i - 1])]
  ELSE LET duration == IF output # Unknown THEN output ELSE source IN
       IF duration = Unknown THEN <<>> ELSE <<Mapping(0, duration, 0)>>

\* The job, when ffmpeg has something to put in the master.
Edit ==
  /\ made.stage = "none" /\ Shown # <<>>
  /\ \E tells \in BOOLEAN :
       made' = [stage |-> "edited",
                master |-> Master(clip.size), rendition |-> Rendition(Master(clip.size)),
                gop |-> GopFromFps(clip.rate), shot |-> ShotOf(clip.probed),
                shown |-> Shown,
                timeline |-> BuildTimeline(plan, clip.probed,
                                           IF tells THEN Len(Shown) ELSE Unknown)]
  /\ UNCHANGED <<clip, plan, warned>>

\* The api records the result, and warns of a timeline that is not the recording's.
IsShifted(timeline) ==
  Len(timeline) > 1 \/ \E i \in DOMAIN timeline : timeline[i].source # timeline[i].output

Record ==
  /\ made.stage = "edited" /\ made' = [made EXCEPT !.stage = "recorded"]
  /\ warned' = IsShifted(made.timeline) /\ UNCHANGED <<clip, plan>>

MasterCutNext == Edit \/ Record

-------------------------------------------------------------------------------
(* Properties of the jobs *)

\* What is in the bucket was encoded to its end, and what a completed job promised
\* is there (api: the assets of a result are recorded without a look at the bucket).
PromisedIsStored ==
  /\ \A k \in Key : objects[k] # Nothing => objects[k].whole
  /\ \A j \in Job : queue[j].state = "completed" =>
       \A i \in 1 .. Len(Outputs(j)) : objects[Outputs(j)[i]] # Nothing

\* A result's size and checksum are those of the object (auto-edit.ts:28), unless a job
\* that writes there lost its lock, or auto_edit has begun to replace the rendition.
ChecksumMatches ==
  \A j \in Job : queue[j].state = "completed" =>
    \A i \in 1 .. Len(Outputs(j)) : LET k == Outputs(j)[i] IN
      \/ objects[k] = queue[j].result[k]
      \/ j = "transcode" /\ queue["auto_edit"].state # "absent"
      \/ \E w \in Job : queue[w].stalls > 0 /\ \E m \in 1 .. Len(Outputs(w)) : Outputs(w)[m] = k

\* Every ffmpeg is watched from its first moment: a silent one is killed in the end
\* (ffmpeg.ts:58, a hang would hold its slot for ever).
HangIsWatched == \A s \in Slot : run[s].step = "encode" => run[s].timer # Off

\* The watchdog never kills an ffmpeg that signals progress (ffmpeg.ts:57).
HealthyIsNotKilled == \A s \in Slot : run[s].proc = "running" => run[s].timer > 0

\* A run leaves no directory behind, however it ends (workspace.ts), unless it was killed.
NothingLeftBehind ==
  process # "down" /\ ~killed => disk = {run[s].take : s \in Slot} \ {0}

\* A worker that was asked to stop has finished what it had begun (index.ts:31).
StopFinishesItsJobs ==
  process = "down" /\ ~killed => \A j \in Job : queue[j].state # "active"

-------------------------------------------------------------------------------
(* Properties of the cut *)

Long(size) == Max({size[1], size[2]})
Short(size) == Min({size[1], size[2]})

\* A recording that fits the master's format keeps its size in either orientation, a larger
\* one is only made as small as it must be (ffmpeg.ts:214, the upright recordings of #240).
MasterKeepsWhatFits ==
  made.stage # "none" =>
    /\ Long(made.master) <= LongEdge /\ Short(made.master) <= ShortEdge
    /\ \/ made.master = clip.size
       \/ Long(made.master) = LongEdge \/ Short(made.master) = ShortEdge

\* The instant of the thumbnail is in the video (thumbnail.ts:30).
ShotIsInTheVideo == made.stage # "none" => made.shot < 2 * clip.duration

\* A plan whose segments lie in the recording, and are not empty.
WellFormed == \A i \in DOMAIN plan : plan[i].start < plan[i].end /\ plan[i].end <= clip.duration

\* The timeline tells of every second of the master where it was in the recording, and
\* nothing else (auto-edit.ts:144, api: the captions are to be moved along it).
TimelineIsTrue ==
  made.stage # "none" /\ WellFormed /\ made.timeline # <<>> =>
    /\ \A i \in DOMAIN made.timeline : LET m == made.timeline[i] IN
         \A k \in 0 .. m.output[2] - m.output[1] - 1 :
           made.shown[m.output[1] + k + 1] = m.source[1] + k
    /\ made.timeline[Len(made.timeline)].output[2] = Len(made.shown)

\* Without a warning, every caption that is shown is shown at its own second
\* (pipeline.service.ts:690).
SilentMeansInPlace ==
  made.stage = "recorded" /\ WellFormed /\ ~warned =>
    \A i \in DOMAIN made.shown : made.shown[i] = i - 1
===============================================================================
