-------------------------------- MODULE Probes --------------------------------
(***************************************************************************)
(* The probes that follow a deployment: deploy-smoke.mjs asks the api its  *)
(* required routes, media-reachability.mjs reads the feed, asks for the    *)
(* playback of its first item and fetches the media both name, while       *)
(* contents come and go and the api and the objects fail.                  *)
(***************************************************************************)
EXTENDS Integers, Sequences, SequencesExt

CONSTANTS
  Aired,                 \* the contents; published ones head the feed in turn
  Octets,                \* pairs of leading octets of the media host's address
  MaxTurns               \* bound on what happens beside one probe

VARIABLES
  api,                   \* "up", "noDb", "lacking" (without a required route), "down"
  front,                 \* the published contents, the newest first
  object,                \* what a GET of a content's rendition is answered
  host,                  \* of the media: [kind, octets, https]
  turns,
  probe,                 \* the smoke's progress: [pc, id, codes, warned]
  reached,               \* the contents whose rendition a visitor could have fetched
  disturbed              \* whether something happened beside this probe

probeVars == <<api, front, object, host, turns, probe, reached, disturbed>>

Answer == {"video", "html", "missing", "denied", "broken", "slow"}
HostKind == {"name", "ipv4", "loopback", "internal"}
Idle == [pc |-> "routes", id |-> "none", codes |-> {}, warned |-> {}]

ProbesTypeOK ==
  /\ api \in {"up", "noDb", "lacking", "down"}
  /\ object \in [Aired -> Answer]
  /\ host \in [kind : HostKind, octets : Octets, https : BOOLEAN]
  /\ turns \in 0 .. MaxTurns
  /\ probe.pc \in {"routes", "feed", "playback", "media", "judged"}
  /\ reached \subseteq Aired /\ disturbed \in BOOLEAN

ProbesInit ==
  /\ api \in {"up", "noDb", "lacking", "down"}
  /\ front \in {<<>>} \cup {<<c>> : c \in Aired}
  /\ object \in {[c \in Aired |-> a] : a \in Answer}
  /\ host \in [kind : HostKind, octets : Octets, https : BOOLEAN]
  /\ host.kind # "ipv4" => \A o \in Octets : host.octets[1] <= o[1]
  /\ turns = 0 /\ probe = Idle /\ reached = {} /\ disturbed = FALSE

-------------------------------------------------------------------------------
(* The judgement of a host *)

\* RFC 1918, and the overlay network 100.64.0.0/10.
IsPrivateIpv4(o) ==
  \/ o[1] = 10
  \/ o[1] = 172 /\ o[2] \in 16 .. 31
  \/ o = <<192, 168>>
  \/ o[1] = 100 /\ o[2] \in 64 .. 127

\* classifyHostFailures: all that is wrong with a url before any request.
ClassifyHostFailures ==
  (IF host.kind = "loopback" THEN {"loopback-host"}
   ELSE IF host.kind = "ipv4" /\ IsPrivateIpv4(host.octets) THEN {"private-host"} ELSE {})
  \cup (IF host.kind = "internal" THEN {"internal-host"} ELSE {})
  \cup (IF host.https THEN {} ELSE {"insecure-scheme"})

-------------------------------------------------------------------------------
(* The probe *)

Published(c) == \E i \in DOMAIN front : front[i] = c
At(pc) == probe.pc = pc /\ UNCHANGED <<api, front, object, host, turns, disturbed>>
Judge(codes) == probe' = [probe EXCEPT !.pc = "judged", !.codes = @ \cup codes]

\* classifyRouteFailure over the required routes: without its database the api answers 503
\* and 500, without a route 404.
RouteFailures ==
  CASE api = "up" -> {}
    [] api = "noDb" -> {"readiness_status", "server_error"}
    [] api = "lacking" -> {"route_missing"}
    [] api = "down" -> {"request_failed"}

\* main: the routes first, then the media whatever the routes gave.
ProbeRoutes ==
  /\ At("routes")
  /\ probe' = [probe EXCEPT !.pc = "feed", !.codes = RouteFailures]
  /\ UNCHANGED reached

\* The feed and its first item: an api that does not answer, an empty feed, or a content.
ReadFeed ==
  /\ At("feed")
  /\ IF api \in {"noDb", "down"} THEN Judge({"feed-fetch-failed"})
     ELSE IF front = <<>> THEN
       probe' = [probe EXCEPT !.pc = "judged", !.warned = {"empty-feed"}]
     ELSE probe' = [probe EXCEPT !.pc = "playback", !.id = front[1]]
  /\ UNCHANGED reached

\* The playback of that content, which need not be published any more.
ReadPlayback ==
  /\ At("playback")
  /\ IF api \in {"noDb", "down"} \/ ~Published(probe.id)
     THEN Judge({"playback-fetch-failed"})
     ELSE probe' = [probe EXCEPT !.pc = "media"]
  /\ UNCHANGED reached

Reachability(answer) ==
  CASE answer = "video" -> {}
    [] answer = "html" -> {"content_type_mismatch"}
    [] answer = "missing" -> {"not_found"}
    [] answer = "denied" -> {"forbidden"}
    [] answer = "broken" -> {"server_error"}
    [] answer = "slow" -> {"timeout"}

\* A visitor is outside, and the page is https.
Routable ==
  /\ host.https /\ host.kind \in {"name", "ipv4"}
  /\ host.kind = "ipv4" =>
       LET high == 256 * host.octets[1] + host.octets[2]
       IN  /\ high \div 256 # 10              \* 10.0.0.0/8
           /\ high \div 16 # 16 * 172 + 1     \* 172.16.0.0/12
           /\ high # 256 * 192 + 168          \* 192.168.0.0/16
           /\ high \div 64 # 4 * 100 + 1      \* 100.64.0.0/10

\* probeMediaTargets: nothing is requested of a host that is wrong already; the rendition's
\* answer is judged otherwise.
FetchMedia ==
  /\ At("media")
  /\ Judge(IF ClassifyHostFailures # {} THEN ClassifyHostFailures
           ELSE Reachability(object[probe.id]))
  /\ reached' = IF Routable /\ object[probe.id] = "video" THEN {probe.id} ELSE {}

-------------------------------------------------------------------------------
(* What happens beside it *)

Beside ==
  /\ turns < MaxTurns /\ turns' = turns + 1
  /\ disturbed' = (disturbed \/ probe.pc # "routes") /\ UNCHANGED <<host, probe, reached>>

\* A content is published and heads the feed, or is archived.
Publish ==
  /\ Beside
  /\ \E c \in Aired : ~Published(c) /\ front' = <<c>> \o front
  /\ UNCHANGED <<api, object>>

Archive ==
  /\ Beside
  /\ \E i \in DOMAIN front : front' = RemoveAt(front, i)
  /\ UNCHANGED <<api, object>>

\* The api or the store change for the better or the worse.
Change ==
  /\ Beside /\ UNCHANGED front
  /\ \/ api' \in {"up", "noDb", "lacking", "down"} \ {api} /\ UNCHANGED object
     \/ \E c \in Aired : \E a \in Answer \ {object[c]} : object' = [object EXCEPT ![c] = a]
        /\ UNCHANGED api

ProbesNext ==
  \/ ProbeRoutes \/ ReadFeed \/ ReadPlayback \/ FetchMedia
  \/ Publish \/ Archive \/ Change

-------------------------------------------------------------------------------
(* Properties *)

\* A probe that passes without a warning has fetched the stream of the content that headed
\* the feed, from where a visitor is (judgeMediaReachability, classifyHostFailures).
PassIsReachable ==
  probe.pc = "judged" /\ probe.codes = {} /\ probe.warned = {} => probe.id \in reached

\* A deployment with nothing wrong about it passes: an alarm has a cause in the api, the
\* object or the host, unless something changed under the probe.
AlarmHasCause ==
  probe.pc = "judged" /\ probe.codes # {} /\ ~disturbed =>
    \/ api # "up"
    \/ ~Routable
    \/ probe.id # "none" /\ object[probe.id] # "video"
===============================================================================
