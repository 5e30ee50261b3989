---------------------------- MODULE ReleaseControl ----------------------------
(***************************************************************************)
(* What the content workflow promises, without its 23 statuses: a piece of *)
(* content is worked on, reviewed, released and aired, and nothing is      *)
(* released unless everybody who has to sign it off has signed off the     *)
(* very version that is released.  A reworked version starts with no       *)
(* sign-off at all.  ContentWorkflow implements this specification.        *)
(***************************************************************************)
EXTENDS Naturals

CONSTANT Role            \* who may have to sign off

VARIABLES
  stage,                 \* where the content is
  version,               \* the version under work, review or release
  signoffs,              \* who signed off the current version
  required               \* who has to sign off this content; never changes

vars == <<stage, version, signoffs, required>>

Stages == {"work", "review", "rework", "release", "aired", "closed"}

TypeOK ==
  /\ stage \in Stages
  /\ version \in Nat
  /\ signoffs \subseteq Role
  /\ required \subseteq Role

Init ==
  /\ stage = "work"
  /\ version = 1
  /\ signoffs = {}
  /\ required \in SUBSET Role

Submit ==
  /\ stage = "work"
  /\ stage' = "review"
  /\ UNCHANGED <<version, signoffs, required>>

\* A sign-off completes the review at once when nobody else has to sign.
SignOff(r) ==
  /\ stage = "review"
  /\ signoffs' = signoffs \union {r}
  /\ stage' = "review" \/ (required \subseteq signoffs' /\ stage' = "release")
  /\ UNCHANGED <<version, required>>

Release ==
  /\ stage = "review"
  /\ required \subseteq signoffs
  /\ stage' = "release"
  /\ UNCHANGED <<version, signoffs, required>>

SendBack ==
  /\ stage = "review"
  /\ stage' = "rework"
  /\ UNCHANGED <<version, signoffs, required>>

\* A rework leads nowhere but to a new version, which nobody has signed off.
NewVersion ==
  /\ stage \in {"work", "rework"}
  /\ stage' = "work"
  /\ version' = version + 1
  /\ signoffs' = {}
  /\ UNCHANGED required

Air ==
  /\ stage = "release"
  /\ stage' = "aired"
  /\ UNCHANGED <<version, signoffs, required>>

Close ==
  /\ stage # "closed"
  /\ stage' = "closed"
  /\ UNCHANGED <<version, signoffs, required>>

Next ==
  \/ Submit
  \/ \E r \in Role : SignOff(r)
  \/ Release
  \/ SendBack
  \/ NewVersion
  \/ Air
  \/ Close

Spec == Init /\ [][Next]_vars
===============================================================================
