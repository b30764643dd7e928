----------------------------- MODULE BuildRequest -----------------------------
(*****************************************************************************)
(* What the embedded adapter promises about one message of a chat, seen by   *)
(* the user, by Jenkins and by whoever reads the inbound delivery: at most   *)
(* one build, and only after the user has the acknowledgment; one verdict,   *)
(* which is true of the build and stays so, and which the user is told;      *)
(* and a delivery that succeeds only if the user has the good news.          *)
(*                                                                           *)
(* Two weak spots are part of it.  A trigger may reach Jenkins after the     *)
(* user was told that nobody knows (Ask, with a verdict that is unsure).     *)
(* And the user may be told of a changed job without that ever becoming      *)
(* the verdict (Tell).                                                       *)
(*****************************************************************************)
CONSTANTS Verdict, None

VARIABLES request, acknowledged, build, verdict, told, outcome

vars == <<request, acknowledged, build, verdict, told, outcome>>

TypeOK ==
  /\ request \in {"none", "invalid", "valid"}
  /\ acknowledged \in BOOLEAN
  /\ build \in {"none", "asked", "succeeded", "failed"}
  /\ verdict \in Verdict \cup {None}
  /\ told \in Verdict \cup {None}
  /\ outcome \in {"open", "ok", "failed"}

JobChanged == "ADAPTER_CONFIG_CHANGED"

\* Verdicts that say nothing about whether there is a build.
Unsure == {"JENKINS_TRIGGER_UNCERTAIN", "JENKINS_UNAVAILABLE", JobChanged}

Init ==
  /\ request \in {"none", "invalid", "valid"}
  /\ acknowledged = FALSE
  /\ build = "none"
  /\ verdict = None /\ told = None
  /\ outcome = "open"

Acknowledge ==
  /\ request = "valid"
  /\ acknowledged' = TRUE
  /\ UNCHANGED <<request, build, verdict, told, outcome>>

\* Jenkins is asked for a build, of a request that is not given up for good.
Ask ==
  /\ acknowledged
  /\ build = "none" /\ build' = "asked"
  /\ verdict \in Unsure \/ (verdict = None /\ outcome = "open")
  /\ UNCHANGED <<request, acknowledged, verdict, told, outcome>>

\* A build whose trigger is said to have failed does not run.
Run ==
  /\ build = "asked" /\ build' \in {"succeeded", "failed"}
  /\ verdict # "JENKINS_TRIGGER_FAILED"
  /\ UNCHANGED <<request, acknowledged, verdict, told, outcome>>

\* When v is true.
Due(v) ==
  CASE v = "succeeded" -> build = "succeeded"
    [] v = "BUSINESS_FAILED" -> build = "failed"
    [] v = "INVALID_REQUEST" -> request # "none" /\ build = "none"
    [] v = JobChanged -> TRUE
    [] v \in Unsure \ {JobChanged} -> acknowledged
    [] OTHER -> build # "none"

Conclude ==
  /\ outcome = "open"
  /\ verdict = None /\ verdict' \in Verdict /\ Due(verdict')
  /\ outcome' = "open" \/ (verdict' = JobChanged /\ outcome' = "failed")
  /\ UNCHANGED <<request, acknowledged, build, told>>

Tell ==
  /\ told = None /\ told' \in {verdict, JobChanged} \ {None}
  /\ UNCHANGED <<request, acknowledged, build, verdict, outcome>>

\* There is a verdict by then, unless there was no request, or the user could
\* not be reached, and then nothing is built.
End ==
  /\ outcome = "open"
  /\ \/ /\ outcome' = "ok"
        /\ \/ request = "none" /\ verdict = None
           \/ verdict = "succeeded" /\ told = "succeeded"
     \/ /\ outcome' = "failed"
        /\ verdict = None => request = "valid" /\ build = "none"
  /\ UNCHANGED <<request, acknowledged, build, verdict, told>>

Next == Acknowledge \/ Ask \/ Run \/ Conclude \/ Tell \/ End

Spec == Init /\ [][Next]_vars
===============================================================================
