---------------------------- MODULE JobLifecycle -----------------------------
(***************************************************************************)
(* What a client of the build API sees of a job: GET /jobs/{id} reports    *)
(* these states, and POST /jobs/{id}/cancel is a request that the job may  *)
(* still outrun.                                                           *)
(***************************************************************************)
EXTENDS Naturals

CONSTANTS Jobs, MaxAttempts

VARIABLES phase, asked, tries

vars == <<phase, asked, tries>>

Init ==
  /\ phase = [j \in Jobs |-> "absent"]
  /\ asked = [j \in Jobs |-> FALSE]
  /\ tries = [j \in Jobs |-> 0]

\* Accepted for execution, or recorded as done because nothing was stale.
Accept(j) ==
  /\ phase[j] = "absent"
  /\ \E p \in {"queued", "succeeded"} : phase' = [phase EXCEPT ![j] = p]
  /\ UNCHANGED <<asked, tries>>

Start(j) ==
  /\ phase[j] = "queued"
  /\ ~asked[j] \/ tries[j] > 0
  /\ phase' = [phase EXCEPT ![j] = "running"]
  /\ UNCHANGED <<asked, tries>>

\* A cancel ends a queued job at once and only marks a running one.
Ask(j) ==
  /\ phase[j] \in {"queued", "running"}
  /\ asked' = [asked EXCEPT ![j] = TRUE]
  /\ phase' = [phase EXCEPT ![j] = IF @ = "queued" THEN "cancelled" ELSE @]
  /\ UNCHANGED tries

\* A run ends; nothing ends as cancelled that nobody asked to cancel.
Finish(j) ==
  /\ phase[j] = "running"
  /\ \E p \in {"succeeded", "failed", "cancelled"} :
       /\ p = "cancelled" => asked[j]
       /\ phase' = [phase EXCEPT ![j] = p]
  /\ UNCHANGED <<asked, tries>>

\* The runs of the jobs in S are lost: each is retried, or fails when its
\* budget of MaxAttempts retries is used up.
Lose(S) ==
  /\ \A j \in S : phase[j] = "running"
  /\ phase' = [j \in Jobs |-> IF j \notin S THEN phase[j]
                              ELSE IF tries[j] < MaxAttempts THEN "queued" ELSE "failed"]
  /\ tries' = [j \in Jobs |-> IF j \in S THEN tries[j] + 1 ELSE tries[j]]
  /\ UNCHANGED asked

Next ==
  \/ \E j \in Jobs : Accept(j) \/ Start(j) \/ Ask(j) \/ Finish(j)
  \/ \E S \in SUBSET Jobs : Lose(S)

Spec == Init /\ [][Next]_vars
=============================================================================
