---------------------------- MODULE JobResponse ----------------------------
(* What an agent answers to a job, as far as the verdicts on it look: what *)
(* StepRunner produces and Orchestrator receives.                          *)

(* Failed steps are plain or caught by `?`.  A plain failure halts the     *)
(* job; so does a caught one nothing handles.  An agent that could not     *)
(* decode the request or write its result answers with Error alone.        *)
Responses ==
  {r \in [error : BOOLEAN, errs : SUBSET {"plain", "caught"}, halted : BOOLEAN] :
     /\ r.error => r.errs = {} /\ ~r.halted
     /\ "plain" \in r.errs => r.halted
     /\ r.halted => r.errs # {}}
Clean == [error |-> FALSE, errs |-> {}, halted |-> FALSE]
=============================================================================
