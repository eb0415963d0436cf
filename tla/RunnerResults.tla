---------------------------- MODULE RunnerResults ----------------------------
(***************************************************************************)
(* What the runner's adapters, its HTTP service and the client in the      *)
(* match server make of a verdict on its way to the match engine.          *)
(***************************************************************************)
EXTENDS Naturals

CONSTANTS
  Jobs,   \* calls of an adapter's execute(): the attempts of an execution
  Cases   \* test cases of the problem

Verdicts == {"accepted", "wrong_answer", "compile_error", "runtime_error", "time_limit",
             "memory_limit", "output_limit", "source_limit", "infrastructure_error"}
NoVerdict == "none"

DomainVerdicts == {"ACCEPTED", "WRONG_ANSWER", "COMPILE_ERROR", "RUNTIME_ERROR", "TIMEOUT",
                   "MEMORY_LIMIT", "OUTPUT_LIMIT", "INFRA_ERROR"}

(* sanitizeResult: counts that cannot be make any verdict a failure.       *)
Sanitized(verdict, passed) ==
  IF Cases = 0 \/ passed > Cases \/ (verdict = "accepted" /\ passed # Cases)
    THEN "infrastructure_error" ELSE verdict

(* The table of the client.                                                *)
DomainVerdict(verdict) ==
  CASE verdict = "accepted"      -> "ACCEPTED"
    [] verdict = "wrong_answer"  -> "WRONG_ANSWER"
    [] verdict \in {"compile_error", "source_limit"} -> "COMPILE_ERROR"
    [] verdict = "runtime_error" -> "RUNTIME_ERROR"
    [] verdict = "time_limit"    -> "TIMEOUT"
    [] verdict = "memory_limit"  -> "MEMORY_LIMIT"
    [] verdict = "output_limit"  -> "OUTPUT_LIMIT"
    [] verdict = "infrastructure_error" -> "INFRA_ERROR"

(* The answer as the coordinator gets it: 503 and every body the client    *)
(* does not trust are an infrastructure failure.                           *)
Delivered(verdict, passed) == DomainVerdict(Sanitized(verdict, passed))
=============================================================================
