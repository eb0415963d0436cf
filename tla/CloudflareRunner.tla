-------------------------- MODULE CloudflareRunner --------------------------
(***************************************************************************)
(* The Cloudflare adapter of the runner: a sandbox per job, the supervisor *)
(* script run-judge inside it, which compiles the submission, feeds it all *)
(* cases at once and reports; and the reading of that report.              *)
(*                                                                         *)
(* A log is what the harness has written: "ready", then an answer per      *)
(* case; the limit of the output cuts it.  The supervisor's packet comes   *)
(* last.  Every call into the sandbox may fail.                            *)
(***************************************************************************)
EXTENDS RunnerResults, Sequences, FiniteSets

VARIABLES
  sbx,    \* what execute() and the sandbox know of the job
  report, \* what run-judge has left: log, supervisor packet and exit code
          \* (and how it all ended, a history)
  earned  \* the report bears the verdict out (history)

cloudflareVars == <<sbx, report, earned>>

Steps == {"IDLE", "PROVISION", "WRITE", "START", "WAIT", "LOGS", "STOP", "DESTROY", "DONE", "LOST"}
Answers == {"right", "wrong", "runtime_error", "memory_limit", "output_limit"}
SupervisorStatus == {"ok"} \cup (Verdicts \ {"accepted", "wrong_answer", "source_limit"})

(* How a command of the supervisor ends: 0; 124, 137, 152 or 153; or       *)
(* anything else. (The guard's own 125 to 127 are its failures.)           *)
Ending == {"zero", "limit", "other"}

(* How the job ended: as its program did, at the compiler, at the space    *)
(* for its files or its output, or by a failure of guard or script.        *)
Outcomes == Ending \cup {"none", "compiler", "space", "script"}

NewSandbox == [step |-> "IDLE", verdict |-> NoVerdict, passed |-> 0,
               alive |-> FALSE, process |-> "NONE", stop |-> FALSE]
NoReport == [log |-> <<>>, packet |-> NoVerdict, code |-> 0, end |-> "none"]

CloudflareTypeOK ==
  /\ sbx \in [Jobs -> [step : Steps, verdict : Verdicts \cup {NoVerdict},
                       passed : 0 .. Cases, alive : BOOLEAN,
                       process : {"NONE", "RUNNING", "ENDED"}, stop : BOOLEAN]]
  /\ earned \in [Jobs -> BOOLEAN]
  /\ report \in [Jobs -> [log : Seq(Answers \cup {"ready"}),
                          packet : SupervisorStatus \cup {NoVerdict},
                          code : {0, 1}, end : Outcomes]]

CloudflareInit ==
  /\ sbx = [j \in Jobs |-> NewSandbox]
  /\ report = [j \in Jobs |-> NoReport]
  /\ earned = [j \in Jobs |-> TRUE]

-----------------------------------------------------------------------------
(* run-judge.                                                              *)

(* After a failed compilation.                                             *)
CompileStatus(ending) ==
  CASE ending = "limit" -> "time_limit"
    [] ending = "other" -> "compile_error"

(* After the run: too much output comes first, whatever the exit.          *)
RunStatus(ending) ==
  CASE ending = "space" -> "output_limit"
    [] ending = "zero"  -> "ok"
    [] ending = "limit" -> "time_limit"
    [] ending = "other" -> "runtime_error"

(* What a harness may have written when its process ended.                 *)
Logs ==
  {<<>>} \cup {<<a>> : a \in {"runtime_error", "memory_limit", "output_limit"}}
    \cup UNION {{<<"ready">> \o s : s \in [1 .. n -> Answers]} : n \in 0 .. Cases}

Report(j, log, packet, code, end) ==
  /\ sbx[j].process = "RUNNING" /\ sbx[j].step = "WAIT"
  /\ sbx' = [sbx EXCEPT ![j].process = "ENDED"]
  /\ report' = [report EXCEPT ![j] =
       [log |-> log, packet |-> packet, code |-> code, end |-> end]]
  /\ UNCHANGED earned

CompileFails(j, ending) ==
  /\ ending # "zero"
  /\ Report(j, <<>>, CompileStatus(ending), 0, IF ending = "other" THEN "compiler" ELSE ending)

(* The class files do not fit the workspace.                               *)
ArtifactTooLarge(j) == Report(j, <<>>, "output_limit", 0, "space")

(* A harness that saw the end of its input has answered every case, unless *)
(* the program made it exit before.                                        *)
RunEnds(j, log, ending) == Report(j, log, RunStatus(ending), 0, ending)

(* The guard or the script fails: it says so, without the log of the       *)
(* harness, or ends before it prints a packet.                             *)
SupervisorFails(j) ==
  \/ Report(j, <<>>, "infrastructure_error", 0, "script")
  \/ Report(j, <<>>, NoVerdict, 1, "script")

(* Nobody reads the report any more.                                       *)
JudgeForgotten(j) ==
  /\ sbx[j].process = "RUNNING" /\ sbx[j].step # "WAIT"
  /\ sbx' = [sbx EXCEPT ![j].process = "ENDED"]
  /\ UNCHANGED <<report, earned>>

-----------------------------------------------------------------------------
(* interpretExecution.                                                     *)

FirstBad(answers) ==
  {i \in 1 .. Len(answers) :
     /\ answers[i] \notin {"right", "wrong"}
     /\ \A k \in 1 .. i - 1 : answers[k] \in {"right", "wrong"}}

(* completedCases: the answers after "ready", up to the first error.       *)
IsReady(log)  == log # <<>> /\ Head(log) = "ready"
Answered(log) == IF IsReady(log) THEN Tail(log) ELSE <<>>
PassedOf(log) ==
  LET answers == Answered(log)
      bad     == FirstBad(answers)
      upTo    == IF bad = {} THEN Len(answers) ELSE CHOOSE i \in bad : TRUE
  IN Cardinality({i \in 1 .. upTo : answers[i] = "right"})
Terminal(log) ==
  IF ~IsReady(log) THEN "runtime_error"
  ELSE IF FirstBad(Answered(log)) = {} THEN NoVerdict
  ELSE Answered(log)[CHOOSE i \in FirstBad(Answered(log)) : TRUE]

(* executionIntegrityVerdict.                                              *)
Integrity(r) ==
  IF r.code # 0 THEN "infrastructure_error"
  ELSE IF Len(Answered(r.log)) # Cases THEN "runtime_error" ELSE NoVerdict

Interpreted(r) ==
  IF r.packet = NoVerdict THEN "infrastructure_error"
  ELSE IF r.packet # "ok" THEN r.packet
  ELSE IF Terminal(r.log) # NoVerdict THEN Terminal(r.log)
  ELSE IF Integrity(r) # NoVerdict THEN Integrity(r)
  ELSE IF PassedOf(r.log) = Cases THEN "accepted" ELSE "wrong_answer"

-----------------------------------------------------------------------------
(* execute().                                                              *)

Wrote(r, token) == \E i \in DOMAIN r.log : r.log[i] = token
AllRight == <<"ready">> \o [i \in 1 .. Cases |-> "right"]
EndedEarly(r) == r.end = "zero" /\ (~IsReady(r.log) \/ Len(Answered(r.log)) # Cases)

(* What happened in the sandbox is what the verdict says: an accepted      *)
(* program has answered every case and ended well, a wrong answer was      *)
(* given, an error has one of its causes.                                  *)
Earned(r, verdict) ==
  CASE verdict = "accepted"      -> r.log = AllRight /\ r.end = "zero"
    [] verdict = "wrong_answer"  -> Wrote(r, "wrong")
    [] verdict = "compile_error" -> r.end = "compiler"
    [] verdict = "time_limit"    -> r.end = "limit"
    [] verdict = "memory_limit"  -> Wrote(r, "memory_limit")
    [] verdict = "output_limit"  -> r.end = "space" \/ Wrote(r, "output_limit")
    [] verdict = "runtime_error" -> r.end = "other" \/ Wrote(r, "runtime_error") \/ EndedEarly(r)
    [] OTHER -> TRUE

Step(j, from, next) == sbx[j].step = from /\ sbx' = [sbx EXCEPT ![j] = next]

SandboxRefuses(j) ==
  /\ \E verdict \in {"source_limit", "infrastructure_error"} :
       Step(j, "IDLE", [sbx[j] EXCEPT !.verdict = verdict, !.step = "DONE"])
  /\ UNCHANGED <<report, earned>>

Accept(j) == Step(j, "IDLE", [sbx[j] EXCEPT !.step = "PROVISION"]) /\ UNCHANGED <<report, earned>>
Provision(j) == Step(j, "PROVISION", [sbx[j] EXCEPT !.step = "WRITE", !.alive = TRUE]) /\ UNCHANGED <<report, earned>>
WriteInputs(j) == Step(j, "WRITE", [sbx[j] EXCEPT !.step = "START"]) /\ UNCHANGED <<report, earned>>
StartJudge(j) ==
  /\ Step(j, "START", [sbx[j] EXCEPT !.step = "WAIT", !.process = "RUNNING", !.stop = TRUE])
  /\ UNCHANGED <<report, earned>>
JudgeExits(j) ==
  /\ sbx[j].process = "ENDED"
  /\ Step(j, "WAIT", [sbx[j] EXCEPT !.step = "LOGS", !.stop = FALSE])
  /\ UNCHANGED <<report, earned>>
ReadOutput(j) ==
  /\ Step(j, "LOGS", [sbx[j] EXCEPT !.step = "DESTROY",
                        !.verdict = Interpreted(report[j]),
                        !.passed = IF report[j].packet = NoVerdict THEN 0
                                   ELSE PassedOf(report[j].log)])
  /\ earned' = [earned EXCEPT ![j] = Earned(report[j], Interpreted(report[j]))]
  /\ report' = [report EXCEPT ![j] = NoReport]

(* finally: kill the judge if it may still run, then destroy the sandbox.  *)
AfterFailure(s) == IF s.stop THEN "STOP" ELSE "DESTROY"

(* A call into the sandbox fails, or the judge outlives its time.          *)
SandboxFails(j) ==
  /\ sbx[j].step \in {"PROVISION", "WRITE", "START", "WAIT", "LOGS"}
  /\ sbx' = [sbx EXCEPT ![j].verdict = "infrastructure_error",
                        ![j].step = AfterFailure(sbx[j])]
  /\ report' = [report EXCEPT ![j] = NoReport]
  /\ UNCHANGED earned

(* Both calls have a deadline; what they could not do is left to Cloudflare.*)
StopJudge(j, worked) ==
  /\ Step(j, "STOP", [sbx[j] EXCEPT !.step = "DESTROY",
                        !.process = IF worked THEN "ENDED" ELSE @])
  /\ UNCHANGED <<report, earned>>
DestroySandbox(j, worked) ==
  /\ Step(j, "DESTROY", [sbx[j] EXCEPT !.step = "DONE", !.alive = ~worked,
                           !.process = IF worked /\ @ = "RUNNING" THEN "ENDED" ELSE @])
  /\ UNCHANGED <<report, earned>>

(* Their process is gone: what is in the sandboxes stays behind.           *)
ForgetSandboxes ==
  /\ sbx' = [j \in Jobs |->
               IF sbx[j].step = "IDLE" THEN sbx[j]
               ELSE [NewSandbox EXCEPT !.step = "LOST", !.alive = sbx[j].alive, !.process = sbx[j].process]]
  /\ report' = [j \in Jobs |-> NoReport]
  /\ UNCHANGED earned

SandboxStep(j) ==
  \/ Accept(j) \/ Provision(j) \/ WriteInputs(j) \/ StartJudge(j) \/ JudgeExits(j) \/ ReadOutput(j)
  \/ SandboxFails(j)
  \/ \E worked \in BOOLEAN : StopJudge(j, worked) \/ DestroySandbox(j, worked)

JudgeStep(j) ==
  \/ \E ending \in Ending : CompileFails(j, ending)
  \/ ArtifactTooLarge(j)
  \/ \E log \in Logs, ending \in Ending \cup {"space"} : RunEnds(j, log, ending)
  \/ SupervisorFails(j) \/ JudgeForgotten(j)
=============================================================================
