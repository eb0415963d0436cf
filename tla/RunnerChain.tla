----------------------------- MODULE RunnerChain -----------------------------
(***************************************************************************)
(* An execution from the coordinator to the sandbox and back: the          *)
(* coordinator and its one retry, the HTTP client with its time limit, the *)
(* runner process that drains and starts again, and one of the            *)
(* two adapters.  Attempt j of the coordinator is job j of the adapter.    *)
(*                                                                         *)
(* What the match engine makes of the result, and what becomes of an       *)
(* execution whose coordinator dies, is in MatchEngine.                    *)
(***************************************************************************)
EXTENDS DockerRunner, CloudflareRunner

CONSTANTS
  Attempts,    \* attempts of the coordinator
  Platforms,   \* adapters in use
  Budgets      \* BOUND: how many other instances may start, and how many times
               \*        the runner or a request may be lost; one of these

ASSUME ChainAssumption ==
  /\ Attempts \in Nat \ {0} /\ Jobs = 1 .. Attempts
  /\ Cases \in Nat /\ RunBudget \in Nat
  /\ Platforms \subseteq {"DOCKER", "CLOUDFLARE"}
  /\ Budgets \subseteq [sweeps : Nat, losses : Nat]

VARIABLES
  platform,  \* the adapter this deployment uses
  server,    \* the runner process: UP, DRAINING or DOWN
  left,      \* what is left of the budget
  call,      \* the HTTP request of each attempt
  coord,     \* the coordinator: step and attempt
  result     \* the result of each attempt, as the coordinator sees it

chainVars == <<dockerVars, cloudflareVars, platform, server, left, call, coord, result>>

NoResult == "NONE"

TypeOK ==
  /\ DockerTypeOK /\ CloudflareTypeOK
  /\ platform \in Platforms
  /\ server \in {"UP", "DRAINING", "DOWN"}
  /\ left \in [sweeps : Nat, losses : Nat]
  /\ call \in [Jobs -> {"NONE", "SENT", "ENDED"}]
  /\ coord \in [step : {"MARK", "CALL", "WAIT", "SAVE", "SAVED"}, attempt : 0 .. Attempts]
  /\ result \in [Jobs -> DomainVerdicts \cup {NoResult}]

Init ==
  /\ DockerInit /\ CloudflareInit
  /\ platform \in Platforms
  /\ server = "UP"
  /\ left \in Budgets
  /\ call = [j \in Jobs |-> "NONE"]
  /\ coord = [step |-> "MARK", attempt |-> 0]
  /\ result = [j \in Jobs |-> NoResult]

-----------------------------------------------------------------------------
(* The coordinator.                                                        *)

KeepAdapters == UNCHANGED <<dockerVars, cloudflareVars, platform>>

Lose == left.losses > 0 /\ left' = [left EXCEPT !.losses = @ - 1]

MarkRunning ==
  /\ coord.step = "MARK"
  /\ coord' = [step |-> "CALL", attempt |-> coord.attempt + 1]
  /\ KeepAdapters /\ UNCHANGED <<server, left, call, result>>

(* One infrastructure failure is retried.                                  *)
MayRetry(r) == r = "INFRA_ERROR" /\ coord.attempt < Attempts

(* The client returns r.                                                   *)
ClientReturns(j, r) ==
  /\ result' = [result EXCEPT ![j] = r]
  /\ call' = [call EXCEPT ![j] = "ENDED"]
  /\ coord' = [coord EXCEPT !.step = IF MayRetry(r) THEN "MARK" ELSE "SAVE"]
  /\ KeepAdapters /\ UNCHANGED server

Attempt(j, step) == coord.step = step /\ coord.attempt = j

SendRequest(j) ==
  /\ Attempt(j, "CALL") /\ server = "UP"
  /\ call' = [call EXCEPT ![j] = "SENT"]
  /\ coord' = [coord EXCEPT !.step = "WAIT"]
  /\ KeepAdapters /\ UNCHANGED <<server, left, result>>

(* Nobody listens.                                                         *)
RequestRefused(j) ==
  /\ Attempt(j, "CALL") /\ server # "UP"
  /\ ClientReturns(j, "INFRA_ERROR") /\ UNCHANGED left

Ended(j) == IF platform = "DOCKER" THEN job[j].phase = "DONE" ELSE sbx[j].step = "DONE"
Answer(j) ==
  IF platform = "DOCKER" THEN Delivered(job[j].verdict, job[j].passed)
  ELSE Delivered(sbx[j].verdict, sbx[j].passed)

ResponseArrives(j) ==
  /\ Attempt(j, "WAIT") /\ call[j] = "SENT" /\ Ended(j)
  /\ ClientReturns(j, Answer(j)) /\ UNCHANGED left

(* The connection was closed.                                              *)
ResponseLost(j) ==
  /\ Attempt(j, "WAIT") /\ call[j] = "ENDED"
  /\ ClientReturns(j, "INFRA_ERROR") /\ UNCHANGED left

(* RUNNER_HTTP_TIMEOUT_MS passes, or the network fails: the client gives   *)
(* up, and the adapter does not learn of it.                               *)
RequestTimeout(j) ==
  /\ Attempt(j, "WAIT") /\ call[j] = "SENT" /\ ~Ended(j)
  /\ ClientReturns(j, "INFRA_ERROR") /\ Lose

(* completeExecution.                                                      *)
SaveResult ==
  /\ coord.step = "SAVE"
  /\ coord' = [coord EXCEPT !.step = "SAVED"]
  /\ KeepAdapters /\ UNCHANGED <<server, left, call, result>>

-----------------------------------------------------------------------------
(* The runner process.                                                     *)

KeepCoordinator == UNCHANGED <<platform, coord, result>>

(* SIGTERM: no new connection is accepted. (The worker before the          *)
(* Cloudflare sandboxes has no shutdown.)                                  *)
Shutdown ==
  /\ platform = "DOCKER" /\ server = "UP" /\ Lose
  /\ server' = "DRAINING"
  /\ UNCHANGED <<dockerVars, cloudflareVars, call>> /\ KeepCoordinator

(* drainMs has passed: closeAllConnections.                                *)
CutConnections ==
  /\ server = "DRAINING"
  /\ \E j \in Jobs : call[j] = "SENT"
  /\ call' = [j \in Jobs |-> IF call[j] = "SENT" THEN "ENDED" ELSE call[j]]
  /\ UNCHANGED <<dockerVars, cloudflareVars, server, left>> /\ KeepCoordinator

(* The process ends once its connections and its executions have ended.    *)
ProcessExits ==
  /\ server = "DRAINING"
  /\ \A j \in Jobs : call[j] # "SENT" /\ job[j].phase \in {"IDLE", "DONE", "DEAD"}
  /\ server' = "DOWN"
  /\ ForgetJobs
  /\ UNCHANGED <<cloudflareVars, left, call>> /\ KeepCoordinator

(* A crash: requests and executions of the process are lost, what Docker   *)
(* and the sandboxes hold is not.                                          *)
ServerCrashes ==
  /\ server # "DOWN" /\ Lose
  /\ server' = "DOWN"
  /\ ForgetJobs /\ ForgetSandboxes
  /\ call' = [j \in Jobs |-> IF call[j] = "SENT" THEN "ENDED" ELSE call[j]]
  /\ KeepCoordinator

(* startRunnerServer: listen, and clean up in the background.              *)
ServerStarts ==
  /\ server = "DOWN"
  /\ server' = "UP"
  /\ IF platform = "DOCKER" THEN SweepStarts ELSE UNCHANGED dockerVars
  /\ UNCHANGED <<cloudflareVars, left, call>> /\ KeepCoordinator

(* Another instance of the runner starts beside this one.                  *)
OtherStarts ==
  /\ platform = "DOCKER" /\ left.sweeps > 0
  /\ left' = [left EXCEPT !.sweeps = @ - 1]
  /\ SweepStarts
  /\ UNCHANGED <<cloudflareVars, server, call>> /\ KeepCoordinator

KeepChain == UNCHANGED <<platform, server, left, call, coord, result>>

(* The handler of the request runs the adapter, also after the client left.*)
Started(j) == job[j].phase # "IDLE" \/ call[j] = "SENT"

DockerExecutes(j) ==
  /\ platform = "DOCKER" /\ Started(j)
  /\ RefuseSource(j) \/ Adapter(j)
  /\ UNCHANGED cloudflareVars /\ KeepChain

DockerStep ==
  \/ \E j \in Jobs : DockerExecutes(j)
  \/ /\ platform = "DOCKER"
     /\ Sweep \/ \E j \in Jobs : Daemon(j) \/ Program(j) \/ GrowsOld(j)
     /\ UNCHANGED cloudflareVars /\ KeepChain

CloudflareExecutes(j) ==
  /\ platform = "CLOUDFLARE"
  /\ sbx[j].step # "IDLE" \/ call[j] = "SENT"
  /\ SandboxRefuses(j) \/ SandboxStep(j)
  /\ UNCHANGED dockerVars /\ KeepChain

CloudflareStep ==
  \/ \E j \in Jobs : CloudflareExecutes(j)
  \/ /\ platform = "CLOUDFLARE"
     /\ \E j \in Jobs : JudgeStep(j)
     /\ UNCHANGED dockerVars /\ KeepChain

GoesOn ==
  \/ MarkRunning \/ SaveResult
  \/ \E j \in Jobs : SendRequest(j) \/ RequestRefused(j) \/ ResponseArrives(j) \/ ResponseLost(j)
Coordinator == GoesOn \/ \E j \in Jobs : RequestTimeout(j)

Server == Shutdown \/ CutConnections \/ ProcessExits \/ ServerCrashes \/ ServerStarts \/ OtherStarts

Next == Coordinator \/ Server \/ DockerStep \/ CloudflareStep

Spec == Init /\ [][Next]_chainVars

(* Every wait and every command of an adapter has a time limit, but for    *)
(* two: filling the volume of a job (docker.ts:941), and the calls into a  *)
(* Cloudflare sandbox before and after the wait (sandbox-adapter.ts:395).  *)
Staging(j) == job[j].phase = "STAGING"
InSandbox(j) == sbx[j].step \in {"PROVISION", "WRITE", "START", "LOGS"}

(* The coordinator and the adapters go on, and the timer of a drain fires. *)
(* Nothing is asked of the program, the daemon or the judge, of the two    *)
(* calls without a limit, nor of the time limit of the client.             *)
Fairness ==
  /\ WF_coord(GoesOn)
  /\ \A j \in Jobs : /\ WF_<<job[j]>>(~Staging(j) /\ DockerExecutes(j))
                     /\ WF_<<sbx[j]>>(~InSandbox(j) /\ CloudflareExecutes(j))
  /\ WF_call(CutConnections) /\ WF_server(ProcessExits)

FairSpec == Spec /\ Fairness

-----------------------------------------------------------------------------
(* What must hold.                                                         *)

(* A verdict rests on what happened in the sandbox of that attempt: a      *)
(* program is accepted only when it answered every case within the budget  *)
(* the cases share; a wrong answer, a failed compilation, an exit, memory  *)
(* or output it is blamed for is its own, never that of a sandbox which    *)
(* did not start or was taken away.  A time limit has passed, or the       *)
(* container was killed; by whom, the code cannot tell (TimeoutsAreOwn).   *)
VerdictsAreBornOut == \A j \in Jobs : fair[j] /\ earned[j]

(* What docker.ts:52 takes an exit by SIGKILL for: a program over its time *)
(* limit. It is not so: a running container that the cleanup of another    *)
(* instance kills makes its program a TIMEOUT.                             *)
TimeoutsAreOwn ==
  [][\A j \in Jobs : job[j].phase = "INSPECT" /\ job'[j].verdict = "time_limit"
                         => "swept" \notin deeds[j]]_chainVars

(* Executions come to their end: the coordinator has a result to save,     *)
(* every job that was begun is over and torn down, and a runner that       *)
(* drains has gone down, also when a program says nothing, a container     *)
(* never starts or the client has left, and with no help of the client's   *)
(* time limit, unless one of the two calls that have none hangs.           *)
NothingHangs == \A j \in Jobs : []<>(~Staging(j) /\ ~InSandbox(j))
Over(j) == job[j].phase \in {"IDLE", "DONE", "DEAD"} /\ sbx[j].step \in {"IDLE", "DONE", "LOST"}
AtRest == coord.step = "SAVED" /\ server # "DRAINING" /\ \A j \in Jobs : Over(j)

(* While a job is being staged, the cleanup of another instance leaves its *)
(* volume alone, which no container holds yet.                             *)
StagingIsSpared ==
  \A j \in Jobs : job[j].phase = "READY" /\ box[j].container = "NONE" /\ ~box[j].closed
                    => box[j].volume = "FULL"

(* What the runner and the coordinator keep is well formed all the while.  *)
ChainInv == TypeOK /\ StagingIsSpared

(* docs/runner.md:62: "Fresh running work from another instance is         *)
(* preserved" by a cleanup.                                                *)
FreshWork(j) == box[j].container = "RUNNING" /\ ~box[j].old /\ job[j].phase \in {"READY", "CASE"}
SweepSparesRunning ==
  [][\A j \in Jobs : FreshWork(j) /\ sweep' # sweep => box'[j].container = "RUNNING"]_chainVars
=============================================================================
