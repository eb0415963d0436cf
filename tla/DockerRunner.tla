---------------------------- MODULE DockerRunner ----------------------------
(***************************************************************************)
(* The Docker adapter of the runner: one call of execute() per job, the    *)
(* container and the volume it owns, the judged program inside, the Docker *)
(* daemon, and the cleanup of left-over resources when a runner starts.    *)
(*                                                                         *)
(* execute() is the only writer of a job's phase and verdict.  Everything  *)
(* it asks of Docker is a command of its own that other steps may precede: *)
(* the container starts when the daemon gets to it, the program writes     *)
(* and dies when it likes, and another runner instance may be cleaning up. *)
(*                                                                         *)
(* Time: a deadline may pass whenever the adapter waits; the CPU budget of *)
(* the cases is counted in units.                                          *)
(***************************************************************************)
EXTENDS RunnerResults, Sequences, FiniteSets

CONSTANT RunBudget  \* limits.runTimeMs, in units

VARIABLES
  job,     \* what execute() knows: phase, verdict and counters
  box,     \* what Docker keeps for the job: container, exit state, volume, age
  wire,    \* protocol messages on the way from the program to the adapter
  deeds,   \* what has happened in the sandbox (history, until it is judged)
  fair,    \* the deeds bear the verdict out (history)
  sweep    \* the cleanup in progress

dockerVars == <<job, box, wire, deeds, fair, sweep>>

Phases == {"IDLE", "FILES", "STAGING", "READY", "CASE", "INSPECT",
           "KILL", "REMOVE", "VOLUME", "DONE", "DEAD"}

NewJob == [phase |-> "IDLE", verdict |-> NoVerdict, passed |-> 0, case |-> 0,
           spent |-> 0, flooded |-> FALSE, spawned |-> FALSE]
NewBox == [container |-> "NONE", exit |-> "NONE", volume |-> "NONE",
           closed |-> FALSE, old |-> FALSE]
NoSweep == [step |-> "NONE", todo |-> {}, at |-> {}]

(* A protocol message of the harness, or of the image's compile step.      *)
Messages == {"ready", "compile_error", "right", "wrong",
             "runtime_error", "memory_limit", "output_limit"}
Ends == {"OOM", "SIGKILL", "CODE"}

DockerTypeOK ==
  /\ job \in [Jobs -> [phase : Phases, verdict : Verdicts \cup {NoVerdict},
                       passed : 0 .. Cases, case : 0 .. Cases, spent : Nat,
                       flooded : BOOLEAN, spawned : BOOLEAN]]
  /\ box \in [Jobs -> [container : {"NONE", "CREATED", "RUNNING", "EXITED"},
                       exit : Ends \cup {"NONE", "ERROR"},
                       volume : {"NONE", "NEW", "FULL", "STRAY"},
                       closed : BOOLEAN, old : BOOLEAN]]
  /\ wire \in [Jobs -> Seq(Messages)]
  /\ fair \in [Jobs -> BOOLEAN]
  /\ deeds \in [Jobs -> SUBSET (Ends \cup Messages \cup {"flood", "swept"})]
  /\ sweep \in [step : {"NONE", "INSPECT", "KILL", "REMOVE", "VOLUME", "LIST",
                        "OWNER", "AGE", "DROP"},
                todo : SUBSET Jobs, at : SUBSET Jobs]

DockerInit ==
  /\ job = [j \in Jobs |-> NewJob]
  /\ box = [j \in Jobs |-> NewBox]
  /\ wire = [j \in Jobs |-> <<>>]
  /\ deeds = [j \in Jobs |-> {}]
  /\ fair = [j \in Jobs |-> TRUE]
  /\ sweep = NoSweep

-----------------------------------------------------------------------------
(* execute().                                                              *)

(* What a verdict must rest on.  A time limit has passed (late), the       *)
(* budget is used up, or the container was killed: for its CPU time, or    *)
(* by a cleanup ("swept"), which look the same to the adapter.             *)
BornOut(j, verdict, passed, spent, late) ==
  CASE verdict = "accepted"      -> passed = Cases /\ spent <= RunBudget
                                      /\ deeds[j] \cap Messages \subseteq {"ready", "right"}
    [] verdict = "time_limit"    -> late \/ spent >= RunBudget
                                      \/ deeds[j] \cap {"SIGKILL", "swept"} # {}
    [] verdict = "wrong_answer"  -> "wrong" \in deeds[j]
    [] verdict = "compile_error" -> "compile_error" \in deeds[j]
    [] verdict = "runtime_error" -> deeds[j] \cap {"CODE", "runtime_error"} # {}
    [] verdict = "memory_limit"  -> deeds[j] \cap {"OOM", "memory_limit"} # {}
    [] verdict = "output_limit"  -> deeds[j] \cap {"flood", "output_limit"} # {}
    [] OTHER -> TRUE

Goto(j, phase) == job' = [job EXCEPT ![j].phase = phase] /\ UNCHANGED <<deeds, fair>>
KeepDocker == UNCHANGED <<box, wire, sweep>>

(* execute() has its result, and what it counted is gone.                  *)
Result(j, verdict, passed, spent, late) ==
  /\ job' = [job EXCEPT ![j] = [NewJob EXCEPT !.phase = "KILL", !.verdict = verdict,
                                  !.passed = passed, !.spawned = job[j].spawned]]
  /\ fair' = [fair EXCEPT ![j] = BornOut(j, verdict, passed, spent, late)]
  /\ deeds' = [deeds EXCEPT ![j] = {}]
Return(j, verdict) == Result(j, verdict, job[j].passed, job[j].spent, FALSE)

(* A source that is too long, or not plain text, never gets a sandbox.     *)
RefuseSource(j) ==
  /\ job[j].phase = "IDLE"
  /\ job' = [job EXCEPT ![j].phase = "DONE", ![j].verdict = "source_limit"]
  /\ KeepDocker /\ UNCHANGED <<deeds, fair>>

WriteFiles(j) == job[j].phase = "IDLE" /\ Goto(j, "FILES") /\ KeepDocker

CreateVolume(j) ==
  /\ job[j].phase = "FILES" /\ Goto(j, "STAGING")
  /\ box' = [box EXCEPT ![j].volume = "NEW"]
  /\ UNCHANGED <<wire, sweep>>

(* stageSubmission fills the volume; then `docker run` is spawned.         *)
StageAndRun(j) ==
  /\ job[j].phase = "STAGING"
  /\ job' = [job EXCEPT ![j].phase = "READY", ![j].spawned = TRUE]
  /\ box' = [box EXCEPT ![j].volume = "FULL"]
  /\ UNCHANGED <<wire, deeds, fair, sweep>>

(* A file, a volume or the staging fails: the catch block inspects.        *)
StagingFails(j) == job[j].phase \in {"FILES", "STAGING"} /\ Goto(j, "INSPECT") /\ KeepDocker

Waiting(j) == job[j].phase \in {"READY", "CASE"}

(* The next line of the channel; queued lines come before its end.         *)
Receive(j) == wire[j] # <<>> /\ wire' = [wire EXCEPT ![j] = Tail(@)] /\ UNCHANGED <<box, sweep>>

ReadReady(j) ==
  /\ job[j].phase = "READY" /\ Receive(j)
  /\ LET m == Head(wire[j]) IN
       IF m # "ready" THEN Return(j, m)
       ELSE IF Cases = 0 THEN Return(j, "accepted") ELSE Goto(j, "CASE")

(* accountTrustedCaseRuntime: the cases share one budget.                  *)
TotalTime(j, cost) == job[j].spent + cost

(* The answer to a case, after `cost` units of the control plane's clock,  *)
(* or past the wall-clock deadline (late).                                 *)
ReadCase(j, cost, late) ==
  LET m      == Head(wire[j])
      spent  == TotalTime(j, cost)
      passed == job[j].passed + (IF m = "right" THEN 1 ELSE 0)
      over   == late \/ spent > RunBudget
      last   == job[j].case + 1 = Cases
  IN
  /\ job[j].phase = "CASE" /\ Receive(j)
  /\ \/ over /\ Result(j, "time_limit", job[j].passed, spent, late)
     \/ ~over /\ m \notin {"right", "wrong"} /\ Return(j, m)
     \/ ~over /\ m \in {"right", "wrong"} /\ last
          /\ Result(j, IF passed = Cases THEN "accepted" ELSE "wrong_answer",
                    passed, spent, FALSE)
     \/ ~over /\ m \in {"right", "wrong"} /\ ~last
          /\ IF spent = RunBudget
               THEN Result(j, "time_limit", passed, spent, FALSE)
               ELSE /\ job' = [job EXCEPT ![j].spent = spent, ![j].passed = passed,
                                          ![j].case = @ + 1]
                    /\ UNCHANGED <<deeds, fair>>

NoLine(j) == Waiting(j) /\ wire[j] = <<>> /\ KeepDocker

(* The output limit ends the channel: its waiter is rejected, and the      *)
(* limit is remembered before the container is killed.                     *)
OutputLimit(j) == NoLine(j) /\ job[j].flooded /\ Return(j, "output_limit")

(* The compile, wall-clock or CPU deadline passes without a line.          *)
TimesOut(j) ==
  /\ NoLine(j) /\ ~job[j].flooded
  /\ Result(j, "time_limit", job[j].passed, job[j].spent, TRUE)
DeadlinePasses(j) == TimesOut(j)

ChannelEnds(j) == NoLine(j) /\ ~job[j].flooded /\ box[j].closed /\ Goto(j, "INSPECT")

(* classifyDockerExit of what `docker inspect` says; NoVerdict: nothing.   *)
Classified(b) ==
  CASE b.container # "EXITED" -> NoVerdict
    [] b.exit = "OOM"     -> "memory_limit"
    [] b.exit = "SIGKILL" -> "time_limit"
    [] b.exit = "CODE"    -> "runtime_error"
    [] b.exit = "ERROR"   -> NoVerdict
    [] b.exit = "NONE"    -> NoVerdict

(* Fault: whatever ended the sandbox, the program gets the blame.          *)
BadExitVerdict(b) == IF Classified(b) = NoVerdict THEN "runtime_error" ELSE Classified(b)
ExitVerdict(b) == IF Classified(b) = NoVerdict THEN "infrastructure_error" ELSE Classified(b)

Inspect(j, answered) ==
  /\ job[j].phase = "INSPECT"
  /\ Return(j, IF answered THEN ExitVerdict(box[j]) ELSE "infrastructure_error")
  /\ KeepDocker

(* finally: kill, remove the container, remove the volume, each only tried.*)
Killed(b) ==
  IF b.container = "RUNNING"
    THEN [b EXCEPT !.container = "EXITED", !.exit = "SIGKILL", !.closed = TRUE] ELSE b
Removed(b) ==
  [b EXCEPT !.container = "NONE", !.exit = "NONE", !.closed = (@ \/ b.container # "NONE")]
(* A volume in use stays.                                                  *)
VolumeRemoved(b) ==
  IF b.container = "NONE" THEN [b EXCEPT !.volume = "NONE"] ELSE b

Teardown(j, phase, next, effect) ==
  /\ job[j].phase = phase
  /\ Goto(j, next)
  /\ box' = [box EXCEPT ![j] = effect]
  /\ wire' = [wire EXCEPT ![j] = <<>>]
  /\ UNCHANGED sweep

KillContainer(j)   == Teardown(j, "KILL", "REMOVE", Killed(box[j]))
RemoveContainer(j) == Teardown(j, "REMOVE", "VOLUME", Removed(box[j]))
RemoveVolume(j)    == Teardown(j, "VOLUME", "DONE", VolumeRemoved(box[j]))

-----------------------------------------------------------------------------
(* The Docker daemon and the program.                                      *)

KeepAdapter == UNCHANGED <<job, fair, sweep>>

(* `docker run` creates the container, and the volume if it is not there.  *)
ContainerCreated(j) ==
  /\ job[j].spawned /\ ~box[j].closed /\ box[j].container = "NONE"
  /\ box' = [box EXCEPT ![j].container = "CREATED",
                        ![j].volume = IF @ = "NONE" THEN "STRAY" ELSE @]
  /\ KeepAdapter /\ UNCHANGED <<wire, deeds>>

(* The daemon cannot create or start it: the command line tool ends.       *)
ContainerFails(j) ==
  /\ job[j].spawned /\ ~box[j].closed /\ box[j].container \in {"NONE", "CREATED"}
  /\ box' = [box EXCEPT ![j].closed = TRUE,
                        ![j].container = IF @ = "CREATED" THEN "EXITED" ELSE @,
                        ![j].exit = IF box[j].container = "CREATED" THEN "ERROR" ELSE @]
  /\ KeepAdapter /\ UNCHANGED <<wire, deeds>>

ContainerStarts(j) ==
  /\ box[j].container = "CREATED" /\ ~box[j].closed
  /\ box' = [box EXCEPT ![j].container = "RUNNING"]
  /\ KeepAdapter /\ UNCHANGED <<wire, deeds>>

Running(j) == box[j].container = "RUNNING"

(* The harness says ready once, then answers the packet it was sent.       *)
Expected(j) ==
  IF job[j].phase = "READY"
    THEN IF "ready" \in deeds[j] THEN {} ELSE Messages \ {"right", "wrong"}
    ELSE IF job[j].phase = "CASE"
      THEN {"right", "wrong", "runtime_error", "memory_limit", "output_limit"}
      ELSE {}

ProgramSays(j, m) ==
  /\ Running(j) /\ wire[j] = <<>> /\ ~job[j].flooded
  /\ m \in Expected(j)
  /\ wire' = [wire EXCEPT ![j] = <<m>>]
  /\ deeds' = [deeds EXCEPT ![j] = @ \cup {m}]
  /\ KeepAdapter /\ UNCHANGED box

(* Output over the limit: the channel closes and kills the container.      *)
ProgramFloods(j) ==
  /\ Running(j) /\ Waiting(j) /\ ~job[j].flooded
  /\ job' = [job EXCEPT ![j].flooded = TRUE]
  /\ deeds' = [deeds EXCEPT ![j] = @ \cup {"flood"}]
  /\ box' = [box EXCEPT ![j] = Killed(@)]
  /\ UNCHANGED <<wire, fair, sweep>>

(* It exits, is killed for its memory, or for its CPU time; once the job   *)
(* has its verdict, nobody asks which.                                     *)
ProgramEnds(j, how) ==
  /\ Running(j) /\ how \in Ends /\ (Waiting(j) \/ how = "CODE")
  /\ box' = [box EXCEPT ![j].container = "EXITED", ![j].exit = how, ![j].closed = TRUE]
  /\ deeds' = [deeds EXCEPT ![j] = IF Waiting(j) THEN @ \cup {how} ELSE @]
  /\ KeepAdapter /\ UNCHANGED wire

(* What outlives its job for five minutes; no execution lasts so long.     *)
GrowsOld(j) ==
  /\ job[j].phase \in {"DONE", "DEAD"} /\ ~box[j].old
  /\ box[j].container # "NONE" \/ box[j].volume # "NONE"
  /\ box' = [box EXCEPT ![j].old = TRUE]
  /\ KeepAdapter /\ UNCHANGED <<wire, deeds>>

(* The runner process is gone, with all it knew of its jobs; what Docker   *)
(* holds stays behind.                                                     *)
ForgetJobs ==
  /\ job' = [j \in Jobs |->
               IF job[j].phase = "IDLE" THEN job[j]
               ELSE [NewJob EXCEPT !.phase = "DEAD", !.spawned = job[j].spawned]]
  /\ wire' = [j \in Jobs |-> <<>>]
  /\ deeds' = [j \in Jobs |-> {}]
  /\ UNCHANGED <<box, fair, sweep>>

-----------------------------------------------------------------------------
(* cleanupOrphans, by an instance that starts; one item of todo at a time. *)

KeepJobs == UNCHANGED <<job, wire, deeds, fair>>

SweepStarts ==
  /\ sweep.step = "NONE"
  /\ sweep' = [step |-> "INSPECT", at |-> {},
               todo |-> {j \in Jobs : box[j].container # "NONE"}]
  /\ KeepJobs /\ UNCHANGED box

At(step, j) == sweep.step = step /\ j \in sweep.at
Leave(step) == sweep' = [sweep EXCEPT !.step = step, !.at = {}]
StayWith(step, j) == sweep' = [sweep EXCEPT !.step = step, !.at = {j}]

Take(step, j) ==
  /\ sweep.step = step /\ sweep.at = {} /\ j \in sweep.todo

FreshAndRunning(j) == box[j].container = "RUNNING" /\ ~box[j].old

SweepInspects(j) ==
  /\ Take("INSPECT", j)
  /\ sweep' = IF box[j].container = "NONE" \/ FreshAndRunning(j)
                THEN [sweep EXCEPT !.todo = @ \ {j}]
                ELSE [step |-> "KILL", at |-> {j}, todo |-> sweep.todo \ {j}]
  /\ KeepJobs /\ UNCHANGED box

(* A command takes effect or fails; either way the next one is tried.      *)
SweepCommand(j, effect, after) ==
  /\ after
  /\ box' \in {box, [box EXCEPT ![j] = effect]}
  /\ KeepJobs

(* A job that still waits for its program will hear of its end.            *)
SweepKills(j) ==
  /\ At("KILL", j) /\ StayWith("REMOVE", j)
  /\ box' \in {box, [box EXCEPT ![j] = Killed(@)]}
  /\ deeds' = [deeds EXCEPT ![j] =
                 IF Waiting(j) /\ box' # box THEN @ \cup {"swept"} ELSE @]
  /\ UNCHANGED <<job, wire, fair>>
SweepRemoves(j) == At("REMOVE", j) /\ SweepCommand(j, Removed(box[j]), StayWith("VOLUME", j))
SweepFrees(j)   == At("VOLUME", j) /\ SweepCommand(j, VolumeRemoved(box[j]), Leave("INSPECT"))

(* Then the volumes that carry the label.                                  *)
SweepLists ==
  /\ sweep.step = "INSPECT" /\ sweep.at = {} /\ sweep.todo = {}
  /\ sweep' = [step |-> "LIST", at |-> {},
               todo |-> {j \in Jobs : box[j].volume \in {"NEW", "FULL"}}]
  /\ KeepJobs /\ UNCHANGED box

(* Fault: a volume without a container is an orphan, whatever its age.     *)
BadStale(j) == TRUE
Stale(j) == box[j].old

SweepChecksOwner(j) ==
  /\ Take("LIST", j)
  /\ sweep' = IF box[j].container # "NONE" THEN [sweep EXCEPT !.todo = @ \ {j}]
              ELSE [step |-> "AGE", at |-> {j}, todo |-> sweep.todo \ {j}]
  /\ KeepJobs /\ UNCHANGED box

SweepChecksAge(j) ==
  /\ At("AGE", j)
  /\ IF Stale(j) THEN StayWith("DROP", j) ELSE Leave("LIST")
  /\ KeepJobs /\ UNCHANGED box

SweepDrops(j) == At("DROP", j) /\ SweepCommand(j, VolumeRemoved(box[j]), Leave("LIST"))

SweepEnds ==
  /\ sweep.step = "LIST" /\ sweep.at = {} /\ sweep.todo = {}
  /\ sweep' = NoSweep
  /\ KeepJobs /\ UNCHANGED box

-----------------------------------------------------------------------------
Adapter(j) ==
  \/ WriteFiles(j) \/ CreateVolume(j) \/ StageAndRun(j) \/ StagingFails(j)
  \/ ReadReady(j) \/ OutputLimit(j) \/ DeadlinePasses(j) \/ ChannelEnds(j)
  \/ \E cost \in 0 .. RunBudget + 1 : ReadCase(j, cost, FALSE)
  \/ ReadCase(j, 0, TRUE)
  \/ \E answered \in BOOLEAN : Inspect(j, answered)
  \/ KillContainer(j) \/ RemoveContainer(j) \/ RemoveVolume(j)

Daemon(j) == ContainerCreated(j) \/ ContainerFails(j) \/ ContainerStarts(j)

Program(j) ==
  \/ \E m \in Messages : ProgramSays(j, m)
  \/ ProgramFloods(j)
  \/ \E how \in Ends : ProgramEnds(j, how)

Sweep ==
  \/ SweepLists \/ SweepEnds
  \/ \E j \in Jobs :
       \/ SweepInspects(j) \/ SweepKills(j) \/ SweepRemoves(j) \/ SweepFrees(j)
       \/ SweepChecksOwner(j) \/ SweepChecksAge(j) \/ SweepDrops(j)
=============================================================================
