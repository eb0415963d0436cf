-------------------------- MODULE RunnerChainProofs --------------------------
(***************************************************************************)
(* What an execution goes through on its way to the sandbox and back, for  *)
(* any number of attempts and cases, either adapter, and whatever is lost  *)
(* on the way: a verdict rests on what happened in the sandbox of its      *)
(* attempt, and a cleanup spares what is being staged.                     *)
(***************************************************************************)
EXTENDS RunnerChain, SequenceTheorems, FiniteSetTheorems, WellFoundedInduction, TLAPS

-----------------------------------------------------------------------------
(* The Docker adapter.  What is known of a job is said of its rows: what   *)
(* execute() knows (a), what Docker keeps (b), the lines on the wire (w)   *)
(* and what the program has done (d).                                      *)

JobRow == [phase : Phases, verdict : Verdicts \cup {NoVerdict},
           passed : 0 .. Cases, case : 0 .. Cases, spent : Nat,
           flooded : BOOLEAN, spawned : BOOLEAN]
BoxRow == [container : {"NONE", "CREATED", "RUNNING", "EXITED"},
           exit : Ends \cup {"NONE", "ERROR"},
           volume : {"NONE", "NEW", "FULL", "STRAY"},
           closed : BOOLEAN, old : BOOLEAN]
SweepRow == [step : {"NONE", "INSPECT", "KILL", "REMOVE", "VOLUME", "LIST",
                    "OWNER", "AGE", "DROP"},
             todo : SUBSET Jobs, at : SUBSET Jobs]
Deeds == Ends \cup Messages \cup {"flood", "swept"}

CaseMessages == {"right", "wrong", "runtime_error", "memory_limit", "output_limit"}
Listens(a) == a.phase \in {"READY", "CASE"}

(* Before the container is asked for, there is nothing.                    *)
Untouched(a, b, w, d) ==
  a.phase \in {"IDLE", "FILES", "STAGING"} =>
    /\ ~a.spawned /\ ~a.flooded /\ a.passed = 0 /\ a.case = 0 /\ a.spent = 0
    /\ b.container = "NONE" /\ ~b.closed /\ w = <<>> /\ d = {}

(* Before its "ready" the program has said at most one thing, and the      *)
(* volume of a container to come is there.                                 *)
GettingReady(a, b, w, d) ==
  a.phase = "READY" =>
    /\ a.passed = 0 /\ a.case = 0 /\ a.spent = 0
    /\ w # <<>> => w[1] \notin {"right", "wrong"}
    /\ \A m \in d \cap Messages : w = <<m>>
    /\ b.container = "NONE" /\ ~b.closed => b.volume = "FULL"

(* The count of the cases says what the program has answered.              *)
Counting(a, w, d) ==
  a.phase = "CASE" =>
    /\ a.passed <= a.case /\ a.case < Cases
    /\ w # <<>> => w[1] \in CaseMessages
    /\ a.passed < a.case => "wrong" \in d
    /\ a.passed = a.case => \A m \in d \cap Messages : m \in {"ready", "right"} \/ w = <<m>>

(* What is on the wire is the program's deed, and so is the end of its     *)
(* container, unless the channel killed it for its output or a cleanup did.*)
Heard(a, b, w, d) ==
  /\ Listens(a) /\ w # <<>> => w[1] \in d
  /\ Listens(a) /\ a.flooded => "flood" \in d
  /\ (Listens(a) \/ a.phase = "INSPECT") /\ b.container = "EXITED" =>
       /\ b.exit \in {"OOM", "CODE"} => b.exit \in d
       /\ b.exit = "SIGKILL" /\ ~a.flooded => d \cap {"SIGKILL", "swept"} # {}
  /\ a.phase = "INSPECT" => ~a.flooded

(* A channel is closed for good, only what has ended has an exit state,    *)
(* and what is inspected has ended.                                        *)
Boxed(a, b) ==
  /\ b.closed => b.container \in {"NONE", "EXITED"}
  /\ b.container # "EXITED" => b.exit = "NONE"
  /\ b.old => a.phase \in {"DONE", "DEAD"}
  /\ a.phase = "INSPECT" => b.closed \/ (~a.spawned /\ b.container = "NONE")

Concluded(a) == a.phase \in {"KILL", "REMOVE", "VOLUME", "DONE"} => a.verdict \in Verdicts

JobGood(a, b, w, d) ==
  /\ Untouched(a, b, w, d) /\ GettingReady(a, b, w, d) /\ Counting(a, w, d)
  /\ Heard(a, b, w, d) /\ Boxed(a, b) /\ Concluded(a)

OneLine(w) == w = <<>> \/ \E m \in Messages : w = <<m>>

(* The container of j has been there.                                      *)
Existed(b) == b.container # "NONE" \/ b.closed

SweepInv ==
  /\ sweep.step \in {"KILL", "REMOVE", "VOLUME"} => \A j \in sweep.at : Existed(box[j])
  /\ sweep.step = "DROP" => \A j \in sweep.at : box[j].old

DockerInv ==
  /\ DockerTypeOK
  /\ \A j \in Jobs : OneLine(wire[j]) /\ JobGood(job[j], box[j], wire[j], deeds[j]) /\ fair[j]
  /\ SweepInv

LEMMA DockerRows ==
  DockerTypeOK <=>
    /\ job \in [Jobs -> JobRow] /\ box \in [Jobs -> BoxRow]
    /\ wire \in [Jobs -> Seq(Messages)] /\ fair \in [Jobs -> BOOLEAN]
    /\ deeds \in [Jobs -> SUBSET Deeds]
    /\ sweep \in SweepRow
  BY DEF DockerTypeOK, JobRow, BoxRow, Deeds, SweepRow

(* A step that touches one job leaves the others as they are.              *)
JobStep(j, a, b, w, d, f) ==
  /\ job' = [job EXCEPT ![j] = a] /\ box' = [box EXCEPT ![j] = b]
  /\ wire' = [wire EXCEPT ![j] = w] /\ deeds' = [deeds EXCEPT ![j] = d]
  /\ fair' = [fair EXCEPT ![j] = f]

LEMMA OneJobMoves ==
  ASSUME DockerInv, NEW j \in Jobs, NEW a \in JobRow, NEW b \in BoxRow, NEW w, NEW d \in SUBSET Deeds,
         NEW f \in BOOLEAN, f, OneLine(w), JobStep(j, a, b, w, d, f), JobGood(a, b, w, d),
         Existed(box[j]) => Existed(b), box[j].old => b.old, UNCHANGED sweep
  PROVE  DockerInv'
<1>1. /\ job \in [Jobs -> JobRow] /\ box \in [Jobs -> BoxRow]
      /\ wire \in [Jobs -> Seq(Messages)] /\ fair \in [Jobs -> BOOLEAN]
      /\ deeds \in [Jobs -> SUBSET Deeds]
  BY DockerRows DEF DockerInv
<1>2. w \in Seq(Messages)
  <2>1. <<>> \in Seq(Messages) /\ \A m \in Messages : <<m>> \in Seq(Messages)
    OBVIOUS
  <2> QED
    BY <2>1 DEF OneLine
<1>3. /\ job' \in [Jobs -> JobRow] /\ box' \in [Jobs -> BoxRow]
      /\ wire' \in [Jobs -> Seq(Messages)] /\ fair' \in [Jobs -> BOOLEAN]
      /\ deeds' \in [Jobs -> SUBSET Deeds]
  BY <1>1, <1>2 DEF JobStep
<1>4. DockerTypeOK'
  BY <1>3 DEF DockerTypeOK, DockerInv, JobRow, BoxRow, Deeds
<1>5. /\ job'[j] = a /\ box'[j] = b /\ wire'[j] = w /\ deeds'[j] = d /\ fair'[j] = f
      /\ \A i \in Jobs : i # j =>
           /\ job'[i] = job[i] /\ box'[i] = box[i] /\ wire'[i] = wire[i]
           /\ deeds'[i] = deeds[i] /\ fair'[i] = fair[i]
  BY <1>1 DEF JobStep
<1>6. ASSUME NEW i \in Jobs
      PROVE  OneLine(wire'[i]) /\ JobGood(job'[i], box'[i], wire'[i], deeds'[i]) /\ fair'[i]
  <2>1. CASE i = j
    BY <1>5, <2>1
  <2>2. CASE i # j
    BY <1>5, <2>2 DEF DockerInv
  <2> QED
    BY <2>1, <2>2
<1>7. \A i \in Jobs : (Existed(box[i]) => Existed(box'[i])) /\ (box[i].old => box'[i].old)
  BY <1>5
<1>8. SweepInv'
  <2>1. sweep.at \subseteq Jobs
    BY DEF DockerInv, DockerTypeOK
  <2> QED
    BY <1>7, <2>1 DEF SweepInv, DockerInv
<1> QED
  BY <1>4, <1>6, <1>8 DEF DockerInv

LEMMA RowsOfAJob ==
  ASSUME DockerInv, NEW j \in Jobs
  PROVE  /\ job[j] \in JobRow /\ box[j] \in BoxRow /\ OneLine(wire[j])
         /\ deeds[j] \in SUBSET Deeds /\ fair[j] \in BOOLEAN /\ fair[j]
         /\ JobGood(job[j], box[j], wire[j], deeds[j])
         /\ job = [job EXCEPT ![j] = job[j]] /\ box = [box EXCEPT ![j] = box[j]]
         /\ wire = [wire EXCEPT ![j] = wire[j]] /\ deeds = [deeds EXCEPT ![j] = deeds[j]]
         /\ fair = [fair EXCEPT ![j] = fair[j]]
  BY DockerRows DEF DockerInv

(* execute() goes on to a phase and keeps what it knows.                   *)
SameBut(a, r) ==
  /\ a.verdict = r.verdict /\ a.passed = r.passed /\ a.case = r.case /\ a.spent = r.spent
  /\ a.flooded = r.flooded /\ a.spawned = r.spawned

LEMMA PhaseMoves ==
  ASSUME NEW r \in JobRow, NEW p \in Phases
  PROVE  LET a == [r EXCEPT !.phase = p] IN a \in JobRow /\ a.phase = p /\ SameBut(a, r)
  BY DEF JobRow, SameBut

LEMMA GotoMoves ==
  ASSUME DockerInv, NEW j \in Jobs, NEW p \in Phases, Goto(j, p),
         NEW b \in BoxRow, NEW w, OneLine(w),
         box' = [box EXCEPT ![j] = b], wire' = [wire EXCEPT ![j] = w], UNCHANGED sweep,
         Existed(box[j]) => Existed(b), box[j].old => b.old,
         \A a \in JobRow : a.phase = p /\ SameBut(a, job[j]) => JobGood(a, b, w, deeds[j])
  PROVE  DockerInv'
<1> DEFINE a == [job[j] EXCEPT !.phase = p]
<1>1. a \in JobRow /\ a.phase = p /\ SameBut(a, job[j])
  BY RowsOfAJob, PhaseMoves
<1>2. job' = [job EXCEPT ![j] = a]
  BY DEF Goto
<1> HIDE DEF a
<1>3. JobStep(j, a, b, w, deeds[j], fair[j])
  BY <1>2, RowsOfAJob DEF JobStep, Goto
<1>4. JobGood(a, b, w, deeds[j])
  BY <1>1
<1> QED
  BY <1>1, <1>3, <1>4, RowsOfAJob, OneJobMoves

(* execute() has its result: the counters are gone, the container is next. *)
LEMMA ResultMoves ==
  ASSUME DockerInv, NEW j \in Jobs, Listens(job[j]) \/ job[j].phase = "INSPECT",
         NEW verdict \in Verdicts, NEW passed \in 0 .. Cases, NEW spent \in Nat, NEW late,
         Result(j, verdict, passed, spent, late), BornOut(j, verdict, passed, spent, late),
         NEW w, OneLine(w), wire' = [wire EXCEPT ![j] = w], UNCHANGED <<box, sweep>>
  PROVE  DockerInv'
<1> DEFINE a == [NewJob EXCEPT !.phase = "KILL", !.verdict = verdict,
                               !.passed = passed, !.spawned = job[j].spawned]
<1>1. /\ a \in JobRow /\ a.phase = "KILL" /\ a.verdict = verdict
  <2>1. 0 \in 0 .. Cases /\ job[j].spawned \in BOOLEAN
    BY RowsOfAJob, ChainAssumption DEF JobRow
  <2> QED
    BY <2>1 DEF NewJob, JobRow, Phases
<1>2. job' = [job EXCEPT ![j] = a]
  BY DEF Result
<1> HIDE DEF a
<1>3. JobStep(j, a, box[j], w, {}, TRUE)
  BY <1>2, RowsOfAJob DEF JobStep, Result
<1>4. JobGood(a, box[j], w, {})
  BY <1>1, RowsOfAJob
     DEF JobGood, Untouched, GettingReady, Counting, Heard, Boxed, Concluded, Listens
<1> QED
  BY <1>1, <1>3, <1>4, RowsOfAJob, OneJobMoves

LEMMA EmptyOrOne ==
  ASSUME NEW w, OneLine(w)
  PROVE  w # <<>> => w[1] \in Messages /\ Head(w) = w[1] /\ Tail(w) = <<>> /\ w = <<w[1]>>
<1> SUFFICES ASSUME w # <<>>
             PROVE  w[1] \in Messages /\ Head(w) = w[1] /\ Tail(w) = <<>> /\ w = <<w[1]>>
  OBVIOUS
<1>1. PICK m \in Messages : w = <<m>>
  BY DEF OneLine
<1>2. w[1] = m /\ Head(w) = m
  BY <1>1
<1>3. Tail(<<m>>) = <<>>
  OBVIOUS
<1> QED
  BY <1>1, <1>2, <1>3

LEMMA StagingSteps ==
  ASSUME DockerInv, NEW j \in Jobs,
         RefuseSource(j) \/ WriteFiles(j) \/ CreateVolume(j) \/ StageAndRun(j) \/ StagingFails(j)
  PROVE  DockerInv'
<1> USE RowsOfAJob DEF KeepDocker
<1>1. CASE RefuseSource(j)
  <2> DEFINE a == [job[j] EXCEPT !.phase = "DONE", !.verdict = "source_limit"]
  <2>1. a \in JobRow /\ a.phase = "DONE" /\ a.verdict = "source_limit"
    BY DEF JobRow, Phases, Verdicts
  <2>2. JobStep(j, a, box[j], wire[j], deeds[j], fair[j])
    BY <1>1 DEF RefuseSource, JobStep
  <2> HIDE DEF a
  <2>3. JobGood(a, box[j], wire[j], deeds[j])
    BY <2>1 DEF JobGood, Untouched, GettingReady, Counting, Heard, Boxed, Concluded, Listens, Verdicts
  <2> QED
    BY <1>1, <2>1, <2>2, <2>3, OneJobMoves DEF RefuseSource
<1>2. CASE WriteFiles(j)
  <2>1. \A a \in JobRow : a.phase = "FILES" /\ SameBut(a, job[j]) => JobGood(a, box[j], wire[j], deeds[j])
    BY <1>2 DEF WriteFiles, SameBut, JobGood, Untouched, GettingReady, Counting, Heard, Boxed,
                Concluded, Listens
  <2> QED
    BY <1>2, <2>1, GotoMoves DEF WriteFiles, Phases
<1>3. CASE CreateVolume(j)
  <2> DEFINE b == [box[j] EXCEPT !.volume = "NEW"]
  <2>1. b \in BoxRow /\ b.container = box[j].container /\ b.closed = box[j].closed
        /\ b.old = box[j].old /\ b.exit = box[j].exit
    BY DEF BoxRow
  <2>2. box' = [box EXCEPT ![j] = b]
    BY <1>3 DEF CreateVolume
  <2> HIDE DEF b
  <2>3. \A a \in JobRow : a.phase = "STAGING" /\ SameBut(a, job[j]) => JobGood(a, b, wire[j], deeds[j])
    BY <1>3, <2>1 DEF CreateVolume, SameBut, JobGood, Untouched, GettingReady, Counting, Heard, Boxed,
                      Concluded, Listens
  <2>4. Goto(j, "STAGING") /\ "STAGING" \in Phases /\ wire' = [wire EXCEPT ![j] = wire[j]]
        /\ UNCHANGED sweep
    BY <1>3 DEF CreateVolume, Phases
  <2>5. (Existed(box[j]) => Existed(b)) /\ (box[j].old => b.old)
    BY <2>1 DEF Existed
  <2> QED
    BY <2>1, <2>2, <2>3, <2>4, <2>5, GotoMoves
<1>4. CASE StageAndRun(j)
  <2> DEFINE a == [job[j] EXCEPT !.phase = "READY", !.spawned = TRUE]
             b == [box[j] EXCEPT !.volume = "FULL"]
  <2>1. /\ a \in JobRow /\ a.phase = "READY" /\ a.passed = job[j].passed /\ a.case = job[j].case
        /\ a.spent = job[j].spent /\ a.flooded = job[j].flooded
    BY DEF JobRow, Phases
  <2>2. b \in BoxRow /\ b.container = box[j].container /\ b.closed = box[j].closed
        /\ b.old = box[j].old /\ b.exit = box[j].exit /\ b.volume = "FULL"
    BY DEF BoxRow
  <2>3. JobStep(j, a, b, wire[j], deeds[j], fair[j])
    BY <1>4 DEF StageAndRun, JobStep
  <2> HIDE DEF a, b
  <2>4. JobGood(a, b, wire[j], deeds[j])
    BY <1>4, <2>1, <2>2 DEF StageAndRun, JobGood, Untouched, GettingReady, Counting, Heard, Boxed,
                            Concluded, Listens
  <2> QED
    BY <1>4, <2>1, <2>2, <2>3, <2>4, OneJobMoves DEF StageAndRun, Existed
<1>5. CASE StagingFails(j)
  <2>1. \A a \in JobRow : a.phase = "INSPECT" /\ SameBut(a, job[j]) => JobGood(a, box[j], wire[j], deeds[j])
    BY <1>5 DEF StagingFails, SameBut, JobGood, Untouched, GettingReady, Counting, Heard, Boxed,
                Concluded, Listens
  <2> QED
    BY <1>5, <2>1, GotoMoves DEF StagingFails, Phases
<1> QED
  BY <1>1, <1>2, <1>3, <1>4, <1>5

(* The adapter reads a line: the first on the wire, and the only one.      *)
LEMMA ReadReadySteps ==
  ASSUME DockerInv, NEW j \in Jobs, ReadReady(j)
  PROVE  DockerInv'
<1> DEFINE m == wire[j][1]
<1>1. /\ job[j].phase = "READY" /\ wire[j] # <<>> /\ OneLine(wire[j])
      /\ job[j] \in JobRow /\ JobGood(job[j], box[j], wire[j], deeds[j])
      /\ deeds[j] \subseteq Deeds /\ Listens(job[j])
  BY RowsOfAJob DEF ReadReady, Receive, Listens
<1>2. m \in Messages /\ Head(wire[j]) = m /\ Tail(wire[j]) = <<>> /\ wire[j] = <<m>>
  BY <1>1, EmptyOrOne
<1>3. wire' = [wire EXCEPT ![j] = <<>>] /\ UNCHANGED <<box, sweep>> /\ OneLine(<<>>)
  BY <1>2 DEF ReadReady, Receive, OneLine
<1>4. m \in deeds[j] /\ m \notin {"right", "wrong"}
  BY <1>1 DEF JobGood, Heard, GettingReady, Listens
<1>5. \A x \in deeds[j] \cap Messages : x = m
  <2> SUFFICES ASSUME NEW x \in deeds[j] \cap Messages PROVE x = m
    OBVIOUS
  <2>1. wire[j] = <<x>>
    BY <1>1 DEF JobGood, GettingReady
  <2> QED
    BY <2>1
<1>6. /\ job[j].passed = 0 /\ job[j].case = 0 /\ job[j].spent = 0
      /\ job[j].passed \in 0 .. Cases /\ job[j].spent \in Nat
  BY <1>1 DEF JobGood, GettingReady, JobRow
<1>7. \/ m # "ready" /\ Return(j, m)
      \/ m = "ready" /\ Cases = 0 /\ Return(j, "accepted")
      \/ m = "ready" /\ Cases # 0 /\ Goto(j, "CASE")
  BY <1>2 DEF ReadReady
<1> HIDE DEF m
<1>8. CASE m # "ready" /\ Return(j, m)
  <2>1. m \in {"compile_error", "runtime_error", "memory_limit", "output_limit"}
    BY <1>2, <1>4, <1>8 DEF Messages
  <2>2. m \in Verdicts /\ BornOut(j, m, job[j].passed, job[j].spent, FALSE)
    BY <1>4, <2>1 DEF BornOut, Verdicts
  <2>3. Result(j, m, job[j].passed, job[j].spent, FALSE)
    BY <1>8 DEF Return
  <2> QED
    BY <1>1, <1>3, <1>6, <2>2, <2>3, ResultMoves
<1>9. CASE m = "ready" /\ Cases = 0 /\ Return(j, "accepted")
  <2>1. deeds[j] \cap Messages \subseteq {"ready", "right"}
    BY <1>5, <1>9
  <2>2. BornOut(j, "accepted", job[j].passed, job[j].spent, FALSE) /\ "accepted" \in Verdicts
    BY <1>6, <1>9, <2>1, ChainAssumption DEF BornOut, Verdicts
  <2>3. Result(j, "accepted", job[j].passed, job[j].spent, FALSE)
    BY <1>9 DEF Return
  <2> QED
    BY <1>1, <1>3, <1>6, <2>2, <2>3, ResultMoves
<1>10. CASE m = "ready" /\ Cases # 0 /\ Goto(j, "CASE")
  <2>1. ASSUME NEW a \in JobRow, a.phase = "CASE", SameBut(a, job[j])
        PROVE  JobGood(a, box[j], <<>>, deeds[j])
    <3>1. Counting(a, <<>>, deeds[j])
      BY <1>5, <1>6, <1>10, <2>1, ChainAssumption DEF Counting, SameBut
    <3>2. Heard(a, box[j], <<>>, deeds[j])
      BY <1>1, <2>1 DEF JobGood, Heard, SameBut, Listens
    <3>3. Boxed(a, box[j]) /\ Concluded(a) /\ Untouched(a, box[j], <<>>, deeds[j])
          /\ GettingReady(a, box[j], <<>>, deeds[j])
      BY <1>1, <2>1 DEF JobGood, Boxed, Concluded, Untouched, GettingReady, SameBut
    <3> QED
      BY <3>1, <3>2, <3>3 DEF JobGood
  <2>2. box' = [box EXCEPT ![j] = box[j]] /\ box[j] \in BoxRow /\ "CASE" \in Phases
    BY <1>3, RowsOfAJob DEF Phases
  <2> QED
    BY <1>3, <1>10, <2>1, <2>2, GotoMoves
<1> QED
  BY <1>7, <1>8, <1>9, <1>10

(* An answer: the count stays what the program has answered, and what is   *)
(* accepted has been right in every case.                                  *)
LEMMA ReadCaseSteps ==
  ASSUME DockerInv, NEW j \in Jobs, NEW cost \in Nat, NEW late \in BOOLEAN, ReadCase(j, cost, late)
  PROVE  DockerInv'
<1> DEFINE m      == wire[j][1]
           spent  == job[j].spent + cost
           passed == job[j].passed + (IF m = "right" THEN 1 ELSE 0)
<1>1. /\ job[j].phase = "CASE" /\ wire[j] # <<>> /\ OneLine(wire[j])
      /\ job[j] \in JobRow /\ JobGood(job[j], box[j], wire[j], deeds[j])
      /\ deeds[j] \subseteq Deeds /\ Listens(job[j])
  BY RowsOfAJob DEF ReadCase, Receive, Listens
<1>2. m \in Messages /\ Head(wire[j]) = m /\ Tail(wire[j]) = <<>> /\ wire[j] = <<m>>
  BY <1>1, EmptyOrOne
<1>3. wire' = [wire EXCEPT ![j] = <<>>] /\ UNCHANGED <<box, sweep>> /\ OneLine(<<>>)
  BY <1>2 DEF ReadCase, Receive, OneLine
<1>4. m \in deeds[j] /\ m \in CaseMessages
  BY <1>1 DEF JobGood, Heard, Counting, Listens
<1>5. /\ job[j].passed \in Nat /\ job[j].case \in Nat /\ job[j].spent \in Nat /\ Cases \in Nat
      /\ RunBudget \in Nat /\ job[j].passed <= job[j].case /\ job[j].case < Cases
      /\ (job[j].passed < job[j].case => "wrong" \in deeds[j])
      /\ job[j].passed \in 0 .. Cases
  BY <1>1, ChainAssumption DEF JobGood, Counting, JobRow
<1>6. job[j].passed = job[j].case => \A x \in deeds[j] \cap Messages : x \in {"ready", "right", m}
  <2> SUFFICES ASSUME job[j].passed = job[j].case, NEW x \in deeds[j] \cap Messages
               PROVE  x \in {"ready", "right", m}
    OBVIOUS
  <2>1. x \in {"ready", "right"} \/ wire[j] = <<x>>
    BY <1>1 DEF JobGood, Counting
  <2> QED
    BY <2>1
<1>7. /\ spent \in Nat /\ passed \in 0 .. Cases /\ passed <= job[j].case + 1
      /\ (m = "right" => passed = job[j].passed + 1) /\ (m # "right" => passed = job[j].passed)
  BY <1>5
<1> DEFINE over == late \/ spent > RunBudget
<1>8. \/ over /\ Result(j, "time_limit", job[j].passed, spent, late)
      \/ m \notin {"right", "wrong"} /\ Return(j, m)
      \/ ~over /\ m \in {"right", "wrong"} /\ job[j].case + 1 = Cases
           /\ Result(j, IF passed = Cases THEN "accepted" ELSE "wrong_answer", passed, spent, FALSE)
      \/ m \in {"right", "wrong"} /\ job[j].case + 1 # Cases /\ spent = RunBudget
           /\ Result(j, "time_limit", passed, spent, FALSE)
      \/ /\ m \in {"right", "wrong"} /\ job[j].case + 1 # Cases
         /\ job' = [job EXCEPT ![j].spent = spent, ![j].passed = passed, ![j].case = @ + 1]
         /\ UNCHANGED <<deeds, fair>>
  BY <1>2, Zenon DEF ReadCase, TotalTime
<1>9. ~over => spent <= RunBudget
  BY <1>5, <1>7
<1>10. \/ (late \/ spent > RunBudget) /\ Result(j, "time_limit", job[j].passed, spent, late)
       \/ m \notin {"right", "wrong"} /\ Return(j, m)
       \/ m \in {"right", "wrong"} /\ job[j].case + 1 = Cases /\ spent <= RunBudget
            /\ Result(j, IF passed = Cases THEN "accepted" ELSE "wrong_answer", passed, spent, FALSE)
       \/ m \in {"right", "wrong"} /\ job[j].case + 1 # Cases /\ spent = RunBudget
            /\ Result(j, "time_limit", passed, spent, FALSE)
       \/ /\ m \in {"right", "wrong"} /\ job[j].case + 1 # Cases
          /\ job' = [job EXCEPT ![j].spent = spent, ![j].passed = passed, ![j].case = @ + 1]
          /\ UNCHANGED <<deeds, fair>>
  BY <1>8, <1>9, Zenon
<1> HIDE DEF m, spent, passed, over
<1>11. \A p \in 0 .. Cases, x \in BOOLEAN :
        x \/ spent >= RunBudget => BornOut(j, "time_limit", p, spent, x) /\ "time_limit" \in Verdicts
  BY DEF BornOut, Verdicts
<1>12. CASE (late \/ spent > RunBudget) /\ Result(j, "time_limit", job[j].passed, spent, late)
  <2>1. BornOut(j, "time_limit", job[j].passed, spent, late) /\ "time_limit" \in Verdicts
    BY <1>5, <1>7, <1>11, <1>12
  <2> QED
    BY <1>1, <1>3, <1>5, <1>7, <1>12, <2>1, ResultMoves
<1>13. CASE m \notin {"right", "wrong"} /\ Return(j, m)
  <2>1. m \in {"runtime_error", "memory_limit", "output_limit"}
    BY <1>4, <1>13 DEF CaseMessages
  <2>2. m \in Verdicts /\ BornOut(j, m, job[j].passed, job[j].spent, FALSE)
    BY <1>4, <2>1 DEF BornOut, Verdicts
  <2>3. Result(j, m, job[j].passed, job[j].spent, FALSE)
    BY <1>13 DEF Return
  <2> QED
    BY <1>1, <1>3, <1>5, <2>2, <2>3, ResultMoves
<1>14. CASE /\ m \in {"right", "wrong"} /\ job[j].case + 1 = Cases /\ spent <= RunBudget
            /\ Result(j, IF passed = Cases THEN "accepted" ELSE "wrong_answer", passed, spent, FALSE)
  <2>1. CASE passed = Cases
    <3>1. m = "right" /\ job[j].passed = job[j].case
      BY <1>5, <1>7, <1>14, <2>1
    <3>2. deeds[j] \cap Messages \subseteq {"ready", "right"}
      BY <1>6, <3>1
    <3>3. BornOut(j, "accepted", passed, spent, FALSE) /\ "accepted" \in Verdicts
      BY <1>14, <2>1, <3>2 DEF BornOut, Verdicts
    <3>4. Result(j, "accepted", passed, spent, FALSE)
      BY <1>14, <2>1
    <3> QED
      BY <1>1, <1>3, <1>7, <3>3, <3>4, ResultMoves
  <2>2. CASE passed # Cases
    <3>1. "wrong" \in deeds[j]
      BY <1>4, <1>5, <1>7, <1>14, <2>2
    <3>2. BornOut(j, "wrong_answer", passed, spent, FALSE) /\ "wrong_answer" \in Verdicts
      BY <3>1 DEF BornOut, Verdicts
    <3>3. Result(j, "wrong_answer", passed, spent, FALSE)
      BY <1>14, <2>2
    <3> QED
      BY <1>1, <1>3, <1>7, <3>2, <3>3, ResultMoves
  <2> QED
    BY <2>1, <2>2
<1>15. CASE spent = RunBudget /\ Result(j, "time_limit", passed, spent, FALSE)
  <2>1. BornOut(j, "time_limit", passed, spent, FALSE) /\ "time_limit" \in Verdicts
    BY <1>5, <1>7, <1>15 DEF BornOut, Verdicts
  <2> QED
    BY <1>1, <1>3, <1>7, <1>15, <2>1, ResultMoves
<1>16. CASE /\ m \in {"right", "wrong"} /\ job[j].case + 1 # Cases
            /\ job' = [job EXCEPT ![j].spent = spent, ![j].passed = passed, ![j].case = @ + 1]
            /\ UNCHANGED <<deeds, fair>>
  <2> DEFINE a == [job[j] EXCEPT !.spent = spent, !.passed = passed, !.case = @ + 1]
  <2>1. /\ a \in JobRow /\ a.phase = job[j].phase /\ a.spent = spent /\ a.passed = passed
        /\ a.case = job[j].case + 1 /\ a.flooded = job[j].flooded
    <3>1. job[j].case + 1 \in 0 .. Cases
      BY <1>5
    <3> QED
      BY <1>1, <1>7, <3>1 DEF JobRow
  <2>2. JobStep(j, a, box[j], <<>>, deeds[j], fair[j])
    <3>1. job' = [job EXCEPT ![j] = a]
      BY <1>16
    <3> QED
      BY <1>3, <1>16, <3>1, RowsOfAJob DEF JobStep
  <2> HIDE DEF a
  <2>3. Counting(a, <<>>, deeds[j])
    <3>1. a.passed <= a.case /\ a.case < Cases
      BY <1>5, <1>7, <1>16, <2>1
    <3>2. a.passed < a.case => "wrong" \in deeds[j]
      BY <1>4, <1>5, <1>7, <1>16, <2>1
    <3>3. ASSUME a.passed = a.case PROVE \A x \in deeds[j] \cap Messages : x \in {"ready", "right"}
      <4>1. m = "right" /\ job[j].passed = job[j].case
        BY <1>5, <1>7, <2>1, <3>3
      <4> QED
        BY <1>6, <4>1
    <3> QED
      BY <3>1, <3>2, <3>3 DEF Counting
  <2>4. Heard(a, box[j], <<>>, deeds[j])
    BY <1>1, <2>1 DEF JobGood, Heard, Listens
  <2>5. Boxed(a, box[j]) /\ Concluded(a) /\ Untouched(a, box[j], <<>>, deeds[j])
        /\ GettingReady(a, box[j], <<>>, deeds[j])
    BY <1>1, <2>1 DEF JobGood, Boxed, Concluded, Untouched, GettingReady
  <2>6. JobGood(a, box[j], <<>>, deeds[j])
    BY <2>3, <2>4, <2>5 DEF JobGood
  <2> QED
    BY <1>3, <2>1, <2>2, <2>6, RowsOfAJob, OneJobMoves
<1> QED
  BY <1>10, <1>12, <1>13, <1>14, <1>15, <1>16

(* No line is there: a limit, the end of the channel, and what Docker says *)
(* of it.                                                                  *)
LEMMA EndSteps ==
  ASSUME DockerInv, NEW j \in Jobs,
         \/ OutputLimit(j) \/ DeadlinePasses(j) \/ ChannelEnds(j)
         \/ \E answered \in BOOLEAN : Inspect(j, answered)
  PROVE  DockerInv'
<1>1. /\ job[j] \in JobRow /\ box[j] \in BoxRow /\ OneLine(wire[j])
      /\ JobGood(job[j], box[j], wire[j], deeds[j])
      /\ box = [box EXCEPT ![j] = box[j]] /\ wire = [wire EXCEPT ![j] = wire[j]]
      /\ job[j].passed \in 0 .. Cases /\ job[j].spent \in Nat
  BY RowsOfAJob DEF JobRow
<1>2. UNCHANGED <<box, wire, sweep>>
  BY DEF OutputLimit, DeadlinePasses, TimesOut, ChannelEnds, Inspect, NoLine, KeepDocker
<1>3. ASSUME NEW v \in Verdicts, NEW late \in BOOLEAN, Result(j, v, job[j].passed, job[j].spent, late),
             BornOut(j, v, job[j].passed, job[j].spent, late),
             Listens(job[j]) \/ job[j].phase = "INSPECT"
      PROVE  DockerInv'
  <2>1. wire' = [wire EXCEPT ![j] = wire[j]] /\ UNCHANGED <<box, sweep>>
    BY <1>1, <1>2
  <2> QED
    BY <1>1, <1>3, <2>1, ResultMoves
<1>4. CASE OutputLimit(j)
  <2>1. /\ Listens(job[j]) /\ "flood" \in deeds[j]
        /\ Result(j, "output_limit", job[j].passed, job[j].spent, FALSE)
    BY <1>1, <1>4 DEF OutputLimit, Return, NoLine, Waiting, Listens, JobGood, Heard
  <2>2. BornOut(j, "output_limit", job[j].passed, job[j].spent, FALSE) /\ "output_limit" \in Verdicts
    BY <2>1 DEF BornOut, Verdicts
  <2> QED
    BY <1>3, <2>1, <2>2
<1>5. CASE DeadlinePasses(j)
  <2>1. Listens(job[j]) /\ Result(j, "time_limit", job[j].passed, job[j].spent, TRUE)
    BY <1>5 DEF DeadlinePasses, TimesOut, NoLine, Waiting, Listens
  <2>2. BornOut(j, "time_limit", job[j].passed, job[j].spent, TRUE) /\ "time_limit" \in Verdicts
    BY DEF BornOut, Verdicts
  <2> QED
    BY <1>3, <2>1, <2>2
<1>6. CASE ChannelEnds(j)
  <2>1. Listens(job[j]) /\ ~job[j].flooded /\ box[j].closed /\ Goto(j, "INSPECT")
        /\ "INSPECT" \in Phases
    BY <1>6 DEF ChannelEnds, NoLine, Waiting, Listens, Phases
  <2>2. ASSUME NEW a \in JobRow, a.phase = "INSPECT", SameBut(a, job[j])
        PROVE  JobGood(a, box[j], wire[j], deeds[j])
    BY <1>1, <2>1, <2>2
       DEF JobGood, Untouched, GettingReady, Counting, Heard, Boxed, Concluded, Listens, SameBut
  <2> QED
    BY <1>1, <1>2, <2>1, <2>2, GotoMoves
<1>7. ASSUME NEW answered \in BOOLEAN, Inspect(j, answered)
      PROVE  DockerInv'
  <2> DEFINE v == IF answered THEN ExitVerdict(box[j]) ELSE "infrastructure_error"
  <2>1. job[j].phase = "INSPECT" /\ Result(j, v, job[j].passed, job[j].spent, FALSE)
    BY <1>7 DEF Inspect, Return
  <2>2. /\ v \in {"memory_limit", "time_limit", "runtime_error", "infrastructure_error"}
        /\ v = "memory_limit" => box[j].container = "EXITED" /\ box[j].exit = "OOM"
        /\ v = "time_limit" => box[j].container = "EXITED" /\ box[j].exit = "SIGKILL"
        /\ v = "runtime_error" => box[j].container = "EXITED" /\ box[j].exit = "CODE"
    <3>1. box[j].container # "EXITED" => box[j].exit = "NONE"
      BY <1>1 DEF JobGood, Boxed
    <3>2. CASE box[j].exit = "NONE" \/ box[j].exit = "ERROR"
      <4>1. Classified(box[j]) = NoVerdict
        BY <3>1, <3>2 DEF Classified
      <4> QED
        BY <4>1 DEF ExitVerdict
    <3>3. CASE box[j].exit \in Ends
      <4>1. box[j].container = "EXITED"
        BY <3>1, <3>3 DEF Ends
      <4>2. /\ box[j].exit = "OOM" => Classified(box[j]) = "memory_limit"
            /\ box[j].exit = "SIGKILL" => Classified(box[j]) = "time_limit"
            /\ box[j].exit = "CODE" => Classified(box[j]) = "runtime_error"
        BY <4>1 DEF Classified
      <4> QED
        BY <3>3, <4>1, <4>2 DEF ExitVerdict, NoVerdict, Ends
    <3> QED
      BY <1>1, <3>2, <3>3 DEF BoxRow
  <2> HIDE DEF v
  <2>3. /\ v = "memory_limit" => "OOM" \in deeds[j]
        /\ v = "time_limit" => deeds[j] \cap {"SIGKILL", "swept"} # {}
        /\ v = "runtime_error" => "CODE" \in deeds[j]
    BY <1>1, <2>1, <2>2 DEF JobGood, Heard
  <2>4. v \in Verdicts /\ BornOut(j, v, job[j].passed, job[j].spent, FALSE)
    BY <2>2, <2>3 DEF BornOut, Verdicts
  <2> QED
    BY <1>3, <2>1, <2>4
<1> QED
  BY <1>4, <1>5, <1>6, <1>7

(* What a kill, a removal and the removal of a volume leave.               *)
LEMMA BoxEffects ==
  ASSUME NEW b \in BoxRow
  PROVE  /\ Killed(b) \in BoxRow /\ Removed(b) \in BoxRow /\ VolumeRemoved(b) \in BoxRow
         /\ Killed(b) = b
              \/ /\ b.container = "RUNNING" /\ Killed(b).container = "EXITED"
                 /\ Killed(b).exit = "SIGKILL" /\ Killed(b).closed
         /\ Killed(b).old = b.old /\ Killed(b).volume = b.volume
         /\ Removed(b).container = "NONE" /\ Removed(b).exit = "NONE"
         /\ Removed(b).volume = b.volume /\ Removed(b).old = b.old
         /\ Removed(b).closed = (b.closed \/ b.container # "NONE")
         /\ VolumeRemoved(b).container = b.container /\ VolumeRemoved(b).exit = b.exit
         /\ VolumeRemoved(b).closed = b.closed /\ VolumeRemoved(b).old = b.old
<1>1. Killed(b) \in BoxRow /\ Killed(b).old = b.old /\ Killed(b).volume = b.volume
  BY DEF Killed, BoxRow, Ends
<1>2. \/ Killed(b) = b
      \/ /\ b.container = "RUNNING" /\ Killed(b).container = "EXITED"
         /\ Killed(b).exit = "SIGKILL" /\ Killed(b).closed
  BY DEF Killed, BoxRow
<1>3. /\ Removed(b) \in BoxRow /\ Removed(b).container = "NONE" /\ Removed(b).exit = "NONE"
      /\ Removed(b).volume = b.volume /\ Removed(b).old = b.old
      /\ Removed(b).closed = (b.closed \/ b.container # "NONE")
  BY DEF Removed, BoxRow
<1>4. /\ VolumeRemoved(b) \in BoxRow
      /\ VolumeRemoved(b).container = b.container /\ VolumeRemoved(b).exit = b.exit
      /\ VolumeRemoved(b).closed = b.closed /\ VolumeRemoved(b).old = b.old
  BY DEF VolumeRemoved, BoxRow
<1> QED
  BY <1>1, <1>2, <1>3, <1>4

(* None of them disturbs a job, unless the volume goes of one which waits  *)
(* for its container; a kill while it waits is noted.                      *)
LEMMA CleaningIsSafe ==
  ASSUME NEW a, NEW b \in BoxRow, NEW w, NEW d, JobGood(a, b, w, d)
  PROVE  /\ Listens(a) => JobGood(a, Killed(b), w, d \cup {"swept"})
         /\ ~Listens(a) => JobGood(a, Killed(b), w, d)
         /\ JobGood(a, Removed(b), w, d)
         /\ Existed(b) \/ b.old => JobGood(a, VolumeRemoved(b), w, d)
         /\ Existed(b) => Existed(Killed(b)) /\ Existed(Removed(b)) /\ Existed(VolumeRemoved(b))
<1> USE DEF JobGood, Untouched, GettingReady, Counting, Heard, Boxed, Concluded, Existed, Listens
<1>1. /\ Listens(a) => JobGood(a, Killed(b), w, d \cup {"swept"})
      /\ ~Listens(a) => JobGood(a, Killed(b), w, d)
      /\ Existed(b) => Existed(Killed(b))
  <2> DEFINE k == Killed(b)
             e == d \cup {"swept"}
  <2>1. \/ k = b
        \/ /\ b.container = "RUNNING" /\ k.container = "EXITED" /\ k.exit = "SIGKILL" /\ k.closed
           /\ k.old = b.old
    BY BoxEffects
  <2>2. d \subseteq e /\ e \cap Messages = d \cap Messages /\ "swept" \in e
    BY DEF Messages
  <2> HIDE DEF k, e
  <2>3. ASSUME Listens(a) PROVE JobGood(a, k, w, e)
    <3>1. GettingReady(a, k, w, e) /\ Counting(a, w, e)
      BY <2>1, <2>2, <2>3
    <3>2. Untouched(a, k, w, e) /\ Heard(a, k, w, e) /\ Boxed(a, k) /\ Concluded(a)
      BY <2>1, <2>2, <2>3
    <3> QED
      BY <3>1, <3>2
  <2>4. ~Listens(a) => JobGood(a, k, w, d)
    BY <2>1
  <2>5. Existed(b) => Existed(k)
    BY <2>1
  <2> QED
    BY <2>3, <2>4, <2>5 DEF k, e
<1>2. JobGood(a, Removed(b), w, d) /\ (Existed(b) => Existed(Removed(b)))
  <2> DEFINE k == Removed(b)
  <2>1. /\ k.container = "NONE" /\ k.exit = "NONE" /\ k.volume = b.volume /\ k.old = b.old
        /\ k.closed = (b.closed \/ b.container # "NONE")
        /\ b.closed \in BOOLEAN
    BY BoxEffects DEF BoxRow
  <2> HIDE DEF k
  <2>2. JobGood(a, k, w, d) /\ (Existed(b) => Existed(k))
    BY <2>1
  <2> QED
    BY <2>2 DEF k
<1>3. /\ Existed(b) \/ b.old => JobGood(a, VolumeRemoved(b), w, d)
      /\ Existed(b) => Existed(VolumeRemoved(b))
  <2> DEFINE k == VolumeRemoved(b)
  <2>1. k.container = b.container /\ k.exit = b.exit /\ k.closed = b.closed /\ k.old = b.old
    BY BoxEffects
  <2> HIDE DEF k
  <2>2. /\ Existed(b) \/ b.old => JobGood(a, k, w, d)
        /\ Existed(b) => Existed(k)
    BY <2>1
  <2> QED
    BY <2>2 DEF k
<1> QED
  BY <1>1, <1>2, <1>3

(* finally: the container and the volume go, each step only tried.         *)
LEMMA TeardownSteps ==
  ASSUME DockerInv, NEW j \in Jobs, KillContainer(j) \/ RemoveContainer(j) \/ RemoveVolume(j)
  PROVE  DockerInv'
<1>1. /\ job[j] \in JobRow /\ box[j] \in BoxRow /\ OneLine(<<>>)
      /\ JobGood(job[j], box[j], wire[j], deeds[j])
  BY RowsOfAJob DEF OneLine
<1>2. ASSUME NEW phase \in {"KILL", "REMOVE", "VOLUME"}, NEW next \in {"REMOVE", "VOLUME", "DONE"},
             NEW b \in {Killed(box[j]), Removed(box[j]), VolumeRemoved(box[j])},
             Teardown(j, phase, next, b)
      PROVE  DockerInv'
  <2>1. b \in BoxRow /\ b.old = box[j].old
    BY <1>1, BoxEffects
  <2>2. job[j].phase = phase /\ Goto(j, next) /\ next \in Phases
        /\ box' = [box EXCEPT ![j] = b] /\ wire' = [wire EXCEPT ![j] = <<>>] /\ UNCHANGED sweep
    BY <1>2 DEF Teardown, Phases
  <2>3. ~box[j].old /\ job[j].verdict \in Verdicts
    BY <1>1, <2>2 DEF JobGood, Boxed, Concluded, BoxRow
  <2>4. Boxed(job[j], b) /\ (Existed(box[j]) => Existed(b))
    <3>1. Boxed(job[j], Killed(box[j])) /\ Boxed(job[j], Removed(box[j]))
      BY <1>1, <2>2, CleaningIsSafe DEF JobGood, Listens
    <3>2. Boxed(job[j], VolumeRemoved(box[j]))
      BY <1>1, BoxEffects DEF JobGood, Boxed
    <3>3. Existed(box[j]) => Existed(b)
      BY <1>1, CleaningIsSafe
    <3> QED
      BY <3>1, <3>2, <3>3
  <2>5. \A a \in JobRow : a.phase = next /\ SameBut(a, job[j]) => JobGood(a, b, <<>>, deeds[j])
    BY <2>1, <2>3, <2>4
       DEF JobGood, Untouched, GettingReady, Counting, Heard, Boxed, Concluded, Listens, SameBut
  <2>6. box[j].old => b.old
    BY <2>1
  <2>7. OneLine(<<>>)
    BY <1>1
  <2>8. next \in Phases /\ Goto(j, next) /\ b \in BoxRow /\ box' = [box EXCEPT ![j] = b]
        /\ wire' = [wire EXCEPT ![j] = <<>>] /\ UNCHANGED sweep /\ (Existed(box[j]) => Existed(b))
    BY <2>1, <2>2, <2>4
  <2> QED
    BY <2>5, <2>6, <2>7, <2>8, GotoMoves
<1>3. CASE KillContainer(j)
  BY <1>2, <1>3 DEF KillContainer
<1>4. CASE RemoveContainer(j)
  BY <1>2, <1>4 DEF RemoveContainer
<1>5. CASE RemoveVolume(j)
  BY <1>2, <1>5 DEF RemoveVolume
<1> QED
  BY <1>3, <1>4, <1>5

(* The daemon: a container comes, fails or starts.                         *)
LEMMA DaemonSteps ==
  ASSUME DockerInv, NEW j \in Jobs, Daemon(j) \/ GrowsOld(j)
  PROVE  DockerInv'
<1>1. /\ job[j] \in JobRow /\ box[j] \in BoxRow /\ OneLine(wire[j])
      /\ JobGood(job[j], box[j], wire[j], deeds[j])
  BY RowsOfAJob
<1>2. UNCHANGED <<job, wire, deeds, fair, sweep>>
  BY DEF Daemon, ContainerCreated, ContainerFails, ContainerStarts, GrowsOld, KeepAdapter
<1>3. ASSUME NEW b \in BoxRow, box' = [box EXCEPT ![j] = b], JobGood(job[j], b, wire[j], deeds[j]),
             Existed(box[j]) => Existed(b), box[j].old => b.old
      PROVE  DockerInv'
  <2>1. JobStep(j, job[j], b, wire[j], deeds[j], fair[j])
    BY <1>2, <1>3, RowsOfAJob DEF JobStep
  <2> QED
    BY <1>1, <1>2, <1>3, <2>1, RowsOfAJob, OneJobMoves
<1> USE DEF JobGood, Untouched, GettingReady, Counting, Heard, Boxed, Concluded, Listens, Existed
<1>4. CASE ContainerCreated(j)
  <2> DEFINE b == [box[j] EXCEPT !.container = "CREATED",
                                 !.volume = IF @ = "NONE" THEN "STRAY" ELSE @]
  <2>1. /\ b \in BoxRow /\ b.container = "CREATED" /\ b.closed = box[j].closed
        /\ b.old = box[j].old /\ b.exit = box[j].exit
    BY <1>1 DEF BoxRow
  <2>2. box' = [box EXCEPT ![j] = b] /\ job[j].spawned /\ ~box[j].closed /\ box[j].container = "NONE"
    BY <1>4 DEF ContainerCreated
  <2> HIDE DEF b
  <2>3. JobGood(job[j], b, wire[j], deeds[j]) /\ Existed(b)
    BY <1>1, <2>1, <2>2
  <2> QED
    BY <1>3, <2>1, <2>2, <2>3
<1>5. CASE ContainerFails(j)
  <2> DEFINE b == [box[j] EXCEPT !.closed = TRUE,
                     !.container = IF @ = "CREATED" THEN "EXITED" ELSE @,
                     !.exit = IF box[j].container = "CREATED" THEN "ERROR" ELSE @]
  <2>1. /\ b \in BoxRow /\ b.closed /\ b.old = box[j].old
        /\ \/ b.container = "EXITED" /\ b.exit = "ERROR" /\ box[j].container = "CREATED"
           \/ b.container = box[j].container /\ b.exit = box[j].exit /\ box[j].container # "CREATED"
    BY <1>1 DEF BoxRow
  <2>2. /\ box' = [box EXCEPT ![j] = b] /\ job[j].spawned /\ ~box[j].closed
        /\ box[j].container \in {"NONE", "CREATED"}
    BY <1>5 DEF ContainerFails
  <2> HIDE DEF b
  <2>3. JobGood(job[j], b, wire[j], deeds[j]) /\ Existed(b)
    BY <1>1, <2>1, <2>2
  <2> QED
    BY <1>3, <2>1, <2>2, <2>3
<1>6. CASE ContainerStarts(j)
  <2> DEFINE b == [box[j] EXCEPT !.container = "RUNNING"]
  <2>1. /\ b \in BoxRow /\ b.container = "RUNNING" /\ b.closed = box[j].closed
        /\ b.old = box[j].old /\ b.exit = box[j].exit
    BY <1>1 DEF BoxRow
  <2>2. box' = [box EXCEPT ![j] = b] /\ ~box[j].closed /\ box[j].container = "CREATED"
    BY <1>6 DEF ContainerStarts
  <2> HIDE DEF b
  <2>3. JobGood(job[j], b, wire[j], deeds[j]) /\ Existed(b)
    BY <1>1, <2>1, <2>2
  <2> QED
    BY <1>3, <2>1, <2>2, <2>3
<1>7. CASE GrowsOld(j)
  <2> DEFINE b == [box[j] EXCEPT !.old = TRUE]
  <2>1. /\ b \in BoxRow /\ b.container = box[j].container /\ b.closed = box[j].closed
        /\ b.old /\ b.exit = box[j].exit /\ b.volume = box[j].volume
    BY <1>1 DEF BoxRow
  <2>2. box' = [box EXCEPT ![j] = b] /\ job[j].phase \in {"DONE", "DEAD"}
    BY <1>7 DEF GrowsOld
  <2> HIDE DEF b
  <2>3. JobGood(job[j], b, wire[j], deeds[j]) /\ (Existed(box[j]) => Existed(b))
    BY <1>1, <2>1, <2>2
  <2> QED
    BY <1>3, <2>1, <2>2, <2>3
<1> QED
  BY <1>4, <1>5, <1>6, <1>7 DEF Daemon

(* The program speaks, floods its channel or ends: each is its own deed.   *)
LEMMA ProgramSteps ==
  ASSUME DockerInv, NEW j \in Jobs, Program(j)
  PROVE  DockerInv'
<1>1. /\ job[j] \in JobRow /\ box[j] \in BoxRow /\ OneLine(wire[j])
      /\ JobGood(job[j], box[j], wire[j], deeds[j]) /\ deeds[j] \in SUBSET Deeds
  BY RowsOfAJob
<1>2. ASSUME NEW m \in Messages, ProgramSays(j, m)
      PROVE  DockerInv'
  <2> DEFINE d == deeds[j] \cup {m}
  <2>1. /\ Running(j) /\ wire[j] = <<>> /\ ~job[j].flooded /\ m \in Expected(j)
        /\ wire' = [wire EXCEPT ![j] = <<m>>] /\ deeds' = [deeds EXCEPT ![j] = d]
        /\ UNCHANGED <<job, box, fair, sweep>>
    BY <1>2 DEF ProgramSays, KeepAdapter
  <2>2. JobStep(j, job[j], box[j], <<m>>, d, fair[j])
    BY <2>1, RowsOfAJob DEF JobStep
  <2>3. d \in SUBSET Deeds /\ OneLine(<<m>>)
    BY <1>1 DEF Deeds, OneLine
  <2>4. deeds[j] \subseteq d /\ m \in d /\ \A x \in d : x \in deeds[j] \/ x = m
    OBVIOUS
  <2> HIDE DEF d
  <2>5. CASE job[j].phase = "READY"
    <3>1. "ready" \notin deeds[j] /\ m \notin {"right", "wrong"}
      BY <2>1, <2>5 DEF Expected
    <3>2. \A x \in deeds[j] \cap Messages : FALSE
      <4>1. \A x \in deeds[j] \cap Messages : wire[j] = <<x>>
        BY <1>1, <2>5 DEF JobGood, GettingReady
      <4>2. \A x \in Messages : <<x>> # <<>>
        OBVIOUS
      <4> QED
        BY <2>1, <4>1, <4>2
    <3>3. \A x \in d \cap Messages : <<m>> = <<x>>
      BY <2>4, <3>2
    <3>4. GettingReady(job[j], box[j], <<m>>, d)
      BY <1>1, <2>5, <3>1, <3>3 DEF JobGood, GettingReady
    <3>5. Heard(job[j], box[j], <<m>>, d) /\ Boxed(job[j], box[j])
      BY <1>1, <2>4, <2>5 DEF JobGood, Heard, Boxed
    <3>6. JobGood(job[j], box[j], <<m>>, d)
      BY <1>1, <2>5, <3>4, <3>5 DEF JobGood, Untouched, Counting, Concluded
    <3> QED
      BY <1>1, <2>1, <2>2, <2>3, <3>6, RowsOfAJob, OneJobMoves
  <2>6. CASE job[j].phase = "CASE"
    <3>1. m \in CaseMessages
      BY <2>1, <2>6 DEF Expected, CaseMessages
    <3>2. ASSUME job[j].passed = job[j].case, NEW x \in d \cap Messages
          PROVE  x \in {"ready", "right"} \/ <<m>> = <<x>>
      <4>1. x \in deeds[j] => x \in {"ready", "right"} \/ wire[j] = <<x>>
        BY <1>1, <2>6, <3>2 DEF JobGood, Counting
      <4>2. <<x>> # <<>>
        OBVIOUS
      <4> QED
        BY <2>1, <2>4, <3>2, <4>1, <4>2
    <3>3. Counting(job[j], <<m>>, d)
      BY <1>1, <2>4, <2>6, <3>1, <3>2 DEF JobGood, Counting
    <3>4. Heard(job[j], box[j], <<m>>, d) /\ Boxed(job[j], box[j])
      BY <1>1, <2>4, <2>6 DEF JobGood, Heard, Boxed
    <3>5. JobGood(job[j], box[j], <<m>>, d)
      BY <1>1, <2>6, <3>3, <3>4 DEF JobGood, Untouched, GettingReady, Concluded
    <3> QED
      BY <1>1, <2>1, <2>2, <2>3, <3>5, RowsOfAJob, OneJobMoves
  <2> QED
    BY <2>1, <2>5, <2>6 DEF Expected
<1>3. CASE ProgramFloods(j)
  <2> DEFINE a == [job[j] EXCEPT !.flooded = TRUE]
             b == Killed(box[j])
             d == deeds[j] \cup {"flood"}
  <2>1. /\ a \in JobRow /\ a.phase = job[j].phase /\ a.passed = job[j].passed
        /\ a.case = job[j].case /\ a.spent = job[j].spent /\ a.verdict = job[j].verdict /\ a.flooded
    BY <1>1 DEF JobRow
  <2>2. /\ Listens(job[j]) /\ box[j].container = "RUNNING" /\ job' = [job EXCEPT ![j] = a]
        /\ box' = [box EXCEPT ![j] = b] /\ deeds' = [deeds EXCEPT ![j] = d]
        /\ UNCHANGED <<wire, fair, sweep>>
    BY <1>3 DEF ProgramFloods, Waiting, Running, Listens
  <2>3. d \in SUBSET Deeds /\ deeds[j] \subseteq d /\ "flood" \in d /\ d \cap Messages \subseteq deeds[j]
    BY <1>1 DEF Deeds, Messages
  <2>4. /\ b \in BoxRow /\ b.container = "EXITED" /\ b.exit = "SIGKILL" /\ b.closed
        /\ b.old = box[j].old
    BY <1>1, <2>2 DEF Killed, BoxRow, Ends
  <2> HIDE DEF a, b, d
  <2>5. JobStep(j, a, b, wire[j], d, fair[j])
    BY <2>2, RowsOfAJob DEF JobStep
  <2>6. GettingReady(a, b, wire[j], d) /\ Counting(a, wire[j], d)
    BY <1>1, <2>1, <2>3, <2>4 DEF JobGood, GettingReady, Counting
  <2>7. Untouched(a, b, wire[j], d) /\ Heard(a, b, wire[j], d) /\ Boxed(a, b) /\ Concluded(a)
    BY <1>1, <2>1, <2>2, <2>3, <2>4
       DEF JobGood, Untouched, Heard, Boxed, Concluded, Listens
  <2> QED
    BY <1>1, <2>1, <2>2, <2>3, <2>4, <2>5, <2>6, <2>7, RowsOfAJob, OneJobMoves DEF JobGood, Existed
<1>4. ASSUME NEW how \in Ends, ProgramEnds(j, how)
      PROVE  DockerInv'
  <2> DEFINE b == [box[j] EXCEPT !.container = "EXITED", !.exit = how, !.closed = TRUE]
             d == IF Waiting(j) THEN deeds[j] \cup {how} ELSE deeds[j]
  <2>1. box[j].container = "RUNNING" /\ box' = [box EXCEPT ![j] = b]
        /\ deeds' = [deeds EXCEPT ![j] = d] /\ UNCHANGED <<job, wire, fair, sweep>>
    BY <1>4 DEF ProgramEnds, Running, KeepAdapter
  <2>2. /\ b \in BoxRow /\ b.container = "EXITED" /\ b.exit = how /\ b.closed /\ b.old = box[j].old
    BY <1>1, <1>4 DEF BoxRow
  <2>3. /\ d \in SUBSET Deeds /\ deeds[j] \subseteq d /\ (Listens(job[j]) => how \in d)
        /\ d \cap Messages \subseteq deeds[j]
        /\ ~Listens(job[j]) => d = deeds[j]
    BY <1>1, <1>4 DEF Deeds, Messages, Ends, Listens, Waiting
  <2> HIDE DEF b, d
  <2>4. JobStep(j, job[j], b, wire[j], d, fair[j])
    BY <2>1, RowsOfAJob DEF JobStep
  <2>5. GettingReady(job[j], b, wire[j], d) /\ Counting(job[j], wire[j], d)
    BY <1>1, <2>2, <2>3 DEF JobGood, GettingReady, Counting
  <2>6. job[j].phase # "INSPECT" /\ job[j].phase \notin {"IDLE", "FILES", "STAGING"}
    BY <1>1, <2>1 DEF JobGood, Boxed, Untouched
  <2>7. Untouched(job[j], b, wire[j], d) /\ Heard(job[j], b, wire[j], d) /\ Boxed(job[j], b)
        /\ Concluded(job[j])
    BY <1>1, <2>2, <2>3, <2>6 DEF JobGood, Untouched, Heard, Boxed, Concluded
  <2> QED
    BY <1>1, <2>1, <2>2, <2>3, <2>4, <2>5, <2>7, RowsOfAJob, OneJobMoves DEF JobGood, Existed
<1> QED
  BY <1>2, <1>3, <1>4 DEF Program

(* The cleanup does one thing to one box, or nothing to any.               *)
LEMMA SweepMoves ==
  ASSUME DockerInv, NEW j \in Jobs, UNCHANGED <<job, wire, fair>>,
         NEW b \in BoxRow, box' = [box EXCEPT ![j] = b],
         NEW d \in SUBSET Deeds, deeds' = [deeds EXCEPT ![j] = d],
         JobGood(job[j], b, wire[j], d),
         Existed(box[j]) => Existed(b), box[j].old => b.old,
         NEW s \in SweepRow, sweep' = s,
         s.step \in {"KILL", "REMOVE", "VOLUME"} => \A i \in s.at : i = j /\ Existed(b),
         s.step = "DROP" => \A i \in s.at : i = j /\ b.old
  PROVE  DockerInv'
<1>1. /\ job \in [Jobs -> JobRow] /\ box \in [Jobs -> BoxRow]
      /\ wire \in [Jobs -> Seq(Messages)] /\ fair \in [Jobs -> BOOLEAN]
      /\ deeds \in [Jobs -> SUBSET Deeds]
  BY DockerRows DEF DockerInv
<1>2. box' \in [Jobs -> BoxRow] /\ deeds' \in [Jobs -> SUBSET Deeds]
  BY <1>1
<1>3. DockerTypeOK'
  BY <1>1, <1>2 DEF DockerTypeOK, JobRow, BoxRow, Deeds, SweepRow
<1>4. /\ box'[j] = b /\ deeds'[j] = d
      /\ \A i \in Jobs : i # j => box'[i] = box[i] /\ deeds'[i] = deeds[i]
  BY <1>1
<1>5. ASSUME NEW i \in Jobs
      PROVE  OneLine(wire'[i]) /\ JobGood(job'[i], box'[i], wire'[i], deeds'[i]) /\ fair'[i]
  <2>1. OneLine(wire[i]) /\ JobGood(job[i], box[i], wire[i], deeds[i]) /\ fair[i]
    BY DEF DockerInv
  <2>2. CASE i = j
    BY <1>4, <2>1, <2>2
  <2>3. CASE i # j
    BY <1>4, <2>1, <2>3
  <2> QED
    BY <2>2, <2>3
<1>6. SweepInv'
  BY <1>4 DEF SweepInv
<1> QED
  BY <1>3, <1>5, <1>6 DEF DockerInv

LEMMA SweepStartSteps ==
  ASSUME DockerInv, SweepStarts \/ SweepLists \/ SweepEnds
  PROVE  DockerInv'
<1>1. PICK j \in Jobs : TRUE
  BY ChainAssumption
<1>2. sweep' \in SweepRow /\ sweep'.step \in {"INSPECT", "LIST", "NONE"}
      /\ KeepJobs /\ UNCHANGED box
  BY DEF SweepStarts, SweepLists, SweepEnds, SweepRow, NoSweep
<1>3. PICK s \in SweepRow : sweep' = s
  BY <1>2
<1>4. UNCHANGED <<job, wire, fair>> /\ deeds' = [deeds EXCEPT ![j] = deeds[j]]
  BY <1>2, RowsOfAJob DEF KeepJobs
<1> QED
  BY <1>1, <1>2, <1>3, <1>4, RowsOfAJob, SweepMoves

LEMMA SweepSteps ==
  ASSUME DockerInv, NEW j \in Jobs,
         \/ SweepInspects(j) \/ SweepKills(j) \/ SweepRemoves(j) \/ SweepFrees(j)
         \/ SweepChecksOwner(j) \/ SweepChecksAge(j) \/ SweepDrops(j)
  PROVE  DockerInv'
<1>1. /\ box[j] \in BoxRow /\ JobGood(job[j], box[j], wire[j], deeds[j])
      /\ box = [box EXCEPT ![j] = box[j]] /\ sweep \in SweepRow
  BY RowsOfAJob, DockerRows DEF DockerInv, SweepRow
<1>2. /\ sweep.step \in {"KILL", "REMOVE", "VOLUME"} => \A i \in sweep.at : Existed(box[i])
      /\ sweep.step = "DROP" => \A i \in sweep.at : box[i].old
  BY DEF DockerInv, SweepInv
<1>3. ASSUME \/ SweepInspects(j) \/ SweepRemoves(j) \/ SweepFrees(j)
             \/ SweepChecksOwner(j) \/ SweepChecksAge(j) \/ SweepDrops(j)
      PROVE  KeepJobs
  BY <1>3 DEF SweepInspects, SweepRemoves, SweepFrees, SweepChecksOwner, SweepChecksAge,
              SweepDrops, SweepCommand
<1>4. ASSUME KeepJobs, NEW s \in SweepRow, sweep' = s, NEW b \in BoxRow, box' = [box EXCEPT ![j] = b],
             JobGood(job[j], b, wire[j], deeds[j]),
             Existed(box[j]) => Existed(b), box[j].old => b.old,
             s.step \in {"KILL", "REMOVE", "VOLUME"} => (\A i \in s.at : i = j) /\ Existed(b),
             s.step = "DROP" => (\A i \in s.at : i = j) /\ b.old
      PROVE  DockerInv'
  <2>1. UNCHANGED <<job, wire, fair>> /\ deeds' = [deeds EXCEPT ![j] = deeds[j]]
    BY <1>4, RowsOfAJob DEF KeepJobs
  <2> QED
    BY <1>4, <2>1, RowsOfAJob, SweepMoves
<1>5. ASSUME KeepJobs, NEW s \in SweepRow, sweep' = s, UNCHANGED box,
             s.step \in {"KILL", "REMOVE", "VOLUME"} => (\A i \in s.at : i = j) /\ Existed(box[j]),
             s.step = "DROP" => (\A i \in s.at : i = j) /\ box[j].old
      PROVE  DockerInv'
  BY <1>1, <1>4, <1>5
<1>6. ASSUME KeepJobs, NEW s \in SweepRow, sweep' = s, NEW b \in BoxRow, box' \in {box, [box EXCEPT ![j] = b]},
             JobGood(job[j], b, wire[j], deeds[j]), Existed(box[j]), Existed(b), b.old = box[j].old,
             s.step # "DROP", \A i \in s.at : i = j
      PROVE  DockerInv'
  <2>1. CASE box' = box
    BY <1>5, <1>6, <2>1
  <2>2. CASE box' = [box EXCEPT ![j] = b]
    BY <1>4, <1>6, <2>2
  <2> QED
    BY <1>6, <2>1, <2>2
<1>7. ASSUME NEW step \in {"INSPECT", "LIST", "REMOVE", "VOLUME", "DROP", "AGE", "KILL"}
      PROVE  /\ [sweep EXCEPT !.step = step, !.at = {j}] \in SweepRow
             /\ [sweep EXCEPT !.step = step, !.at = {j}].step = step
             /\ [sweep EXCEPT !.step = step, !.at = {j}].at = {j}
             /\ [sweep EXCEPT !.step = step, !.at = {}] \in SweepRow
             /\ [sweep EXCEPT !.step = step, !.at = {}].step = step
             /\ [sweep EXCEPT !.step = step, !.at = {}].at = {}
  BY <1>1 DEF SweepRow
<1>8. /\ Killed(box[j]) \in BoxRow /\ Removed(box[j]) \in BoxRow /\ VolumeRemoved(box[j]) \in BoxRow
      /\ Killed(box[j]).old = box[j].old /\ Removed(box[j]).old = box[j].old
      /\ VolumeRemoved(box[j]).old = box[j].old
      /\ Listens(job[j]) => JobGood(job[j], Killed(box[j]), wire[j], deeds[j] \cup {"swept"})
      /\ ~Listens(job[j]) => JobGood(job[j], Killed(box[j]), wire[j], deeds[j])
      /\ JobGood(job[j], Removed(box[j]), wire[j], deeds[j])
      /\ Existed(box[j]) \/ box[j].old => JobGood(job[j], VolumeRemoved(box[j]), wire[j], deeds[j])
      /\ Existed(box[j]) => /\ Existed(Killed(box[j])) /\ Existed(Removed(box[j]))
                            /\ Existed(VolumeRemoved(box[j]))
  BY <1>1, BoxEffects, CleaningIsSafe
<1>9. CASE SweepInspects(j)
  <2>1. CASE sweep' = [sweep EXCEPT !.todo = @ \ {j}]
    <3>1. sweep' \in SweepRow /\ sweep'.step = "INSPECT" /\ UNCHANGED box
      BY <1>1, <1>9, <2>1 DEF SweepRow, SweepInspects, Take
    <3>2. PICK s \in SweepRow : sweep' = s
      BY <3>1
    <3> QED
      BY <1>3, <1>5, <1>9, <3>1, <3>2
  <2>2. CASE /\ box[j].container # "NONE"
             /\ sweep' = [step |-> "KILL", at |-> {j}, todo |-> sweep.todo \ {j}]
    <3>1. /\ sweep' \in SweepRow /\ sweep'.at = {j} /\ sweep'.step = "KILL" /\ UNCHANGED box
      BY <1>1, <1>9, <2>2 DEF SweepRow, SweepInspects
    <3>2. PICK s \in SweepRow : sweep' = s
      BY <3>1
    <3>3. s.at = {j} /\ s.step = "KILL" /\ Existed(box[j])
      BY <2>2, <3>1, <3>2 DEF Existed
    <3> QED
      BY <1>3, <1>5, <1>9, <3>1, <3>2, <3>3
  <2> QED
    BY <1>9, <2>1, <2>2 DEF SweepInspects
<1>10. CASE SweepKills(j)
  <2> DEFINE d == IF Waiting(j) /\ box' # box THEN deeds[j] \cup {"swept"} ELSE deeds[j]
  <2>1. /\ sweep.step = "KILL" /\ j \in sweep.at /\ sweep' = [sweep EXCEPT !.step = "REMOVE", !.at = {j}]
        /\ box' \in {box, [box EXCEPT ![j] = Killed(box[j])]}
        /\ UNCHANGED <<job, wire, fair>> /\ deeds' = [deeds EXCEPT ![j] = d]
    BY <1>10 DEF SweepKills, At, StayWith
  <2>2. PICK s \in SweepRow : sweep' = s /\ s.at = {j} /\ s.step = "REMOVE"
    BY <1>7, <2>1
  <2>3. d \in SUBSET Deeds /\ Existed(box[j])
    BY <1>2, <2>1, RowsOfAJob DEF Deeds
  <2>4. Listens(job[j]) <=> Waiting(j)
    BY DEF Listens, Waiting
  <2>5. CASE box' = box
    <3>1. d = deeds[j]
      BY <2>5
    <3> HIDE DEF d
    <3> QED
      BY <1>1, <2>1, <2>2, <2>3, <2>5, <3>1, SweepMoves
  <2>6. CASE box' # box /\ box' = [box EXCEPT ![j] = Killed(box[j])]
    <3> DEFINE k == Killed(box[j])
    <3>1. JobGood(job[j], k, wire[j], d)
      BY <1>8, <2>4, <2>6
    <3>2. k \in BoxRow /\ Existed(k) /\ (box[j].old => k.old) /\ box' = [box EXCEPT ![j] = k]
      BY <1>8, <2>3, <2>6
    <3>3. UNCHANGED <<job, wire, fair>> /\ deeds' = [deeds EXCEPT ![j] = d] /\ d \in SUBSET Deeds
      BY <2>1, <2>3
    <3> HIDE DEF d, k
    <3> QED
      BY <2>2, <3>1, <3>2, <3>3, SweepMoves
  <2> QED
    BY <2>1, <2>5, <2>6
<1>11. CASE SweepRemoves(j)
  <2>1. sweep.step = "REMOVE" /\ j \in sweep.at /\ sweep' = [sweep EXCEPT !.step = "VOLUME", !.at = {j}]
        /\ box' \in {box, [box EXCEPT ![j] = Removed(box[j])]}
    BY <1>11 DEF SweepRemoves, At, SweepCommand, StayWith
  <2>2. PICK s \in SweepRow : sweep' = s /\ s.at = {j} /\ s.step = "VOLUME"
    BY <1>7, <2>1
  <2> QED
    BY <1>2, <1>3, <1>11, <1>6, <1>8, <2>1, <2>2
<1>12. CASE SweepFrees(j)
  <2>1. sweep.step = "VOLUME" /\ j \in sweep.at /\ sweep' = [sweep EXCEPT !.step = "INSPECT", !.at = {}]
        /\ box' \in {box, [box EXCEPT ![j] = VolumeRemoved(box[j])]}
    BY <1>12 DEF SweepFrees, At, SweepCommand, Leave
  <2>2. PICK s \in SweepRow : sweep' = s /\ s.at = {} /\ s.step = "INSPECT"
    BY <1>7, <2>1
  <2> QED
    BY <1>2, <1>3, <1>12, <1>6, <1>8, <2>1, <2>2
<1>13. CASE SweepChecksOwner(j)
  <2>1. /\ sweep' \in SweepRow /\ sweep'.step \in {"LIST", "AGE"} /\ UNCHANGED box
    BY <1>1, <1>13 DEF SweepRow, SweepChecksOwner, Take
  <2>2. PICK s \in SweepRow : sweep' = s
    BY <2>1
  <2> QED
    BY <1>3, <1>5, <1>13, <2>1, <2>2
<1>14. CASE SweepChecksAge(j)
  <2>1. CASE Stale(j)
    <3>1. sweep' = [sweep EXCEPT !.step = "DROP", !.at = {j}] /\ UNCHANGED box /\ box[j].old
      BY <1>14, <2>1 DEF SweepChecksAge, StayWith, Stale
    <3>2. PICK s \in SweepRow : sweep' = s /\ s.at = {j} /\ s.step = "DROP"
      BY <1>7, <3>1
    <3> QED
      BY <1>3, <1>5, <1>14, <3>1, <3>2
  <2>2. CASE ~Stale(j)
    <3>1. sweep' = [sweep EXCEPT !.step = "LIST", !.at = {}] /\ UNCHANGED box
      BY <1>14, <2>2 DEF SweepChecksAge, Leave
    <3>2. PICK s \in SweepRow : sweep' = s /\ s.at = {} /\ s.step = "LIST"
      BY <1>7, <3>1
    <3> QED
      BY <1>3, <1>5, <1>14, <3>1, <3>2
  <2> QED
    BY <2>1, <2>2
<1>15. CASE SweepDrops(j)
  <2>1. sweep.step = "DROP" /\ j \in sweep.at /\ sweep' = [sweep EXCEPT !.step = "LIST", !.at = {}]
        /\ box' \in {box, [box EXCEPT ![j] = VolumeRemoved(box[j])]}
    BY <1>15 DEF SweepDrops, At, SweepCommand, Leave
  <2>2. PICK s \in SweepRow : sweep' = s /\ s.at = {} /\ s.step = "LIST"
    BY <1>7, <2>1
  <2>3. CASE box' = box
    BY <1>3, <1>5, <1>15, <2>2, <2>3
  <2>4. CASE box' = [box EXCEPT ![j] = VolumeRemoved(box[j])]
    <3>1. box[j].old
      BY <1>2, <2>1
    <3>2. JobGood(job[j], VolumeRemoved(box[j]), wire[j], deeds[j])
      BY <1>8, <3>1
    <3> QED
      BY <1>3, <1>4, <1>8, <1>15, <2>2, <2>4, <3>1, <3>2
  <2> QED
    BY <2>1, <2>3, <2>4
<1> QED
  BY <1>9, <1>10, <1>11, <1>12, <1>13, <1>14, <1>15

(* The runner process ends: what Docker keeps for its jobs stays as it is. *)
LEMMA ForgetStep ==
  ASSUME DockerInv, ForgetJobs
  PROVE  DockerInv'
<1>1. /\ job \in [Jobs -> JobRow] /\ box \in [Jobs -> BoxRow] /\ fair \in [Jobs -> BOOLEAN]
  BY DockerRows DEF DockerInv
<1>2. <<>> \in Seq(Messages) /\ OneLine(<<>>)
  BY DEF OneLine
<1>3. ASSUME NEW j \in Jobs
      PROVE  job'[j] \in JobRow /\ JobGood(job'[j], box[j], <<>>, {})
  <2>1. job[j] \in JobRow /\ JobGood(job[j], box[j], wire[j], deeds[j])
    BY RowsOfAJob
  <2>2. CASE job[j].phase = "IDLE"
    <3>1. job'[j] = job[j]
      BY <2>2 DEF ForgetJobs
    <3> QED
      BY <2>1, <2>2, <3>1
         DEF JobGood, Untouched, GettingReady, Counting, Heard, Boxed, Concluded, Listens
  <2>3. CASE job[j].phase # "IDLE"
    <3> DEFINE a == [NewJob EXCEPT !.phase = "DEAD", !.spawned = job[j].spawned]
    <3>1. job'[j] = a
      BY <2>3 DEF ForgetJobs
    <3>2. a \in JobRow /\ a.phase = "DEAD"
      <4>1. 0 \in 0 .. Cases /\ job[j].spawned \in BOOLEAN
        BY <2>1, ChainAssumption DEF JobRow
      <4> QED
        BY <4>1 DEF NewJob, JobRow, Phases
    <3> HIDE DEF a
    <3>3. JobGood(a, box[j], <<>>, {})
      BY <2>1, <3>2
         DEF JobGood, Untouched, GettingReady, Counting, Heard, Boxed, Concluded, Listens
    <3> QED
      BY <3>1, <3>2, <3>3
  <2> QED
    BY <2>2, <2>3
<1>4. job' \in [Jobs -> JobRow]
  <2>1. job' = [j \in Jobs |-> job'[j]]
    BY DEF ForgetJobs
  <2> QED
    BY <1>3, <2>1
<1>5. DockerTypeOK'
  <2>1. wire' \in [Jobs -> Seq(Messages)] /\ deeds' \in [Jobs -> SUBSET Deeds]
    BY <1>2 DEF ForgetJobs
  <2> QED
    BY <1>1, <1>4, <2>1 DEF ForgetJobs, DockerTypeOK, DockerInv, JobRow, BoxRow, Deeds
<1>6. \A j \in Jobs : OneLine(wire'[j]) /\ JobGood(job'[j], box'[j], wire'[j], deeds'[j]) /\ fair'[j]
  BY <1>2, <1>3 DEF DockerInv, ForgetJobs
<1>7. SweepInv'
  BY DEF ForgetJobs, DockerInv, SweepInv
<1> QED
  BY <1>5, <1>6, <1>7 DEF DockerInv

LEMMA DockerInitially == Init => DockerInv
<1> SUFFICES ASSUME Init PROVE DockerInv
  OBVIOUS
<1> USE DEF Init, DockerInit
<1>1. 0 \in 0 .. Cases /\ 0 \in Nat /\ <<>> \in Seq(Messages) /\ {} \in SUBSET Deeds
  BY ChainAssumption
<1>2. NewJob \in JobRow /\ NewBox \in BoxRow
  BY <1>1 DEF NewJob, NewBox, JobRow, BoxRow, Phases, NoVerdict
<1>3. JobGood(NewJob, NewBox, <<>>, {})
  BY DEF JobGood, Untouched, GettingReady, Counting, Heard, Boxed, Concluded, Listens, NewJob, NewBox
<1>4. NoSweep \in SweepRow /\ NoSweep.step = "NONE"
  BY DEF NoSweep, SweepRow
<1>5. DockerTypeOK
  BY <1>1, <1>2, <1>4, DockerRows DEF SweepRow
<1>6. SweepInv
  BY <1>4 DEF SweepInv
<1> QED
  BY <1>3, <1>5, <1>6 DEF DockerInv, OneLine

(* Every step leaves the Docker adapter in order.                          *)
LEMMA DockerPreserved ==
  ASSUME DockerInv, [Next]_chainVars
  PROVE  DockerInv'
<1>1. ASSUME UNCHANGED dockerVars PROVE DockerInv'
  BY <1>1 DEF dockerVars, DockerInv, DockerTypeOK, JobGood, Untouched, GettingReady, Counting, Heard,
              Boxed, Concluded, Listens, OneLine, SweepInv, Existed
<1>2. CASE Coordinator
  <2>1. UNCHANGED dockerVars
    BY <1>2 DEF Coordinator, GoesOn, MarkRunning, SaveResult, SendRequest, RequestRefused, ResponseArrives,
                ResponseLost, RequestTimeout, ClientReturns, KeepAdapters
  <2> QED
    BY <1>1, <2>1
<1>3. CASE Server
  <2>1. CASE ServerCrashes \/ ProcessExits
    BY <2>1, ForgetStep DEF ServerCrashes, ProcessExits
  <2>2. CASE ~ServerCrashes /\ ~ProcessExits
    <3>1. SweepStarts \/ UNCHANGED dockerVars
      BY <1>3, <2>2 DEF Server, Shutdown, CutConnections, ServerStarts, OtherStarts
    <3> QED
      BY <1>1, <3>1, SweepStartSteps
  <2> QED
    BY <2>1, <2>2
<1>4. CASE DockerStep
  <2>1. ASSUME NEW j \in Jobs, RefuseSource(j) \/ Adapter(j)
        PROVE  DockerInv'
    <3>1. ASSUME NEW cost \in 0 .. RunBudget + 1, NEW late \in BOOLEAN, ReadCase(j, cost, late)
          PROVE  DockerInv'
      <4>1. cost \in Nat
        BY ChainAssumption
      <4> QED
        BY <3>1, <4>1, ReadCaseSteps
    <3>2. ASSUME NEW cost \in 0 .. RunBudget + 1, ReadCase(j, cost, FALSE) PROVE DockerInv'
      BY <3>1, <3>2
    <3>3. CASE ReadCase(j, 0, TRUE)
      <4>1. 0 \in 0 .. RunBudget + 1
        BY ChainAssumption
      <4> QED
        BY <3>1, <3>3, <4>1
    <3> QED
      BY <2>1, <3>2, <3>3, StagingSteps, ReadReadySteps, EndSteps, TeardownSteps DEF Adapter
  <2>2. ASSUME NEW j \in Jobs, Daemon(j) \/ Program(j) \/ GrowsOld(j)
        PROVE  DockerInv'
    BY <2>2, DaemonSteps, ProgramSteps
  <2>3. CASE Sweep
    BY <2>3, SweepStartSteps, SweepSteps DEF Sweep
  <2> QED
    BY <1>4, <2>1, <2>2, <2>3 DEF DockerStep, DockerExecutes
<1>5. CASE CloudflareStep \/ UNCHANGED chainVars
  BY <1>1, <1>5 DEF CloudflareStep, CloudflareExecutes, chainVars
<1> QED
  BY <1>2, <1>3, <1>4, <1>5 DEF Next

-----------------------------------------------------------------------------
(* The Cloudflare adapter: what a log may be, and what is read from it.    *)

Tokens == Answers \cup {"ready"}

LEMMA LogShape ==
  ASSUME NEW log \in Logs
  PROVE  /\ log \in Seq(Tokens) /\ Answered(log) \in Seq(Answers) /\ Len(Answered(log)) <= Cases
         /\ IsReady(log) => log = <<"ready">> \o Answered(log)
<1>1. CASE log = <<>>
  BY <1>1, ChainAssumption DEF Answered, IsReady
<1>2. ASSUME NEW a \in {"runtime_error", "memory_limit", "output_limit"}, log = <<a>>
      PROVE  /\ log \in Seq(Tokens) /\ Answered(log) \in Seq(Answers) /\ Len(Answered(log)) <= Cases
             /\ ~IsReady(log)
  <2>1. Head(log) = a /\ a # "ready" /\ a \in Tokens
    BY <1>2 DEF Tokens, Answers
  <2>2. ~IsReady(log) /\ Answered(log) = <<>>
    BY <2>1 DEF IsReady, Answered
  <2>3. log \in Seq(Tokens)
    BY <1>2, <2>1
  <2> QED
    BY <2>2, <2>3, ChainAssumption
<1>3. ASSUME NEW n \in 0 .. Cases, NEW s \in [1 .. n -> Answers], log = <<"ready">> \o s
      PROVE  /\ log \in Seq(Tokens) /\ Answered(log) = s /\ s \in Seq(Answers) /\ Len(s) = n
             /\ log = <<"ready">> \o Answered(log) /\ Len(Answered(log)) <= Cases
  <2>1. n \in Nat /\ s \in Seq(Answers) /\ Len(s) = n
    BY ChainAssumption
  <2>2. <<"ready">> \in Seq(Tokens) /\ s \in Seq(Tokens)
        /\ Len(<<"ready">>) = 1 /\ <<"ready">>[1] = "ready"
    BY <2>1 DEF Tokens
  <2>3. /\ log \in Seq(Tokens) /\ Len(log) = 1 + n
        /\ \A i \in 1 .. Len(<<"ready">>) + Len(s) :
             log[i] = IF i <= Len(<<"ready">>) THEN <<"ready">>[i] ELSE s[i - Len(<<"ready">>)]
    BY <1>3, <2>1, <2>2, ConcatProperties
  <2>4. log # <<>> /\ log[1] = "ready" /\ \A i \in 2 .. n + 1 : log[i] = s[i - 1]
    BY <2>1, <2>2, <2>3
  <2>5. Head(log) = "ready" /\ IsReady(log)
    BY <2>3, <2>4 DEF IsReady
  <2>6. Tail(log) = s
    <3>1. /\ Tail(log) \in Seq(Tokens) /\ Len(Tail(log)) = n
          /\ \A i \in 1 .. n : Tail(log)[i] = log[i + 1]
      BY <2>1, <2>3, <2>4, HeadTailProperties
    <3>2. \A i \in 1 .. n : log[i + 1] = s[i]
      BY <2>1, <2>4
    <3> QED
      BY <2>1, <3>1, <3>2
  <2> QED
    BY <1>3, <2>1, <2>3, <2>5, <2>6 DEF Answered
<1>4. \/ log = <<>>
      \/ \E a \in {"runtime_error", "memory_limit", "output_limit"} : log = <<a>>
      \/ \E n \in 0 .. Cases : \E s \in [1 .. n -> Answers] : log = <<"ready">> \o s
  BY DEF Logs
<1> QED
  BY <1>1, <1>2, <1>3, <1>4

(* The first answer that is an error is there whenever one is.             *)
LEMMA FirstBadExists ==
  ASSUME NEW answers \in Seq(Answers), FirstBad(answers) = {}
  PROVE  \A i \in 1 .. Len(answers) : answers[i] \in {"right", "wrong"}
<1> DEFINE bad == {i \in 1 .. Len(answers) : answers[i] \notin {"right", "wrong"}}
<1>1. SUFFICES ASSUME bad # {} PROVE FALSE
  OBVIOUS
<1>2. bad \subseteq Nat
  OBVIOUS
<1>3. PICK i \in bad : \A k \in bad : ~(<<k, i>> \in OpToRel(<, Nat))
  BY <1>1, <1>2, WFMin, NatLessThanWellFounded
<1>4. \A k \in bad : ~(k < i)
  BY <1>2, <1>3 DEF OpToRel
<1>5. \A k \in 1 .. i - 1 : answers[k] \in {"right", "wrong"}
  BY <1>4
<1> QED
  BY <1>5 DEF FirstBad

(* The count of the cases passed, and the error that ended the program.    *)
LEMMA PassedIsBounded ==
  ASSUME NEW log \in Logs
  PROVE  PassedOf(log) \in 0 .. Cases
<1> DEFINE answers == Answered(log)
           bad == FirstBad(answers)
           upTo == IF bad = {} THEN Len(answers) ELSE CHOOSE i \in bad : TRUE
           right == {i \in 1 .. upTo : answers[i] = "right"}
<1>1. answers \in Seq(Answers) /\ Len(answers) <= Cases /\ Len(answers) \in Nat
  BY LogShape
<1>2. bad \subseteq 1 .. Len(answers)
  BY DEF FirstBad
<1>3. upTo \in 0 .. Len(answers)
  BY <1>1, <1>2
<1> HIDE DEF upTo, bad, answers
<1>4. right \in SUBSET (1 .. Cases)
  BY <1>1, <1>3, ChainAssumption
<1>5. IsFiniteSet(1 .. Cases) /\ Cardinality(1 .. Cases) = Cases
  BY FS_Interval, ChainAssumption
<1>6. IsFiniteSet(right) /\ Cardinality(right) <= Cases
  BY <1>4, <1>5, FS_Subset
<1>7. Cardinality(right) \in Nat
  BY <1>6, FS_CardinalityType
<1>8. Cardinality(right) \in 0 .. Cases
  BY <1>6, <1>7, ChainAssumption
<1> QED
  BY <1>8 DEF PassedOf, upTo, bad, answers

(* The answers stand in the log, after its "ready".                        *)
LEMMA AnswersAreWritten ==
  ASSUME NEW log \in Logs, IsReady(log), NEW i \in 1 .. Len(Answered(log))
  PROVE  i + 1 \in DOMAIN log /\ log[i + 1] = Answered(log)[i]
<1> DEFINE answers == Answered(log)
<1>1. answers \in Seq(Answers) /\ log = <<"ready">> \o answers
  BY LogShape
<1>2. i \in Nat /\ i >= 1 /\ i <= Len(answers) /\ Len(answers) \in Nat
  BY <1>1
<1> HIDE DEF answers
<1>3. <<"ready">> \in Seq(Tokens) /\ answers \in Seq(Tokens) /\ Len(<<"ready">>) = 1
  BY <1>1 DEF Tokens
<1>4. /\ log \in Seq(Tokens) /\ Len(log) = 1 + Len(answers)
      /\ \A k \in 1 .. 1 + Len(answers) :
           log[k] = IF k <= 1 THEN <<"ready">>[k] ELSE answers[k - 1]
  BY <1>1, <1>3, ConcatProperties
<1>5. DOMAIN log = 1 .. Len(log)
  BY <1>4
<1>6. i + 1 \in DOMAIN log /\ log[i + 1] = answers[i]
  BY <1>2, <1>4, <1>5
<1> QED
  BY <1>6 DEF answers

LEMMA TerminalIsAnError ==
  ASSUME NEW log \in Logs
  PROVE  /\ Terminal(log) \in {"runtime_error", "memory_limit", "output_limit", NoVerdict}
         /\ Terminal(log) = NoVerdict => IsReady(log) /\ FirstBad(Answered(log)) = {}
         /\ Terminal(log) # NoVerdict =>
              \/ ~IsReady(log) /\ Terminal(log) = "runtime_error"
              \/ \E k \in DOMAIN log : log[k] = Terminal(log)
<1> DEFINE i == CHOOSE k \in FirstBad(Answered(log)) : TRUE
<1>1. CASE ~IsReady(log)
  BY <1>1 DEF Terminal, NoVerdict
<1>2. CASE IsReady(log) /\ FirstBad(Answered(log)) = {}
  BY <1>2 DEF Terminal
<1>3. CASE IsReady(log) /\ FirstBad(Answered(log)) # {}
  <2>1. i \in FirstBad(Answered(log)) /\ Terminal(log) = Answered(log)[i]
    BY <1>3 DEF Terminal
  <2> HIDE DEF i
  <2>2. i \in 1 .. Len(Answered(log)) /\ Answered(log)[i] \notin {"right", "wrong"}
    BY <2>1 DEF FirstBad
  <2>3. Answered(log)[i] \in Answers
    BY <2>2, LogShape
  <2>4. i + 1 \in DOMAIN log /\ log[i + 1] = Terminal(log)
    BY <1>3, <2>1, <2>2, AnswersAreWritten
  <2>5. Terminal(log) \in {"runtime_error", "memory_limit", "output_limit"}
    BY <2>1, <2>2, <2>3 DEF Answers
  <2> QED
    BY <2>4, <2>5 DEF NoVerdict
<1> QED
  BY <1>1, <1>2, <1>3

ReportRow == [log : Logs, packet : SupervisorStatus \cup {NoVerdict}, code : {0, 1}, end : Outcomes]

(* What the supervisor says is how the job ended.                          *)
WellReported(r) ==
  /\ r.packet = "ok" => r.end = "zero"
  /\ r.packet = "compile_error" => r.end = "compiler"
  /\ r.packet = "time_limit" => r.end = "limit"
  /\ r.packet = "runtime_error" => r.end = "other"
  /\ r.packet = "output_limit" => r.end = "space"
  /\ r.packet # "memory_limit"

(* What is read from a report is borne out by it.                          *)
LEMMA ReadingIsHonest ==
  ASSUME NEW r \in ReportRow, WellReported(r)
  PROVE  Interpreted(r) \in Verdicts /\ Earned(r, Interpreted(r))
<1> DEFINE answers == Answered(r.log)
<1>1. r.log \in Logs /\ r.packet \in SupervisorStatus \cup {NoVerdict}
  BY DEF ReportRow
<1>2. CASE r.packet = NoVerdict
  <2>1. Interpreted(r) = "infrastructure_error"
    BY <1>2 DEF Interpreted
  <2> QED
    BY <2>1 DEF Verdicts, Earned
<1>3. CASE r.packet # NoVerdict /\ r.packet # "ok"
  <2>1. Interpreted(r) = r.packet
    BY <1>3 DEF Interpreted
  <2>2. r.packet \in Verdicts \ {"accepted", "wrong_answer", "source_limit"}
    BY <1>1, <1>3 DEF SupervisorStatus
  <2> HIDE DEF answers
  <2>3. r.packet \in Verdicts
    BY <2>2
  <2>4. r.packet \in {"compile_error", "runtime_error", "time_limit", "output_limit", "infrastructure_error"}
    BY <2>2 DEF Verdicts, WellReported
  <2>5. Earned(r, r.packet)
    BY <2>4 DEF Earned, WellReported
  <2> QED
    BY <2>1, <2>3, <2>5
<1>4. CASE r.packet = "ok" /\ Terminal(r.log) # NoVerdict
  <2>1. Interpreted(r) = Terminal(r.log)
    BY <1>4 DEF Interpreted, NoVerdict
  <2>2. Interpreted(r) \in {"runtime_error", "memory_limit", "output_limit"}
    BY <1>1, <1>4, <2>1, TerminalIsAnError
  <2> HIDE DEF answers
  <2>3. r.end = "zero"
    BY <1>4 DEF WellReported
  <2>4. \/ ~IsReady(r.log) /\ Interpreted(r) = "runtime_error"
        \/ Wrote(r, Interpreted(r))
    BY <1>1, <1>4, <2>1, TerminalIsAnError DEF Wrote
  <2>5. Earned(r, Interpreted(r))
    <3>1. CASE ~IsReady(r.log) /\ Interpreted(r) = "runtime_error"
      BY <2>3, <3>1 DEF Earned, EndedEarly
    <3>2. CASE Wrote(r, Interpreted(r))
      BY <2>2, <3>2 DEF Earned
    <3> QED
      BY <2>4, <3>1, <3>2
  <2> QED
    BY <2>2, <2>5 DEF Verdicts
<1>5. CASE r.packet = "ok" /\ Terminal(r.log) = NoVerdict /\ Integrity(r) # NoVerdict
  <2>1. Interpreted(r) = Integrity(r)
    BY <1>5 DEF Interpreted, NoVerdict
  <2>2. \/ Interpreted(r) = "infrastructure_error"
        \/ Interpreted(r) = "runtime_error" /\ Len(answers) # Cases
    BY <1>5, <2>1 DEF Integrity
  <2>3. r.end = "zero"
    BY <1>5 DEF WellReported
  <2> QED
    BY <2>2, <2>3 DEF Verdicts, Earned, EndedEarly
<1>6. CASE r.packet = "ok" /\ Terminal(r.log) = NoVerdict /\ Integrity(r) = NoVerdict
  <2>1. IsReady(r.log) /\ FirstBad(answers) = {}
    BY <1>1, <1>6, TerminalIsAnError
  <2>2. Len(answers) = Cases
    BY <1>6 DEF Integrity, NoVerdict
  <2>3. answers \in Seq(Answers) /\ r.log = <<"ready">> \o answers
    BY <1>1, <2>1, LogShape
  <2>4. \A i \in 1 .. Cases : answers[i] \in {"right", "wrong"}
    BY <2>1, <2>2, <2>3, FirstBadExists
  <2>5. Interpreted(r) = IF PassedOf(r.log) = Cases THEN "accepted" ELSE "wrong_answer"
    BY <1>6 DEF Interpreted, NoVerdict
  <2> DEFINE right == {i \in 1 .. Cases : answers[i] = "right"}
  <2>6. PassedOf(r.log) = Cardinality(right)
    BY <2>1, <2>2 DEF PassedOf
  <2>7. IsFiniteSet(1 .. Cases) /\ Cardinality(1 .. Cases) = Cases
    BY FS_Interval, ChainAssumption
  <2>8. right \in SUBSET (1 .. Cases)
    OBVIOUS
  <2>9. CASE PassedOf(r.log) = Cases
    <3>1. right = 1 .. Cases
      BY <2>6, <2>7, <2>8, <2>9, FS_Subset
    <3>2. \A i \in 1 .. Cases : answers[i] = "right"
      BY <3>1
    <3>3. answers = [i \in 1 .. Cases |-> "right"]
      BY <2>2, <2>3, <3>2
    <3>4. Interpreted(r) = "accepted" /\ r.end = "zero"
      BY <1>6, <2>5, <2>9 DEF WellReported
    <3>5. r.log = AllRight
      BY <2>3, <3>3 DEF AllRight
    <3> HIDE DEF answers
    <3> QED
      BY <3>4, <3>5 DEF Earned, Verdicts
  <2>10. CASE PassedOf(r.log) # Cases
    <3>1. right # 1 .. Cases
      BY <2>6, <2>7, <2>10
    <3>2. PICK i \in 1 .. Cases : answers[i] # "right"
      BY <2>8, <3>1
    <3>3. answers[i] = "wrong"
      BY <2>4, <3>2
    <3>4. i \in 1 .. Len(answers)
      BY <2>2
    <3> HIDE DEF right
    <3>5. i + 1 \in DOMAIN r.log /\ r.log[i + 1] = answers[i]
      BY <1>1, <2>1, <3>4, AnswersAreWritten
    <3> HIDE DEF answers
    <3>6. Interpreted(r) = "wrong_answer"
      BY <2>5, <2>10
    <3>7. Wrote(r, "wrong")
      BY <3>3, <3>5 DEF Wrote
    <3> QED
      BY <3>6, <3>7 DEF Earned, Verdicts
  <2> QED
    BY <2>9, <2>10
<1> QED
  BY <1>2, <1>3, <1>4, <1>5, <1>6

-----------------------------------------------------------------------------
(* The Cloudflare adapter, step by step.                                   *)

SbxRow == [step : Steps, verdict : Verdicts \cup {NoVerdict}, passed : 0 .. Cases,
           alive : BOOLEAN, process : {"NONE", "RUNNING", "ENDED"}, stop : BOOLEAN]

(* Once execute() is in its finally, it has a verdict.                     *)
SbxGood(s) == s.step \in {"STOP", "DESTROY", "DONE"} => s.verdict \in Verdicts

CloudflareInv ==
  /\ sbx \in [Jobs -> SbxRow] /\ report \in [Jobs -> ReportRow] /\ earned \in [Jobs -> BOOLEAN]
  /\ \A j \in Jobs : SbxGood(sbx[j]) /\ WellReported(report[j]) /\ earned[j]

LEMMA NoReportIsOne == NoReport \in ReportRow /\ WellReported(NoReport)
<1>1. <<>> \in Logs
  BY DEF Logs
<1> QED
  BY <1>1 DEF NoReport, ReportRow, WellReported, NoVerdict, Outcomes

LEMMA SandboxMoves ==
  ASSUME CloudflareInv, NEW j \in Jobs, NEW s \in SbxRow, NEW r \in ReportRow,
         sbx' = [sbx EXCEPT ![j] = s], report' = [report EXCEPT ![j] = r],
         earned' = [earned EXCEPT ![j] = TRUE], SbxGood(s), WellReported(r)
  PROVE  CloudflareInv'
<1>1. /\ sbx' \in [Jobs -> SbxRow] /\ report' \in [Jobs -> ReportRow]
      /\ earned' \in [Jobs -> BOOLEAN]
  BY DEF CloudflareInv
<1>2. ASSUME NEW i \in Jobs PROVE SbxGood(sbx'[i]) /\ WellReported(report'[i]) /\ earned'[i]
  <2>1. CASE i = j
    BY <2>1 DEF CloudflareInv
  <2>2. CASE i # j
    BY <2>2 DEF CloudflareInv
  <2> QED
    BY <2>1, <2>2
<1> QED
  BY <1>1, <1>2 DEF CloudflareInv

LEMMA SandboxRows ==
  ASSUME CloudflareInv, NEW j \in Jobs
  PROVE  /\ sbx[j] \in SbxRow /\ report[j] \in ReportRow /\ earned[j] = TRUE
         /\ SbxGood(sbx[j]) /\ WellReported(report[j])
         /\ report = [report EXCEPT ![j] = report[j]] /\ earned = [earned EXCEPT ![j] = TRUE]
  BY DEF CloudflareInv

(* The judge in the sandbox writes a report.                               *)
LEMMA ReportMoves ==
  ASSUME CloudflareInv, NEW j \in Jobs, NEW log \in Logs,
         NEW packet \in SupervisorStatus \cup {NoVerdict}, NEW code \in {0, 1},
         NEW end \in Outcomes, Report(j, log, packet, code, end),
         WellReported([log |-> log, packet |-> packet, code |-> code, end |-> end])
  PROVE  CloudflareInv'
<1> DEFINE s == [sbx[j] EXCEPT !.process = "ENDED"]
           r == [log |-> log, packet |-> packet, code |-> code, end |-> end]
<1>1. s \in SbxRow /\ s.step = sbx[j].step /\ s.verdict = sbx[j].verdict
  BY SandboxRows DEF SbxRow
<1>2. r \in ReportRow /\ WellReported(r)
  BY DEF ReportRow
<1>3. sbx' = [sbx EXCEPT ![j] = s] /\ report' = [report EXCEPT ![j] = r] /\ UNCHANGED earned
  BY DEF Report
<1> HIDE DEF s, r
<1>4. SbxGood(s)
  BY <1>1, SandboxRows DEF SbxGood
<1> QED
  BY <1>1, <1>2, <1>3, <1>4, SandboxRows, SandboxMoves

LEMMA JudgeSteps ==
  ASSUME CloudflareInv, NEW j \in Jobs, JudgeStep(j)
  PROVE  CloudflareInv'
<1>1. <<>> \in Logs
  BY DEF Logs
<1>2. ASSUME NEW ending \in Ending, CompileFails(j, ending) PROVE CloudflareInv'
  <2>1. CASE ending = "limit"
    <3>1. Report(j, <<>>, "time_limit", 0, "limit")
      BY <1>2, <2>1 DEF CompileFails, CompileStatus
    <3>2. "time_limit" \in SupervisorStatus \cup {NoVerdict} /\ "limit" \in Outcomes
          /\ WellReported([log |-> <<>>, packet |-> "time_limit", code |-> 0, end |-> "limit"])
      BY DEF SupervisorStatus, Verdicts, Outcomes, Ending, WellReported
    <3> QED
      BY <1>1, <3>1, <3>2, ReportMoves
  <2>2. CASE ending = "other"
    <3>1. Report(j, <<>>, "compile_error", 0, "compiler")
      BY <1>2, <2>2 DEF CompileFails, CompileStatus
    <3>2. "compile_error" \in SupervisorStatus \cup {NoVerdict} /\ "compiler" \in Outcomes
          /\ WellReported([log |-> <<>>, packet |-> "compile_error", code |-> 0, end |-> "compiler"])
      BY DEF SupervisorStatus, Verdicts, Outcomes, WellReported
    <3> QED
      BY <1>1, <3>1, <3>2, ReportMoves
  <2> QED
    BY <1>2, <2>1, <2>2 DEF CompileFails, Ending
<1>3. CASE ArtifactTooLarge(j)
  <2>1. "output_limit" \in SupervisorStatus \cup {NoVerdict} /\ "space" \in Outcomes
        /\ WellReported([log |-> <<>>, packet |-> "output_limit", code |-> 0, end |-> "space"])
    BY DEF SupervisorStatus, Verdicts, Outcomes, WellReported
  <2> QED
    BY <1>1, <1>3, <2>1, ReportMoves DEF ArtifactTooLarge
<1>4. ASSUME NEW log \in Logs, NEW ending \in Ending \cup {"space"}, RunEnds(j, log, ending)
      PROVE  CloudflareInv'
  <2> DEFINE status == RunStatus(ending)
  <2>1. /\ ending = "space" => status = "output_limit"
        /\ ending = "zero" => status = "ok"
        /\ ending = "limit" => status = "time_limit"
        /\ ending = "other" => status = "runtime_error"
    BY DEF RunStatus
  <2>2. Report(j, log, status, 0, ending)
    BY <1>4 DEF RunEnds
  <2> HIDE DEF status
  <2>3. ending \in {"space", "zero", "limit", "other"} /\ ending \in Outcomes
    BY <1>4 DEF Ending, Outcomes
  <2>4. status \in SupervisorStatus \cup {NoVerdict}
    BY <2>1, <2>3 DEF SupervisorStatus, Verdicts
  <2>5. WellReported([log |-> log, packet |-> status, code |-> 0, end |-> ending])
    BY <2>1, <2>3 DEF WellReported
  <2> QED
    BY <2>2, <2>3, <2>4, <2>5, ReportMoves
<1>5. CASE SupervisorFails(j)
  <2>1. \A packet \in {"infrastructure_error", NoVerdict}, code \in {0, 1} :
          /\ packet \in SupervisorStatus \cup {NoVerdict}
          /\ WellReported([log |-> <<>>, packet |-> packet, code |-> code, end |-> "script"])
    BY DEF SupervisorStatus, Verdicts, WellReported, NoVerdict
  <2>2. "script" \in Outcomes
    BY DEF Outcomes
  <2>3. CASE Report(j, <<>>, "infrastructure_error", 0, "script")
    BY <1>1, <2>1, <2>2, <2>3, ReportMoves
  <2>4. CASE Report(j, <<>>, NoVerdict, 1, "script")
    BY <1>1, <2>1, <2>2, <2>4, ReportMoves
  <2> QED
    BY <1>5, <2>3, <2>4 DEF SupervisorFails
<1>6. CASE JudgeForgotten(j)
  <2> DEFINE s == [sbx[j] EXCEPT !.process = "ENDED"]
  <2>1. s \in SbxRow /\ s.step = sbx[j].step /\ s.verdict = sbx[j].verdict
    BY SandboxRows DEF SbxRow
  <2>2. sbx' = [sbx EXCEPT ![j] = s] /\ UNCHANGED <<report, earned>>
    BY <1>6 DEF JudgeForgotten
  <2> HIDE DEF s
  <2>3. SbxGood(s)
    BY <2>1, SandboxRows DEF SbxGood
  <2> QED
    BY <2>1, <2>2, <2>3, SandboxRows, SandboxMoves
<1> QED
  BY <1>2, <1>3, <1>4, <1>5, <1>6 DEF JudgeStep

(* execute(): its verdict comes from the report, or is a failure.          *)
LEMMA SandboxSteps ==
  ASSUME CloudflareInv, NEW j \in Jobs, SandboxRefuses(j) \/ SandboxStep(j)
  PROVE  CloudflareInv'
<1>1. ASSUME NEW s \in SbxRow, sbx' = [sbx EXCEPT ![j] = s], SbxGood(s), UNCHANGED <<report, earned>>
      PROVE  CloudflareInv'
  BY <1>1, SandboxRows, SandboxMoves
<1>2. CASE SandboxRefuses(j)
  <2>1. PICK v \in {"source_limit", "infrastructure_error"} :
          sbx' = [sbx EXCEPT ![j] = [sbx[j] EXCEPT !.verdict = v, !.step = "DONE"]]
    BY <1>2 DEF SandboxRefuses, Step
  <2> DEFINE s == [sbx[j] EXCEPT !.verdict = v, !.step = "DONE"]
  <2>2. s \in SbxRow /\ s.verdict \in Verdicts
    BY SandboxRows DEF SbxRow, Steps, Verdicts
  <2>3. sbx' = [sbx EXCEPT ![j] = s] /\ UNCHANGED <<report, earned>>
    BY <1>2, <2>1 DEF SandboxRefuses
  <2> HIDE DEF s
  <2> QED
    BY <1>1, <2>2, <2>3 DEF SbxGood
<1>3. CASE Accept(j) \/ Provision(j) \/ WriteInputs(j) \/ StartJudge(j) \/ JudgeExits(j)
  <2>1. PICK s \in SbxRow : /\ sbx' = [sbx EXCEPT ![j] = s]
                            /\ s.step \in {"PROVISION", "WRITE", "START", "WAIT", "LOGS"}
    <3>1. CASE Accept(j)
      <4> DEFINE s == [sbx[j] EXCEPT !.step = "PROVISION"]
      <4>1. s \in SbxRow /\ s.step = "PROVISION"
        BY SandboxRows DEF SbxRow, Steps
      <4> QED
        BY <3>1, <4>1 DEF Accept, Step
    <3>2. CASE Provision(j)
      <4> DEFINE s == [sbx[j] EXCEPT !.step = "WRITE", !.alive = TRUE]
      <4>1. s \in SbxRow /\ s.step = "WRITE"
        BY SandboxRows DEF SbxRow, Steps
      <4> QED
        BY <3>2, <4>1 DEF Provision, Step
    <3>3. CASE WriteInputs(j)
      <4> DEFINE s == [sbx[j] EXCEPT !.step = "START"]
      <4>1. s \in SbxRow /\ s.step = "START"
        BY SandboxRows DEF SbxRow, Steps
      <4> QED
        BY <3>3, <4>1 DEF WriteInputs, Step
    <3>4. CASE StartJudge(j)
      <4> DEFINE s == [sbx[j] EXCEPT !.step = "WAIT", !.process = "RUNNING", !.stop = TRUE]
      <4>1. s \in SbxRow /\ s.step = "WAIT"
        BY SandboxRows DEF SbxRow, Steps
      <4> QED
        BY <3>4, <4>1 DEF StartJudge, Step
    <3>5. CASE JudgeExits(j)
      <4> DEFINE s == [sbx[j] EXCEPT !.step = "LOGS", !.stop = FALSE]
      <4>1. s \in SbxRow /\ s.step = "LOGS"
        BY SandboxRows DEF SbxRow, Steps
      <4> QED
        BY <3>5, <4>1 DEF JudgeExits, Step
    <3> QED
      BY <1>3, <3>1, <3>2, <3>3, <3>4, <3>5
  <2>2. UNCHANGED <<report, earned>>
    BY <1>3 DEF Accept, Provision, WriteInputs, StartJudge, JudgeExits
  <2> QED
    BY <1>1, <2>1, <2>2 DEF SbxGood
<1>4. CASE ReadOutput(j)
  <2> DEFINE v == Interpreted(report[j])
             p == IF report[j].packet = NoVerdict THEN 0 ELSE PassedOf(report[j].log)
             s == [sbx[j] EXCEPT !.step = "DESTROY", !.verdict = v, !.passed = p]
  <2>1. v \in Verdicts /\ Earned(report[j], v)
    BY SandboxRows, ReadingIsHonest
  <2>2. p \in 0 .. Cases
    <3>1. report[j].log \in Logs
      BY SandboxRows DEF ReportRow
    <3> QED
      BY <3>1, PassedIsBounded, ChainAssumption
  <2>3. sbx' = [sbx EXCEPT ![j] = s] /\ report' = [report EXCEPT ![j] = NoReport]
        /\ earned' = [earned EXCEPT ![j] = Earned(report[j], v)]
    BY <1>4 DEF ReadOutput, Step
  <2> HIDE DEF v, p
  <2>4. s \in SbxRow /\ s.verdict = v
    BY <2>1, <2>2, SandboxRows DEF SbxRow, Steps
  <2>5. Earned(report[j], v) = TRUE
    BY <2>1 DEF Earned
  <2> HIDE DEF s
  <2> QED
    BY <2>1, <2>3, <2>4, <2>5, NoReportIsOne, SandboxMoves DEF SbxGood
<1>5. CASE SandboxFails(j)
  <2> DEFINE s == [sbx[j] EXCEPT !.verdict = "infrastructure_error", !.step = AfterFailure(sbx[j])]
  <2>1. s \in SbxRow /\ s.verdict \in Verdicts
    BY SandboxRows DEF SbxRow, Steps, Verdicts, AfterFailure
  <2>2. sbx' = [sbx EXCEPT ![j] = s] /\ report' = [report EXCEPT ![j] = NoReport] /\ UNCHANGED earned
    BY <1>5 DEF SandboxFails
  <2> HIDE DEF s
  <2> QED
    BY <2>1, <2>2, NoReportIsOne, SandboxRows, SandboxMoves DEF SbxGood
<1>6. ASSUME NEW worked \in BOOLEAN, StopJudge(j, worked)
      PROVE  CloudflareInv'
  <2> DEFINE s == [sbx[j] EXCEPT !.step = "DESTROY", !.process = IF worked THEN "ENDED" ELSE @]
  <2>1. s \in SbxRow /\ s.verdict = sbx[j].verdict
    BY SandboxRows DEF SbxRow, Steps
  <2>2. sbx[j].step = "STOP" /\ sbx' = [sbx EXCEPT ![j] = s] /\ UNCHANGED <<report, earned>>
    BY <1>6 DEF StopJudge, Step
  <2> HIDE DEF s
  <2>3. SbxGood(s)
    BY <2>1, <2>2, SandboxRows DEF SbxGood
  <2> QED
    BY <1>1, <2>1, <2>2, <2>3
<1>7. ASSUME NEW worked \in BOOLEAN, DestroySandbox(j, worked)
      PROVE  CloudflareInv'
  <2> DEFINE s == [sbx[j] EXCEPT !.step = "DONE", !.alive = ~worked,
                     !.process = IF worked /\ @ = "RUNNING" THEN "ENDED" ELSE @]
  <2>1. s \in SbxRow /\ s.verdict = sbx[j].verdict
    BY SandboxRows DEF SbxRow, Steps
  <2>2. sbx[j].step = "DESTROY" /\ sbx' = [sbx EXCEPT ![j] = s] /\ UNCHANGED <<report, earned>>
    BY <1>7 DEF DestroySandbox, Step
  <2> HIDE DEF s
  <2>3. SbxGood(s)
    BY <2>1, <2>2, SandboxRows DEF SbxGood
  <2> QED
    BY <1>1, <2>1, <2>2, <2>3
<1> QED
  BY <1>2, <1>3, <1>4, <1>5, <1>6, <1>7 DEF SandboxStep

LEMMA CloudflareInitially == Init => CloudflareInv
<1> SUFFICES ASSUME Init PROVE CloudflareInv
  OBVIOUS
<1>1. NewSandbox \in SbxRow /\ SbxGood(NewSandbox)
  <2>1. 0 \in 0 .. Cases
    BY ChainAssumption
  <2> QED
    BY <2>1 DEF NewSandbox, SbxRow, SbxGood, Steps, NoVerdict
<1> QED
  BY <1>1, NoReportIsOne DEF Init, CloudflareInit, CloudflareInv

LEMMA CloudflarePreserved ==
  ASSUME CloudflareInv, [Next]_chainVars
  PROVE  CloudflareInv'
<1>1. ASSUME UNCHANGED cloudflareVars PROVE CloudflareInv'
  BY <1>1 DEF cloudflareVars, CloudflareInv, SbxGood, WellReported
<1>2. CASE Coordinator
  <2>1. UNCHANGED cloudflareVars
    BY <1>2 DEF Coordinator, GoesOn, MarkRunning, SaveResult, SendRequest, RequestRefused, ResponseArrives,
                ResponseLost, RequestTimeout, ClientReturns, KeepAdapters
  <2> QED
    BY <1>1, <2>1
<1>3. CASE ServerCrashes
  <2>1. /\ sbx' = [j \in Jobs |->
                    IF sbx[j].step = "IDLE" THEN sbx[j]
                    ELSE [NewSandbox EXCEPT !.step = "LOST", !.alive = sbx[j].alive,
                                            !.process = sbx[j].process]]
        /\ report' = [j \in Jobs |-> NoReport] /\ UNCHANGED earned
    BY <1>3 DEF ServerCrashes, ForgetSandboxes
  <2>2. ASSUME NEW j \in Jobs PROVE sbx'[j] \in SbxRow /\ SbxGood(sbx'[j])
    <3> DEFINE s == [NewSandbox EXCEPT !.step = "LOST", !.alive = sbx[j].alive,
                                       !.process = sbx[j].process]
    <3>1. s \in SbxRow /\ s.step = "LOST"
      <4>1. 0 \in 0 .. Cases
        BY ChainAssumption
      <4> QED
        BY <4>1, SandboxRows DEF NewSandbox, SbxRow, Steps, NoVerdict
    <3>2. sbx'[j] = sbx[j] \/ sbx'[j] = s
      BY <2>1
    <3> HIDE DEF s
    <3>3. SbxGood(s)
      BY <3>1 DEF SbxGood
    <3> QED
      BY <3>1, <3>2, <3>3, SandboxRows
  <2>3. sbx' \in [Jobs -> SbxRow]
    <3>1. sbx' = [j \in Jobs |-> sbx'[j]]
      BY <2>1
    <3> QED
      BY <2>2, <3>1
  <2>4. report' \in [Jobs -> ReportRow] /\ \A j \in Jobs : WellReported(report'[j])
    BY <2>1, NoReportIsOne
  <2> QED
    BY <2>1, <2>2, <2>3, <2>4 DEF CloudflareInv
<1>4. CASE Server /\ ~ServerCrashes
  <2>1. UNCHANGED cloudflareVars
    BY <1>4 DEF Server, Shutdown, CutConnections, ProcessExits, ServerStarts, OtherStarts
  <2> QED
    BY <1>1, <2>1
<1>5. CASE CloudflareStep
  BY <1>5, SandboxSteps, JudgeSteps DEF CloudflareStep, CloudflareExecutes
<1>6. CASE DockerStep \/ UNCHANGED chainVars
  BY <1>1, <1>6 DEF DockerStep, DockerExecutes, chainVars
<1> QED
  BY <1>2, <1>3, <1>4, <1>5, <1>6 DEF Next

-----------------------------------------------------------------------------
(* The coordinator, the client and the runner process.                     *)

ChainRows ==
  /\ platform \in Platforms
  /\ server \in {"UP", "DRAINING", "DOWN"}
  /\ left \in [sweeps : Nat, losses : Nat]
  /\ call \in [Jobs -> {"NONE", "SENT", "ENDED"}]
  /\ coord \in [step : {"MARK", "CALL", "WAIT", "SAVE", "SAVED"}, attempt : 0 .. Attempts]
  /\ result \in [Jobs -> DomainVerdicts \cup {NoResult}]

(* The coordinator goes to another attempt only while there is one.        *)
AttemptLeft == coord.step = "MARK" => coord.attempt < Attempts

ChainParts == DockerInv /\ CloudflareInv /\ ChainRows /\ AttemptLeft

(* Of all its steps only the return of a failed attempt leads there.       *)
LEMMA AttemptLeftStays ==
  ASSUME ChainParts, [Next]_chainVars
  PROVE  AttemptLeft'
<1> USE DEF AttemptLeft
<1>1. coord \in [step : {"MARK", "CALL", "WAIT", "SAVE", "SAVED"}, attempt : 0 .. Attempts]
      /\ AttemptLeft
  BY DEF ChainParts, ChainRows
<1>2. CASE UNCHANGED coord
  BY <1>1, <1>2
<1>3. ASSUME NEW j \in Jobs, NEW r, ClientReturns(j, r) PROVE AttemptLeft'
  BY <1>1, <1>3 DEF ClientReturns, MayRetry
<1>4. CASE Coordinator
  BY <1>1, <1>3, <1>4 DEF Coordinator, GoesOn, MarkRunning, SaveResult, SendRequest, RequestRefused,
                          ResponseArrives, ResponseLost, RequestTimeout
<1>5. CASE Server \/ DockerStep \/ CloudflareStep \/ UNCHANGED chainVars
  <2>1. UNCHANGED coord
    BY <1>5 DEF Server, Shutdown, CutConnections, ProcessExits, ServerCrashes, ServerStarts,
                OtherStarts, KeepCoordinator, DockerStep, DockerExecutes, CloudflareStep,
                CloudflareExecutes, KeepChain, chainVars
  <2> QED
    BY <1>2, <2>1
<1> QED
  BY <1>4, <1>5 DEF Next

LEMMA EveryVerdictIsDelivered ==
  ASSUME NEW v \in Verdicts, NEW p
  PROVE  Delivered(v, p) \in DomainVerdicts
<1>1. PICK w \in Verdicts : w = Sanitized(v, p)
  <2>1. Sanitized(v, p) = v \/ Sanitized(v, p) = "infrastructure_error"
    BY DEF Sanitized
  <2> QED
    BY <2>1 DEF Verdicts
<1>2. /\ w = "accepted" => DomainVerdict(w) = "ACCEPTED"
      /\ w = "wrong_answer" => DomainVerdict(w) = "WRONG_ANSWER"
      /\ w \in {"compile_error", "source_limit"} => DomainVerdict(w) = "COMPILE_ERROR"
      /\ w = "runtime_error" => DomainVerdict(w) = "RUNTIME_ERROR"
      /\ w = "time_limit" => DomainVerdict(w) = "TIMEOUT"
      /\ w = "memory_limit" => DomainVerdict(w) = "MEMORY_LIMIT"
      /\ w = "output_limit" => DomainVerdict(w) = "OUTPUT_LIMIT"
      /\ w = "infrastructure_error" => DomainVerdict(w) = "INFRA_ERROR"
  BY DEF DomainVerdict
<1>3. DomainVerdict(w) \in DomainVerdicts
  BY <1>2 DEF Verdicts, DomainVerdicts
<1> QED
  BY <1>1, <1>3 DEF Delivered

LEMMA ChainRowsStay ==
  ASSUME ChainParts, [Next]_chainVars
  PROVE  ChainRows'
<1> USE DEF ChainParts
<1>1. /\ coord.step \in {"MARK", "CALL", "WAIT", "SAVE", "SAVED"} /\ coord.attempt \in 0 .. Attempts
      /\ ~Attempts < 0 /\ Attempts \in Nat
  BY ChainAssumption DEF ChainRows
<1>2. Lose => left' \in [sweeps : Nat, losses : Nat]
  <2>1. ASSUME Lose PROVE left.losses - 1 \in Nat
    BY <2>1 DEF Lose, ChainRows
  <2> QED
    BY <2>1 DEF Lose, ChainRows
<1>3. CASE MarkRunning
  <2>1. coord.attempt + 1 \in 0 .. Attempts
    BY <1>1, <1>3 DEF MarkRunning, AttemptLeft
  <2> QED
    BY <1>3, <2>1 DEF MarkRunning, ChainRows, KeepAdapters
<1>4. CASE SaveResult
  BY <1>4 DEF SaveResult, ChainRows, KeepAdapters
<1>5. ASSUME NEW j \in Jobs, SendRequest(j) PROVE ChainRows'
  BY <1>5 DEF SendRequest, ChainRows, KeepAdapters
<1>6. ASSUME NEW j \in Jobs, NEW r \in DomainVerdicts, ClientReturns(j, r),
             left' \in [sweeps : Nat, losses : Nat]
      PROVE  ChainRows'
  <2>1. coord' \in [step : {"MARK", "CALL", "WAIT", "SAVE", "SAVED"}, attempt : 0 .. Attempts]
    <3>1. PICK step \in {"MARK", "SAVE"} : coord' = [coord EXCEPT !.step = step]
      BY <1>6 DEF ClientReturns
    <3> QED
      BY <3>1 DEF ChainRows
  <2>2. /\ result' \in [Jobs -> DomainVerdicts \cup {NoResult}]
        /\ call' \in [Jobs -> {"NONE", "SENT", "ENDED"}]
        /\ UNCHANGED <<platform, server>>
    BY <1>6 DEF ClientReturns, ChainRows, KeepAdapters
  <2> QED
    BY <1>6, <2>1, <2>2 DEF ChainRows
<1>7. "INFRA_ERROR" \in DomainVerdicts /\ left \in [sweeps : Nat, losses : Nat]
  BY DEF DomainVerdicts, ChainRows
<1>8. CASE \E j \in Jobs : RequestRefused(j) \/ ResponseLost(j) \/ RequestTimeout(j)
  <2>1. PICK j \in Jobs : RequestRefused(j) \/ ResponseLost(j) \/ RequestTimeout(j)
    BY <1>8
  <2>2. ClientReturns(j, "INFRA_ERROR") /\ (UNCHANGED left \/ Lose)
    BY <2>1 DEF RequestRefused, ResponseLost, RequestTimeout
  <2>3. left' \in [sweeps : Nat, losses : Nat]
    BY <1>2, <1>7, <2>2
  <2> QED
    BY <1>6, <1>7, <2>2, <2>3
<1>9. ASSUME NEW j \in Jobs, ResponseArrives(j) PROVE ChainRows'
  <2>1. Ended(j) /\ ClientReturns(j, Answer(j)) /\ UNCHANGED left
    BY <1>9 DEF ResponseArrives
  <2>2. Answer(j) \in DomainVerdicts
    <3>1. CASE platform = "DOCKER"
      <4>1. job[j].verdict \in Verdicts
        BY <2>1, <3>1, RowsOfAJob DEF Ended, JobGood, Concluded
      <4> QED
        BY <3>1, <4>1, EveryVerdictIsDelivered DEF Answer
    <3>2. CASE platform # "DOCKER"
      <4>1. sbx[j].verdict \in Verdicts
        BY <2>1, <3>2, SandboxRows DEF Ended, SbxGood
      <4> QED
        BY <3>2, <4>1, EveryVerdictIsDelivered DEF Answer
    <3> QED
      BY <3>1, <3>2
  <2> QED
    BY <1>6, <1>7, <2>1, <2>2
<1>10. CASE Shutdown \/ ServerCrashes
  <2>1. /\ server' \in {"DRAINING", "DOWN"} /\ Lose /\ UNCHANGED <<platform, coord, result>>
        /\ \/ UNCHANGED call
           \/ call' = [j \in Jobs |-> IF call[j] = "SENT" THEN "ENDED" ELSE call[j]]
    BY <1>10 DEF Shutdown, ServerCrashes, KeepCoordinator
  <2>2. call' \in [Jobs -> {"NONE", "SENT", "ENDED"}]
    BY <2>1 DEF ChainRows
  <2> QED
    BY <1>2, <2>1, <2>2 DEF ChainRows
<1>11. CASE CutConnections \/ ProcessExits \/ ServerStarts
  <2>1. /\ server' \in {"UP", "DOWN", server} /\ UNCHANGED <<platform, coord, result, left>>
        /\ \/ UNCHANGED call
           \/ call' = [j \in Jobs |-> IF call[j] = "SENT" THEN "ENDED" ELSE call[j]]
    BY <1>11 DEF CutConnections, ProcessExits, ServerStarts, KeepCoordinator
  <2>2. call' \in [Jobs -> {"NONE", "SENT", "ENDED"}]
    BY <2>1 DEF ChainRows
  <2> QED
    BY <2>1, <2>2 DEF ChainRows
<1>12. CASE OtherStarts
  <2>1. left' = [left EXCEPT !.sweeps = @ - 1] /\ left.sweeps > 0
        /\ UNCHANGED <<platform, coord, result, server, call>>
    BY <1>12 DEF OtherStarts, KeepCoordinator
  <2>2. left.sweeps - 1 \in Nat
    BY <2>1 DEF ChainRows
  <2> QED
    BY <2>1, <2>2 DEF ChainRows
<1>13. CASE DockerStep \/ CloudflareStep \/ UNCHANGED chainVars
  BY <1>13 DEF DockerStep, DockerExecutes, CloudflareStep, CloudflareExecutes, KeepChain, chainVars, ChainRows
<1> QED
  BY <1>3, <1>4, <1>5, <1>8, <1>9, <1>10, <1>11, <1>12, <1>13 DEF Next, Coordinator, GoesOn, Server

LEMMA ChainInitially == Init => ChainParts
<1> SUFFICES ASSUME Init PROVE ChainParts
  OBVIOUS
<1>1. ChainRows
  BY ChainAssumption DEF Init, ChainRows
<1>2. AttemptLeft
  BY ChainAssumption DEF Init, AttemptLeft
<1> QED
  BY <1>1, <1>2, DockerInitially, CloudflareInitially DEF ChainParts

LEMMA ChainPreserved == ChainParts /\ [Next]_chainVars => ChainParts'
<1> SUFFICES ASSUME ChainParts, [Next]_chainVars PROVE ChainParts'
  OBVIOUS
<1>1. DockerInv'
  BY DockerPreserved DEF ChainParts
<1>2. CloudflareInv'
  BY CloudflarePreserved DEF ChainParts
<1>3. AttemptLeft'
  BY AttemptLeftStays
<1> QED
  BY <1>1, <1>2, <1>3, ChainRowsStay DEF ChainParts

LEMMA ReportsAreTyped == ReportRow \subseteq
  [log : Seq(Answers \cup {"ready"}), packet : SupervisorStatus \cup {NoVerdict},
   code : {0, 1}, end : Outcomes]
<1> SUFFICES ASSUME NEW r \in ReportRow
             PROVE  r \in [log : Seq(Tokens), packet : SupervisorStatus \cup {NoVerdict},
                           code : {0, 1}, end : Outcomes]
  BY DEF Tokens
<1>1. r.log \in Seq(Tokens)
  BY LogShape DEF ReportRow
<1> QED
  BY <1>1 DEF ReportRow

LEMMA ChainIsSound == Spec => []ChainParts
BY ChainInitially, ChainPreserved, PTL DEF Spec

(* What the runner and the coordinator keep is well formed all the while,  *)
(* and the cleanup of another instance spares the volume of a job that is  *)
(* being staged (docker-adapter.ts cleanupOrphans), whatever is lost and   *)
(* however many instances start.                                           *)
THEOREM RunnerStaysInOrder == Spec => []ChainInv
<1>1. ASSUME ChainParts PROVE ChainInv
  <2>1. DockerTypeOK
    BY <1>1 DEF ChainParts, DockerInv
  <2>2. CloudflareTypeOK
    BY <1>1, ReportsAreTyped DEF ChainParts, CloudflareInv, CloudflareTypeOK, SbxRow
  <2>3. StagingIsSpared
    BY <1>1 DEF ChainParts, DockerInv, JobGood, GettingReady, StagingIsSpared
  <2> QED
    BY <1>1, <2>1, <2>2, <2>3 DEF ChainParts, ChainRows, ChainInv, TypeOK
<1>2. ChainParts => ChainInv
  BY <1>1
<1> QED
  BY <1>2, ChainIsSound, PTL

(* A verdict rests on what happened in the sandbox of its attempt          *)
(* (classifyDockerExit, the protocol of the harness, interpretExecution):  *)
(* a program is accepted only when it answered every case, and right,      *)
(* within the budget the cases share; a wrong answer, a failed             *)
(* compilation, an exit, memory or output it is blamed for is its own; a   *)
(* TIMEOUT follows a limit that passed, a budget used up or a SIGKILL of   *)
(* its container, which may be that of another instance's cleanup.         *)
THEOREM VerdictsRestOnDeeds == Spec => []VerdictsAreBornOut
<1>1. ChainParts => VerdictsAreBornOut
  BY DEF ChainParts, DockerInv, CloudflareInv, VerdictsAreBornOut
<1> QED
  BY <1>1, ChainIsSound, PTL

==============================================================================
