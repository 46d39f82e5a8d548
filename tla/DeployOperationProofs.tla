------------------------ MODULE DeployOperationProofs ------------------------
(* Theorems about DeployOperation, for every set of requests, runners and apps  *)
(* and every bound on the faults. Type correctness comes first, one lemma per   *)
(* action; then the app's lock; then the lifecycle of an operation.             *)
EXTENDS DeployOperation, TLAPS, SequenceTheorems

-----------------------------------------------------------------------------
(* Lemmas about the values the actions build *)

LEMMA AppendSeq ==
    ASSUME NEW S, NEW s \in Seq(S), NEW e \in S
    PROVE  Append(s, e) \in Seq(S)
  OBVIOUS

LEMMA FieldType ==
    ASSUME TypeOK, NEW n,
           NEW row \in {"none", "in_progress", "success", "failed"},
           NEW commit \in Nat,
           NEW state \in {"queued", "building", "finished", "failed", "cancelled"}
    PROVE  /\ [builds EXCEPT ![n].row = row] \in Seq(BuildType)
           /\ [builds EXCEPT ![n].state = state] \in Seq(BuildType)
           /\ [builds EXCEPT ![n].state = state, ![n].commit = commit] \in Seq(BuildType)
<1>1. builds \in Seq(BuildType) /\ DOMAIN builds = 1..Len(builds) /\ Len(builds) \in Nat
  BY DEF TypeOK
<1>2. \A i \in 1..Len(builds) : builds[i] \in BuildType
  BY <1>1
<1>3. ASSUME NEW f \in [1..Len(builds) -> BuildType] PROVE f \in Seq(BuildType)
  BY <1>1, SeqDef
<1>4. [builds EXCEPT ![n].row = row] \in [1..Len(builds) -> BuildType]
  BY <1>1, <1>2 DEF BuildType
<1>5. [builds EXCEPT ![n].state = state] \in [1..Len(builds) -> BuildType]
  BY <1>1, <1>2 DEF BuildType
<1>6. [builds EXCEPT ![n].state = state, ![n].commit = commit] \in [1..Len(builds) -> BuildType]
  BY <1>1, <1>2, ZenonT(30) DEF BuildType
<1> QED
  BY <1>3, <1>4, <1>5, <1>6

LEMMA SetRequestType ==
    ASSUME TypeOK, NEW r \in Requests,
           NEW pc \in {"new", "lock", "find", "insert", "enqueue", "direct", "done"},
           NEW reply \in {"none", "joined", "created", "hosting", "error"},
           SetRequest(r, pc, reply)
    PROVE  request' \in [Requests -> RequestType]
  BY DEF TypeOK, SetRequest, RequestType

LEMMA RecordedType == NotRecorded \in Recorded
  BY DEF NotRecorded, Recorded

LEMMA CallsTyped == NoCall \in CallType /\ NewCall \in CallType /\ NoCall.entry = 0
  BY DEF CallType, NewCall, NoCall, CallAt, PlanEnd

\* A handler moves on: its record keeps its type and its operation.
RunMoves ==
    /\ run' \in [Runners -> RunType]
    /\ \A x \in Runners : run'[x].op = run[x].op /\ (run'[x].pc # "idle" => run[x].pc # "idle")

LEMMA GotoMoves ==
    ASSUME TypeOK, NEW w \in Runners, run[w].pc # "idle", NEW pc \in RunPcs, Goto(w, pc)
    PROVE  RunMoves
  BY ZenonT(30) DEF TypeOK, Goto, RunType, RunMoves

LEMMA LeaveMoves ==
    ASSUME TypeOK, NEW w \in Runners, run[w].pc # "idle", NEW pc \in RunPcs,
           NEW m \in Messages, Leave(w, pc, m)
    PROVE  RunMoves
  BY RecordedType, ZenonT(30) DEF TypeOK, Leave, RunType, RunMoves

\* Only callers that work for an operation are calling hosting.
CallsBelong ==
    /\ call' \in [Callers -> CallType]
    /\ \A x \in Runners : call'[x].entry # 0 => call[x].entry # 0 \/ run[x].pc # "idle"

LEMMA CallMoves ==
    ASSUME TypeOK, NEW c \in Callers, NEW x \in CallType, call' = [call EXCEPT ![c] = x],
           c \in Requests \/ x.entry = 0 \/ call[c].entry # 0 \/ run[c].pc # "idle"
    PROVE  CallsBelong
<1>1. call' \in [Callers -> CallType]
  BY DEF TypeOK
<1>2. ASSUME NEW w \in Runners, call'[w].entry # 0
      PROVE  call[w].entry # 0 \/ run[w].pc # "idle"
  <2>1. w \in Callers /\ w \notin Requests
    BY DeployAssumption DEF Callers
  <2>2. CASE w = c
    BY <1>2, <2>1, <2>2 DEF TypeOK
  <2>3. CASE w # c
    BY <1>2, <2>1, <2>3 DEF TypeOK
  <2> QED
    BY <2>2, <2>3
<1> QED
  BY <1>1, <1>2 DEF CallsBelong

LEMMA SameCalls == ASSUME TypeOK, UNCHANGED call PROVE CallsBelong
  BY DEF TypeOK, CallsBelong

LEMMA SameRuns == ASSUME TypeOK, UNCHANGED run PROVE RunMoves
  BY DEF TypeOK, RunMoves

LEMMA StillBusy == ASSUME TypeOK, RunMoves, CallsBelong PROVE RunnersBusy'
  BY DEF TypeOK, RunMoves, CallsBelong, RunnersBusy

LEMMA FailType ==
    ASSUME TypeOK, NEW o \in Requests, NEW m \in Messages, FailOperation(o, m)
    PROVE  status' \in [Requests -> Statuses] /\ told' \in [Requests -> Messages]
<1>1. CASE status[o] \in Active
  BY <1>1 DEF TypeOK, FailOperation, Statuses
<1>2. CASE status[o] \notin Active
  BY <1>2 DEF TypeOK, FailOperation
<1> QED
  BY <1>1, <1>2

LEMMA JobFailedType == ASSUME NEW j \in JobType PROVE JobFailed(j) \in JobType
<1>1. ASSUME NEW n \in Nat PROVE [j EXCEPT !.active = 0, !.retry = n] \in JobType
  BY DEF JobType
<1>2. (IF j.active <= RetryLimit /\ j.retry = 0 THEN j.active + 1 ELSE j.retry) \in Nat
  BY DeployAssumption DEF JobType
<1> QED
  BY <1>1, <1>2 DEF JobFailed

LEMMA CallAccepted ==
    ASSUME NEW x \in CallType, NEW n \in Nat, NEW t \in BOOLEAN
    PROVE  [x EXCEPT !.build = n, !.tracked = t] \in CallType
  BY DEF CallType

LEMMA CallRefused ==
    ASSUME NEW x \in CallType, NEW e \in 0..PlanEnd, NEW f \in {"none", "notfound", "busy", "refused"}
    PROVE  /\ [x EXCEPT !.entry = e, !.failure = f] \in CallType
           /\ \A t \in BOOLEAN : [x EXCEPT !.entry = e, !.failure = f, !.timedOut = t] \in CallType
  BY DEF CallType

LEMMA NewBuildType ==
    ASSUME TypeOK, NEW c \in Callers, Calling(c)
    PROVE  NewBuild(c) \in BuildType
<1>1. OpOf(c) \in Requests
  BY DEF Calling, OpOf, TypeOK, RunnersBusy, Callers, PlanEnd
<1> QED
  BY <1>1, DeployAssumption DEF NewBuild, BuildType

\* Answering the worker frees the runner and settles its job.
LEMMA AnswerType ==
    ASSUME TypeOK, NEW w \in Runners, run[w].pc # "idle", NEW ok \in BOOLEAN, Answer(w, ok)
    PROVE  /\ run' \in [Runners -> RunType]
           /\ call' \in [Callers -> CallType]
           /\ job' \in [Requests -> JobType]
           /\ RunnersBusy'
<1>1. run[w].op \in Requests
  BY DEF TypeOK, RunnersBusy
<1>2. IdleRun \in RunType /\ IdleRun.pc = "idle"
  BY RecordedType DEF IdleRun, RunType, RunPcs, Messages
<1>3. w \in Callers /\ run' = [run EXCEPT ![w] = IdleRun] /\ call' = [call EXCEPT ![w] = NoCall]
  BY DEF Answer, Callers
<1>4. run' \in [Runners -> RunType] /\ call' \in [Callers -> CallType]
  BY <1>2, <1>3, CallsTyped DEF TypeOK
<1>5. job' \in [Requests -> JobType]
  <2>1. job[run[w].op] \in JobType
    BY <1>1 DEF TypeOK
  <2>2. [job[run[w].op] EXCEPT !.active = 0] \in JobType
    BY <2>1 DEF JobType
  <2>3. JobFailed(job[run[w].op]) \in JobType
    BY <2>1, JobFailedType
  <2> QED
    BY <1>1, <2>2, <2>3 DEF Answer, TypeOK
<1>6. RunnersBusy'
  BY <1>2, <1>3, CallsTyped DEF TypeOK, RunnersBusy, Callers
<1> QED
  BY <1>4, <1>5, <1>6

-----------------------------------------------------------------------------
(* Type correctness, one lemma per action *)

LEMMA TypeInit == Init => TypeOK
  BY DeployAssumption DEF Init, TypeOK, Statuses, Active, Messages, Recorded, RequestType, JobType,
     RunType, RunPcs, CallType, BuildType, NotRecorded, NoCall, CallAt, IdleRun, NoJob, RunnersBusy,
     Callers, PlanEnd

LEMMA TypeArrive == ASSUME TypeOK, NEW r \in Requests, Arrive(r) PROVE TypeOK'
<1>1. AppOf[r] \in Apps
  BY DeployAssumption
<1>2. head' \in [Apps -> Nat] /\ asked' \in [Requests -> Nat]
  BY <1>1 DEF Arrive, TypeOK
<1>3. request' \in [Requests -> RequestType]
  BY SetRequestType DEF Arrive
<1>4. UNCHANGED <<logVars, holder, job, run, call, builds, faults>>
  BY DEF Arrive
<1> QED
  BY <1>2, <1>3, <1>4 DEF logVars, TypeOK, RunnersBusy

LEMMA TypeLockApp == ASSUME TypeOK, NEW r \in Requests, LockApp(r) PROVE TypeOK'
<1>1. holder' \in [Apps -> SUBSET Requests]
  BY DeployAssumption DEF LockApp, TypeOK
<1>2. request' \in [Requests -> RequestType]
  BY SetRequestType DEF LockApp
<1>3. UNCHANGED <<logVars, head, asked, job, run, call, builds, faults>>
  BY DEF LockApp
<1> QED
  BY <1>1, <1>2, <1>3 DEF logVars, TypeOK, RunnersBusy

LEMMA TypeJoinActive == ASSUME TypeOK, NEW r \in Requests, JoinActive(r) PROVE TypeOK'
<1>1. holder' \in [Apps -> SUBSET Requests]
  BY DeployAssumption DEF JoinActive, TypeOK
<1>2. request' \in [Requests -> RequestType]
  BY SetRequestType DEF JoinActive
<1>3. CallsBelong
  <2>1. r \in Callers
    BY DEF Callers
  <2>2. CASE call' = [call EXCEPT ![r] = NewCall]
    BY <2>1, <2>2, CallMoves, CallsTyped
  <2>3. CASE UNCHANGED call
    BY <2>3, SameCalls
  <2> QED
    BY <2>2, <2>3 DEF JoinActive
<1>4. UNCHANGED <<logVars, head, asked, job, run, builds, faults>>
  BY DEF JoinActive
<1>5. RunnersBusy'
  BY <1>3, <1>4, SameRuns, StillBusy
<1> QED
  BY <1>1, <1>2, <1>3, <1>4, <1>5 DEF logVars, CallsBelong, TypeOK

LEMMA TypeFindNone == ASSUME TypeOK, NEW r \in Requests, FindNone(r) PROVE TypeOK'
<1>1. request' \in [Requests -> RequestType]
  BY SetRequestType DEF FindNone
<1>2. UNCHANGED <<logVars, holder, head, asked, job, run, call, builds, faults>>
  BY DEF FindNone
<1> QED
  BY <1>1, <1>2 DEF logVars, TypeOK, RunnersBusy

LEMMA TypeInsertOperation == ASSUME TypeOK, NEW r \in Requests, InsertOperation(r) PROVE TypeOK'
<1>1. holder' \in [Apps -> SUBSET Requests]
  BY DeployAssumption DEF InsertOperation, TypeOK
<1>2. request' \in [Requests -> RequestType]
  BY SetRequestType DEF InsertOperation
<1>3. status' \in [Requests -> Statuses]
  BY DEF InsertOperation, TypeOK, Statuses, Active
<1>4. UNCHANGED <<attempts, recorded, told, hour, head, asked, job, run, call, builds, faults>>
  BY DEF InsertOperation
<1> QED
  BY <1>1, <1>2, <1>3, <1>4 DEF TypeOK, RunnersBusy

LEMMA TypeEnqueueFirstRun == ASSUME TypeOK, NEW r \in Requests, EnqueueFirstRun(r) PROVE TypeOK'
<1>1. request' \in [Requests -> RequestType]
  BY SetRequestType DEF EnqueueFirstRun
<1>2. job' \in [Requests -> JobType]
  BY DEF EnqueueFirstRun, EnqueueOperationRun, TypeOK, JobType
<1>3. UNCHANGED <<logVars, holder, head, asked, run, call, builds, faults>>
  BY DEF EnqueueFirstRun
<1> QED
  BY <1>1, <1>2, <1>3 DEF logVars, TypeOK, RunnersBusy

LEMMA TypeEnqueueFails == ASSUME TypeOK, NEW r \in Requests, EnqueueFails(r) PROVE TypeOK'
<1>1. request' \in [Requests -> RequestType]
  BY SetRequestType DEF EnqueueFails
<1>2. status' \in [Requests -> Statuses] /\ told' \in [Requests -> Messages]
  <2>1. CASE FailOperation(r, "notQueued")
    BY <2>1, FailType DEF Messages
  <2>2. CASE UNCHANGED <<status, told>>
    BY <2>2 DEF TypeOK
  <2> QED
    BY <2>1, <2>2 DEF EnqueueFails
<1>3. faults' \in 0..MaxFaults
  BY DeployAssumption DEF EnqueueFails, Fault, TypeOK
<1>4. UNCHANGED <<attempts, recorded, hour, holder, head, asked, job, run, call, builds>>
  BY DEF EnqueueFails
<1> QED
  BY <1>1, <1>2, <1>3, <1>4 DEF TypeOK, RunnersBusy

LEMMA TypeDirectDeployAnswered == ASSUME TypeOK, NEW r \in Requests, DirectDeployAnswered(r) PROVE TypeOK'
<1>1. request' \in [Requests -> RequestType]
  BY SetRequestType DEF DirectDeployAnswered
<1>2. CallsBelong
  BY CallMoves, CallsTyped DEF DirectDeployAnswered, Callers
<1>3. UNCHANGED <<logVars, holder, head, asked, job, run, builds, faults>>
  BY DEF DirectDeployAnswered
<1>4. RunnersBusy'
  BY <1>2, <1>3, SameRuns, StillBusy
<1> QED
  BY <1>1, <1>2, <1>3, <1>4 DEF logVars, CallsBelong, TypeOK

LEMMA TypeRequestCrash == ASSUME TypeOK, NEW r \in Requests, RequestCrash(r) PROVE TypeOK'
<1>1. request' \in [Requests -> RequestType]
  BY SetRequestType DEF RequestCrash
<1>2. CallsBelong
  BY CallMoves, CallsTyped DEF RequestCrash, Callers
<1>3. holder' \in [Apps -> SUBSET Requests]
  BY DeployAssumption DEF RequestCrash, TypeOK
<1>4. faults' \in 0..MaxFaults
  BY DeployAssumption DEF RequestCrash, Fault, TypeOK
<1>5. UNCHANGED <<logVars, head, asked, job, run, builds>>
  BY DEF RequestCrash
<1>6. RunnersBusy'
  BY <1>2, <1>5, SameRuns, StillBusy
<1> QED
  BY <1>1, <1>2, <1>3, <1>4, <1>5, <1>6 DEF logVars, CallsBelong, TypeOK

LEMMA TypeHostingAccepts == ASSUME TypeOK, NEW c \in Callers, HostingAccepts(c) PROVE TypeOK'
<1>1. builds' \in Seq(BuildType)
  BY NewBuildType, AppendSeq DEF HostingAccepts, TypeOK
<1>2. PICK tracked \in BOOLEAN :
          call' = [call EXCEPT ![c] = [@ EXCEPT !.build = Len(builds) + 1, !.tracked = tracked]]
  BY DEF HostingAccepts
<1>3. call[c] \in CallType /\ Len(builds) \in Nat /\ call[c].entry # 0
  BY DEF HostingAccepts, Calling, TypeOK, PlanEnd
<1> DEFINE n == Len(builds) + 1
           x == [call[c] EXCEPT !.build = n, !.tracked = tracked]
<1>a. n \in Nat
  BY <1>3
<1>4. x \in CallType
  <2> HIDE DEF n
  <2> QED
    BY <1>3, <1>a, CallAccepted
<1>b. call' = [call EXCEPT ![c] = x]
  BY <1>2
<1> HIDE DEF x
<1>5. CallsBelong
  BY <1>3, <1>4, <1>b, CallMoves
<1>6. UNCHANGED <<logVars, askVars, job, run, faults>>
  BY DEF HostingAccepts
<1>7. RunnersBusy'
  BY <1>5, <1>6, SameRuns, StillBusy
<1> QED
  BY <1>1, <1>5, <1>6, <1>7 DEF logVars, askVars, CallsBelong, TypeOK

LEMMA TypeHostingRefuses == ASSUME TypeOK, NEW c \in Callers, HostingRefuses(c) PROVE TypeOK'
<1>1. PICK class \in {"busy", "refused", "notfound"} :
          call' = [call EXCEPT ![c] = [@ EXCEPT !.entry = call[c].entry + 1, !.failure = Note(c, class)]]
  BY DEF HostingRefuses
<1>2. call[c] \in CallType /\ call[c].entry \in 1..(PlanEnd - 1)
  BY DEF HostingRefuses, Calling, TypeOK
<1>3. [call[c] EXCEPT !.entry = call[c].entry + 1, !.failure = Note(c, class)] \in CallType
  <2>1. Note(c, class) \in {"none", "notfound", "busy", "refused"}
    BY <1>2 DEF CallType, Note
  <2>2. call[c].entry + 1 \in 0..PlanEnd
    BY <1>2 DEF PlanEnd
  <2> QED
    BY <1>2, <2>1, <2>2, CallRefused
<1> DEFINE x == [call[c] EXCEPT !.entry = call[c].entry + 1, !.failure = Note(c, class)]
<1>a. call[c].entry # 0 /\ x \in CallType /\ call' = [call EXCEPT ![c] = x]
  BY <1>1, <1>2, <1>3
<1> HIDE DEF x
<1>4. CallsBelong
  BY <1>a, CallMoves
<1>5. UNCHANGED <<logVars, askVars, job, run, builds, faults>>
  BY DEF HostingRefuses
<1>6. RunnersBusy'
  BY <1>4, <1>5, SameRuns, StillBusy
<1> QED
  BY <1>4, <1>5, <1>6 DEF logVars, askVars, CallsBelong, TypeOK

LEMMA TypeAnswerLost == ASSUME TypeOK, NEW c \in Callers, AnswerLost(c) PROVE TypeOK'
<1>1. PICK taken \in BOOLEAN, aborted \in BOOLEAN :
          /\ builds' = IF taken THEN Append(builds, NewBuild(c)) ELSE builds
          /\ call' = [call EXCEPT ![c] = [@ EXCEPT !.entry = call[c].entry + 1, !.failure = Note(c, "busy"),
                                                 !.timedOut = call[c].timedOut \/ aborted]]
  BY DEF AnswerLost
<1>2. builds' \in Seq(BuildType)
  BY <1>1, NewBuildType, AppendSeq DEF AnswerLost, TypeOK
<1>3. call[c] \in CallType /\ call[c].entry \in 1..(PlanEnd - 1)
  BY DEF AnswerLost, Calling, TypeOK
<1>4. Note(c, "busy") \in {"none", "notfound", "busy", "refused"}
  BY <1>3 DEF CallType, Note
<1>5. (call[c].timedOut \/ aborted) \in BOOLEAN
  OBVIOUS
<1>6. [call[c] EXCEPT !.entry = call[c].entry + 1, !.failure = Note(c, "busy"), !.timedOut = call[c].timedOut \/ aborted] \in CallType
  <2>1. call[c].entry + 1 \in 0..PlanEnd
    BY <1>3 DEF PlanEnd
  <2> QED
    BY <1>3, <1>4, <1>5, <2>1, CallRefused
<1> DEFINE x == [call[c] EXCEPT !.entry = call[c].entry + 1, !.failure = Note(c, "busy"), !.timedOut = call[c].timedOut \/ aborted]
<1>a. call[c].entry # 0 /\ x \in CallType /\ call' = [call EXCEPT ![c] = x]
  BY <1>1, <1>3, <1>6
<1> HIDE DEF x
<1>7. CallsBelong
  BY <1>a, CallMoves
<1>8. faults' \in 0..MaxFaults
  BY DeployAssumption DEF AnswerLost, Fault, TypeOK
<1>9. UNCHANGED <<logVars, askVars, job, run>>
  BY DEF AnswerLost
<1>10. RunnersBusy'
  BY <1>7, <1>9, SameRuns, StillBusy
<1> QED
  BY <1>2, <1>7, <1>8, <1>9, <1>10 DEF logVars, askVars, CallsBelong, TypeOK

LEMMA TypeFetchJob == ASSUME TypeOK, NEW w \in Runners, NEW o \in Requests, FetchJob(w, o) PROVE TypeOK'
<1>1. job' \in [Requests -> JobType]
  BY DEF FetchJob, TypeOK, JobType
<1>2. PICK final \in BOOLEAN :
          run' = [run EXCEPT ![w] = [IdleRun EXCEPT !.pc = "read", !.op = o, !.attached = TRUE, !.final = final]]
  <2>1. (job'[o].active > RetryLimit) \in BOOLEAN
    OBVIOUS
  <2> QED
    BY <2>1 DEF FetchJob
<1>3. run' \in [Runners -> RunType] /\ run'[w].op = o
  BY <1>2, RecordedType DEF TypeOK, RunType, IdleRun, RunPcs, Messages
<1>4. \A x \in Runners : x # w => run'[x] = run[x]
  BY <1>2 DEF TypeOK
<1>5. UNCHANGED <<logVars, askVars, call, builds, faults>>
  BY DEF FetchJob
<1> QED
  BY <1>1, <1>3, <1>4, <1>5 DEF logVars, askVars, TypeOK, RunnersBusy

LEMMA TypeJobExpires == ASSUME TypeOK, NEW w \in Runners, JobExpires(w) PROVE TypeOK'
<1>1. run[w].op \in Requests /\ job[run[w].op] \in JobType
  BY DEF JobExpires, TypeOK, RunnersBusy
<1>2. job' \in [Requests -> JobType]
  BY <1>1, JobFailedType DEF JobExpires, TypeOK
<1>3. RunMoves
  BY ZenonT(30) DEF JobExpires, TypeOK, RunType, RunMoves
<1>4. faults' \in 0..MaxFaults
  BY DeployAssumption DEF JobExpires, Fault, TypeOK
<1>5. UNCHANGED <<logVars, askVars, call, builds>>
  BY DEF JobExpires
<1>6. RunnersBusy'
  BY <1>3, <1>5, SameCalls, StillBusy
<1> QED
  BY <1>2, <1>3, <1>4, <1>5, <1>6 DEF logVars, askVars, RunMoves, TypeOK

LEMMA TypeReadOperation == ASSUME TypeOK, NEW w \in Runners, ReadOperation(w) PROVE TypeOK'
<1>1. run[w].op \in Requests /\ attempts[run[w].op] \in Nat /\ recorded[run[w].op] \in Recorded
  BY DEF ReadOperation, TypeOK, RunnersBusy
<1>2. RunMoves
  <2> DEFINE x == [run[w] EXCEPT !.pc = "start", !.attempts = attempts[run[w].op],
                                 !.recorded = recorded[run[w].op]]
  <2>1. x \in RunType /\ x.op = run[w].op
    BY <1>1, ZenonT(30) DEF TypeOK, RunType, RunPcs
  <2>2. run' = [run EXCEPT ![w] = x] /\ run[w].pc # "idle"
    BY DEF ReadOperation
  <2> HIDE DEF x
  <2> QED
    BY <2>1, <2>2 DEF TypeOK, RunMoves
<1>3. UNCHANGED <<logVars, askVars, job, call, builds, faults>>
  BY DEF ReadOperation
<1>4. RunnersBusy'
  BY <1>2, <1>3, SameCalls, StillBusy
<1> QED
  BY <1>2, <1>3, <1>4 DEF logVars, askVars, RunMoves, TypeOK

LEMMA TypeStartOperation == ASSUME TypeOK, NEW w \in Runners, StartOperation(w) PROVE TypeOK'
<1>1. run[w].op \in Requests /\ run[w].pc # "idle"
  BY DEF StartOperation, TypeOK, RunnersBusy
<1>2. status' \in [Requests -> Statuses] /\ attempts' \in [Requests -> Nat]
  BY <1>1 DEF StartOperation, TypeOK, CountAttempt, Statuses, Active
<1>3. RunMoves
  BY <1>1, GotoMoves DEF StartOperation, RunPcs
<1>4. UNCHANGED <<recorded, told, hour, askVars, job, call, builds, faults>>
  BY DEF StartOperation
<1>5. RunnersBusy'
  BY <1>3, <1>4, SameCalls, StillBusy
<1> QED
  BY <1>2, <1>3, <1>4, <1>5 DEF askVars, RunMoves, TypeOK

LEMMA TypeAlreadyFinished == ASSUME TypeOK, NEW w \in Runners, AlreadyFinished(w) PROVE TypeOK'
<1>1. RunMoves
  BY LeaveMoves DEF AlreadyFinished, RunPcs, Messages
<1>2. UNCHANGED <<logVars, askVars, job, call, builds, faults>>
  BY DEF AlreadyFinished
<1>3. RunnersBusy'
  BY <1>1, <1>2, SameCalls, StillBusy
<1> QED
  BY <1>1, <1>2, <1>3 DEF logVars, askVars, RunMoves, TypeOK

LEMMA TypeReadSite == ASSUME TypeOK, NEW w \in Runners, ReadSite(w) PROVE TypeOK'
<1>1. RunMoves
  BY GotoMoves, LeaveMoves DEF ReadSite, RunPcs, Messages
<1>2. CallsBelong
  <2>1. CASE call' = [call EXCEPT ![w] = NewCall]
    BY <2>1, CallMoves, CallsTyped DEF ReadSite, Callers
  <2>2. CASE UNCHANGED call
    BY <2>2, SameCalls
  <2> QED
    BY <2>1, <2>2 DEF ReadSite
<1>3. UNCHANGED <<logVars, askVars, job, builds, faults>>
  BY DEF ReadSite
<1>4. RunnersBusy'
  BY <1>1, <1>2, StillBusy
<1> QED
  BY <1>1, <1>2, <1>3, <1>4 DEF logVars, askVars, RunMoves, CallsBelong, TypeOK

LEMMA TypeTriggered == ASSUME TypeOK, NEW w \in Runners, Triggered(w) PROVE TypeOK'
<1>1. RunMoves
  BY GotoMoves DEF Triggered, RunPcs, Messages
<1>2. UNCHANGED <<logVars, askVars, job, call, faults>>
  BY DEF Triggered
<1>3. RunnersBusy'
  BY <1>1, <1>2, SameCalls, StillBusy
<1>4. builds' \in Seq(BuildType)
  <2>1. [builds EXCEPT ![call[w].build].row = "in_progress"] \in Seq(BuildType)
    BY FieldType
  <2> QED
    BY <2>1 DEF Triggered, TypeOK
<1> QED
  BY <1>1, <1>2, <1>3, <1>4 DEF logVars, askVars, RunMoves, TypeOK

LEMMA TypeNotTriggered == ASSUME TypeOK, NEW w \in Runners, NotTriggered(w) PROVE TypeOK'
<1>1. RunMoves
  BY LeaveMoves DEF NotTriggered, RunPcs, Messages
<1>2. CallsBelong
  BY CallMoves, CallsTyped DEF NotTriggered, Callers
<1>3. UNCHANGED <<logVars, askVars, job, builds, faults>>
  BY DEF NotTriggered
<1>4. RunnersBusy'
  BY <1>1, <1>2, StillBusy
<1> QED
  BY <1>1, <1>2, <1>3, <1>4 DEF logVars, askVars, RunMoves, CallsBelong, TypeOK

LEMMA TypeRecordStart == ASSUME TypeOK, NEW w \in Runners, RecordStart(w) PROVE TypeOK'
<1>1. run[w].op \in Requests /\ call[w] \in CallType
  BY DEF RecordStart, TypeOK, RunnersBusy, Callers
<1>2. recorded' \in [Requests -> Recorded]
  <2>1. [done |-> TRUE, build |-> IF call[w].tracked THEN call[w].build ELSE 0] \in Recorded
    BY <1>1 DEF CallType, Recorded
  <2> QED
    BY <1>1, <2>1 DEF RecordStart, TypeOK
<1>3. RunMoves
  BY LeaveMoves DEF RecordStart, RunPcs, Messages
<1>4. CallsBelong
  BY CallMoves, CallsTyped DEF RecordStart, Callers
<1>5. UNCHANGED <<status, attempts, told, hour, askVars, job, builds, faults>>
  BY DEF RecordStart
<1>6. RunnersBusy'
  BY <1>3, <1>4, StillBusy
<1> QED
  BY <1>2, <1>3, <1>4, <1>5, <1>6 DEF askVars, RunMoves, CallsBelong, TypeOK

LEMMA TypeFollowBuild == ASSUME TypeOK, NEW w \in Runners, FollowBuild(w) PROVE TypeOK'
<1>1. RunMoves
  BY LeaveMoves DEF FollowBuild, RunPcs, Messages
<1>2. UNCHANGED <<logVars, askVars, job, call, faults>>
  BY DEF FollowBuild
<1>3. RunnersBusy'
  BY <1>1, <1>2, SameCalls, StillBusy
<1>4. builds' \in Seq(BuildType)
  <2>1. /\ [builds EXCEPT ![run[w].recorded.build].row = "success"] \in Seq(BuildType)
        /\ [builds EXCEPT ![run[w].recorded.build].row = "failed"] \in Seq(BuildType)
    BY FieldType
  <2> QED
    BY <2>1 DEF FollowBuild, SetRow, TypeOK
<1> QED
  BY <1>1, <1>2, <1>3, <1>4 DEF logVars, askVars, RunMoves, TypeOK

LEMMA TypeSucceed == ASSUME TypeOK, NEW w \in Runners, Succeed(w) PROVE TypeOK'
<1>1. run[w].op \in Requests /\ run[w].pc # "idle"
  BY DEF Succeed, TypeOK, RunnersBusy
<1>2. status' \in [Requests -> Statuses]
  BY <1>1 DEF Succeed, TypeOK, Statuses
<1>3. RunMoves
  BY <1>1, GotoMoves, LeaveMoves DEF Succeed, RunPcs, Messages
<1>4. UNCHANGED <<attempts, recorded, told, hour, askVars, job, call, builds, faults>>
  BY DEF Succeed
<1>5. RunnersBusy'
  BY <1>3, <1>4, SameCalls, StillBusy
<1> QED
  BY <1>2, <1>3, <1>4, <1>5 DEF askVars, RunMoves, TypeOK

LEMMA TypeMergeMessage == ASSUME TypeOK, NEW w \in Runners, MergeMessage(w) PROVE TypeOK'
<1>1. run[w].op \in Requests /\ run[w].message \in Messages /\ run[w].pc # "idle"
  BY DEF MergeMessage, TypeOK, RunnersBusy, RunType
<1>2. told' \in [Requests -> Messages]
  BY <1>1 DEF MergeMessage, TypeOK
<1>3. RunMoves
  BY <1>1, LeaveMoves DEF MergeMessage, RunPcs, Messages
<1>4. UNCHANGED <<status, attempts, recorded, hour, askVars, job, call, builds, faults>>
  BY DEF MergeMessage
<1>5. RunnersBusy'
  BY <1>3, <1>4, SameCalls, StillBusy
<1> QED
  BY <1>2, <1>3, <1>4, <1>5 DEF askVars, RunMoves, TypeOK

LEMMA TypeFail == ASSUME TypeOK, NEW w \in Runners, Fail(w) PROVE TypeOK'
<1>1. run[w].op \in Requests /\ run[w].message \in Messages /\ run[w].pc # "idle"
  BY DEF Fail, TypeOK, RunnersBusy, RunType
<1>2. status' \in [Requests -> Statuses] /\ told' \in [Requests -> Messages]
  BY <1>1, FailType DEF Fail
<1>3. RunMoves
  BY <1>1, LeaveMoves DEF Fail, RunPcs, Messages
<1>4. UNCHANGED <<attempts, recorded, hour, askVars, job, call, builds, faults>>
  BY DEF Fail
<1>5. RunnersBusy'
  BY <1>3, <1>4, SameCalls, StillBusy
<1> QED
  BY <1>2, <1>3, <1>4, <1>5 DEF askVars, RunMoves, TypeOK

LEMMA TypeRequeue == ASSUME TypeOK, NEW w \in Runners, Requeue(w) PROVE TypeOK'
<1>1. RunMoves
  BY LeaveMoves DEF Requeue, RunPcs, Messages
<1>2. UNCHANGED <<logVars, askVars, call, builds, faults>>
  BY DEF Requeue
<1>3. RunnersBusy'
  BY <1>1, <1>2, SameCalls, StillBusy
<1>4. job' \in [Requests -> JobType]
  BY DEF Requeue, EnqueueOperationRun, TypeOK, RunnersBusy, JobType
<1> QED
  BY <1>1, <1>2, <1>3, <1>4 DEF logVars, askVars, RunMoves, TypeOK

LEMMA TypeRespond == ASSUME TypeOK, NEW w \in Runners, Respond(w) PROVE TypeOK'
<1>1. /\ run' \in [Runners -> RunType] /\ call' \in [Callers -> CallType]
      /\ job' \in [Requests -> JobType] /\ RunnersBusy'
  BY AnswerType DEF Respond
<1>2. UNCHANGED <<logVars, askVars, builds, faults>>
  BY DEF Respond
<1> QED
  BY <1>1, <1>2 DEF logVars, askVars, TypeOK

LEMMA TypeCatchError == ASSUME TypeOK, NEW w \in Runners, CatchError(w) PROVE TypeOK'
<1>1. PICK ok \in BOOLEAN : Answer(w, ok)
  BY DEF CatchError
<1>2. /\ run' \in [Runners -> RunType] /\ call' \in [Callers -> CallType]
      /\ job' \in [Requests -> JobType] /\ RunnersBusy'
  BY <1>1, AnswerType DEF CatchError
<1>3. status' \in [Requests -> Statuses] /\ told' \in [Requests -> Messages]
  <2>1. CASE UNCHANGED <<status, told>>
    BY <2>1 DEF TypeOK
  <2>2. CASE FailOperation(run[w].op, "wentWrong")
    BY <2>2, FailType DEF CatchError, TypeOK, RunnersBusy, Messages
  <2> QED
    BY <2>1, <2>2 DEF CatchError
<1>4. faults' \in 0..MaxFaults
  <2>1. UNCHANGED faults \/ Fault("runThrows")
    BY DEF CatchError
  <2> QED
    BY <2>1, DeployAssumption DEF Fault, TypeOK
<1>5. UNCHANGED <<attempts, recorded, hour, askVars, builds>>
  BY DEF CatchError
<1> QED
  BY <1>2, <1>3, <1>4, <1>5 DEF askVars, TypeOK

LEMMA TypeRunThrows == ASSUME TypeOK, NEW w \in Runners, RunThrows(w) PROVE TypeOK'
<1>1. RunMoves
  BY LeaveMoves DEF RunThrows, RunPcs, Messages
<1>2. UNCHANGED <<logVars, askVars, job, call, builds>>
  BY DEF RunThrows
<1>3. RunnersBusy'
  BY <1>1, <1>2, SameCalls, StillBusy
<1>4. faults' \in 0..MaxFaults
  BY DeployAssumption DEF RunThrows, Fault, TypeOK
<1> QED
  BY <1>1, <1>2, <1>3, <1>4 DEF logVars, askVars, RunMoves, TypeOK

LEMMA TypeRunCrash == ASSUME TypeOK, NEW w \in Runners, RunCrash(w) PROVE TypeOK'
<1>1. /\ run' \in [Runners -> RunType] /\ call' \in [Callers -> CallType]
      /\ job' \in [Requests -> JobType] /\ RunnersBusy'
  BY AnswerType DEF RunCrash
<1>2. faults' \in 0..MaxFaults
  BY DeployAssumption DEF RunCrash, Fault, TypeOK
<1>3. UNCHANGED <<logVars, askVars, builds>>
  BY DEF RunCrash
<1> QED
  BY <1>1, <1>2, <1>3 DEF logVars, askVars, TypeOK

LEMMA TypeBuildStarts == ASSUME TypeOK, NEW n \in DOMAIN builds, BuildStarts(n) PROVE TypeOK'
<1>1. builds[n].app \in Apps
  <2>1. builds[n] \in BuildType
    BY DEF TypeOK
  <2> QED
    BY <2>1 DEF BuildType
<1>2. builds' \in Seq(BuildType)
  BY <1>1, FieldType DEF BuildStarts, TypeOK
<1>3. UNCHANGED <<logVars, askVars, job, run, call, faults>>
  BY DEF BuildStarts
<1> QED
  BY <1>2, <1>3 DEF logVars, askVars, TypeOK, RunnersBusy

LEMMA TypeBuildEnds == ASSUME TypeOK, NEW n \in DOMAIN builds, BuildEnds(n) PROVE TypeOK'
<1>1. builds' \in Seq(BuildType)
  BY FieldType DEF BuildEnds
<1>2. UNCHANGED <<logVars, askVars, job, run, call, faults>>
  BY DEF BuildEnds
<1> QED
  BY <1>1, <1>2 DEF logVars, askVars, TypeOK, RunnersBusy

LEMMA TypeHourPasses == ASSUME TypeOK, NEW r \in Requests, HourPasses(r) PROVE TypeOK'
  BY DEF HourPasses, askVars, TypeOK, RunnersBusy

-----------------------------------------------------------------------------

\* The actions of Next, by who takes them.
LEMMA NextCases ==
    ASSUME [Next]_vars
    PROVE  \/ \E r \in Requests :
                 \/ Arrive(r)
                 \/ LockApp(r)
                 \/ JoinActive(r)
                 \/ FindNone(r)
                 \/ InsertOperation(r)
                 \/ EnqueueFirstRun(r)
                 \/ EnqueueFails(r)
                 \/ DirectDeployAnswered(r)
                 \/ RequestCrash(r)
                 \/ HourPasses(r)
           \/ \E w \in Runners :
                 \/ JobExpires(w)
                 \/ ReadOperation(w)
                 \/ StartOperation(w)
                 \/ AlreadyFinished(w)
                 \/ ReadSite(w)
                 \/ Triggered(w)
                 \/ NotTriggered(w)
                 \/ RecordStart(w)
                 \/ FollowBuild(w)
                 \/ Succeed(w)
                 \/ MergeMessage(w)
                 \/ Fail(w)
                 \/ Requeue(w)
                 \/ Respond(w)
                 \/ CatchError(w)
                 \/ RunThrows(w)
                 \/ RunCrash(w)
           \/ \E w \in Runners, o \in Requests : FetchJob(w, o)
           \/ \E c \in Callers : HostingAccepts(c) \/ HostingRefuses(c) \/ AnswerLost(c)
           \/ \E n \in DOMAIN builds : BuildStarts(n) \/ BuildEnds(n)
           \/ UNCHANGED vars
  BY DEF Next, RequestStep, RunStep, HostingAnswers, Faulty, Quiet

LEMMA TypeStep == TypeOK /\ [Next]_vars => TypeOK'
<1> SUFFICES ASSUME TypeOK, [Next]_vars PROVE TypeOK'
  OBVIOUS
<1>1. ASSUME UNCHANGED vars PROVE TypeOK'
  BY <1>1 DEF vars, logVars, askVars, TypeOK, RunnersBusy
<1> QED
  BY <1>1, NextCases,
     TypeArrive, TypeLockApp, TypeJoinActive, TypeFindNone, TypeInsertOperation,
     TypeEnqueueFirstRun, TypeEnqueueFails, TypeDirectDeployAnswered, TypeRequestCrash,
     TypeHourPasses, TypeJobExpires, TypeReadOperation, TypeStartOperation,
     TypeAlreadyFinished, TypeReadSite, TypeTriggered, TypeNotTriggered, TypeRecordStart,
     TypeFollowBuild, TypeSucceed, TypeMergeMessage, TypeFail, TypeRequeue, TypeRespond,
     TypeCatchError, TypeRunThrows, TypeRunCrash, TypeFetchJob, TypeHostingAccepts,
     TypeHostingRefuses, TypeAnswerLost, TypeBuildStarts, TypeBuildEnds

\* Every variable keeps its type.
THEOREM TypeCorrect == Spec => []TypeOK
  BY TypeInit, TypeStep, PTL DEF Spec

-----------------------------------------------------------------------------
(* What each action does to the record its client sees: a step of the lifecycle *)
(* of one operation, or nothing. Only InsertOperation creates one.              *)

Same    == UNCHANGED <<status, recorded, told>>
Step(o) == Lifecycle!Begin(o) \/ Lifecycle!Record(o) \/ Lifecycle!Succeed(o) \/ Lifecycle!Fail(o)

LEMMA FailStep ==
    ASSUME TypeOK, NEW o \in Requests, NEW m \in Messages, FailOperation(o, m), UNCHANGED recorded
    PROVE  Same \/ Step(o)
<1>1. CASE status[o] \notin Active
  BY <1>1 DEF FailOperation, Same
<1>2. CASE status[o] \in Active
  <2>1. status' = [status EXCEPT ![o] = "failed"] /\ told' = [told EXCEPT ![o] = m] /\ told'[o] = m
    BY <1>2 DEF FailOperation, TypeOK
  <2>2. Lifecycle!Fail(o)
    BY <1>2, <2>1 DEF Lifecycle!Fail, Lifecycle!Move, Lifecycle!Say, Active
  <2> QED
    BY <2>2 DEF Step
<1> QED
  BY <1>1, <1>2

LEMMA StartStep ==
    ASSUME TypeOK, NEW w \in Runners, StartOperation(w)
    PROVE  Same \/ Step(run[w].op)
<1> DEFINE o == run[w].op
<1>1. o \in Requests /\ status' = [status EXCEPT ![o] = "running"] /\ UNCHANGED <<recorded, told>>
  BY DEF StartOperation, TypeOK, RunnersBusy
<1>2. CASE status[o] = "queued"
  BY <1>1, <1>2 DEF Step, Lifecycle!Begin, Lifecycle!Move
<1>3. CASE status[o] = "running"
  BY <1>1, <1>3 DEF TypeOK, Same
<1> QED
  BY <1>2, <1>3 DEF StartOperation, Active

LEMMA RecordStep ==
    ASSUME TypeOK, NEW w \in Runners, RecordStart(w)
    PROVE  Same \/ Step(run[w].op)
<1> DEFINE o == run[w].op
           x == [done |-> TRUE, build |-> IF call[w].tracked THEN call[w].build ELSE 0]
<1>1. o \in Requests /\ call[w] \in CallType /\ UNCHANGED <<status, told>>
  BY DEF RecordStart, TypeOK, RunnersBusy, Callers
<1>2. x \in Recorded
  BY <1>1 DEF CallType, Recorded
<1>3. recorded' = IF status[o] = "running" THEN [recorded EXCEPT ![o] = x] ELSE recorded
  BY DEF RecordStart
<1> HIDE DEF x
<1>4. CASE status[o] = "running"
  BY <1>1, <1>2, <1>3, <1>4 DEF Step, Lifecycle!Record, TypeOK
<1>5. CASE status[o] # "running"
  BY <1>1, <1>3, <1>5 DEF Same
<1> QED
  BY <1>4, <1>5

LEMMA SucceedStep ==
    ASSUME TypeOK, NEW w \in Runners, Succeed(w)
    PROVE  Same \/ Step(run[w].op)
<1>1. CASE status[run[w].op] = "running"
  BY <1>1 DEF Succeed, Step, Lifecycle!Succeed, Lifecycle!Move
<1>2. CASE status[run[w].op] # "running"
  BY <1>2 DEF Succeed, Same
<1> QED
  BY <1>1, <1>2

\* Every runner's action but the merge of the message.
LEMMA RunnerSteps ==
    ASSUME TypeOK, NEW w \in Runners,
           \/ JobExpires(w) \/ ReadOperation(w) \/ StartOperation(w) \/ AlreadyFinished(w)
           \/ ReadSite(w) \/ Triggered(w) \/ NotTriggered(w) \/ RecordStart(w) \/ FollowBuild(w)
           \/ Succeed(w) \/ Fail(w) \/ Requeue(w) \/ Respond(w) \/ CatchError(w)
           \/ RunThrows(w) \/ RunCrash(w)
    PROVE  Same \/ \E o \in Requests : Step(o)
<1>0. run[w].pc # "idle" => run[w].op \in Requests /\ run[w].message \in Messages
  BY DEF TypeOK, RunnersBusy, RunType
<1>1. CASE \/ JobExpires(w) \/ ReadOperation(w) \/ AlreadyFinished(w) \/ ReadSite(w) \/ Triggered(w)
           \/ NotTriggered(w) \/ FollowBuild(w) \/ Requeue(w) \/ Respond(w) \/ RunThrows(w) \/ RunCrash(w)
  BY <1>1 DEF JobExpires, ReadOperation, AlreadyFinished, ReadSite, Triggered, NotTriggered, FollowBuild,
     Requeue, Respond, RunThrows, RunCrash, logVars, Same
<1>2. CASE StartOperation(w)
  BY <1>0, <1>2, StartStep DEF StartOperation
<1>3. CASE RecordStart(w)
  BY <1>0, <1>3, RecordStep DEF RecordStart
<1>4. CASE Succeed(w)
  BY <1>0, <1>4, SucceedStep DEF Succeed
<1>5. CASE Fail(w)
  BY <1>0, <1>5, FailStep DEF Fail
<1>6. CASE CatchError(w)
  <2>1. UNCHANGED recorded /\ (FailOperation(run[w].op, "wentWrong") \/ UNCHANGED <<status, told>>)
    BY <1>6 DEF CatchError
  <2>2. run[w].pc # "idle" /\ "wentWrong" \in Messages
    BY <1>6 DEF CatchError, Messages
  <2> QED
    BY <1>0, <2>1, <2>2, FailStep DEF Same
<1> QED
  BY <1>1, <1>2, <1>3, <1>4, <1>5, <1>6

\* The actions that leave requests and locks alone.
LEMMA OtherSteps ==
    ASSUME TypeOK, [Next]_vars,
           ~ \E r \in Requests : Arrive(r) \/ LockApp(r) \/ JoinActive(r) \/ FindNone(r) \/ InsertOperation(r)
                \/ EnqueueFirstRun(r) \/ EnqueueFails(r) \/ DirectDeployAnswered(r) \/ RequestCrash(r)
    PROVE  /\ UNCHANGED <<holder, request>>
           /\ \/ Same \/ \E o \in Requests : Step(o)
              \/ \E w \in Runners : MergeMessage(w)
<1>1. CASE \E r \in Requests : HourPasses(r)
  BY <1>1 DEF HourPasses, askVars, Same
<1>2. CASE \E w \in Runners : MergeMessage(w)
  BY <1>2 DEF MergeMessage, askVars
<1>3. ASSUME NEW w \in Runners,
             \/ JobExpires(w) \/ ReadOperation(w) \/ StartOperation(w) \/ AlreadyFinished(w)
             \/ ReadSite(w) \/ Triggered(w) \/ NotTriggered(w) \/ RecordStart(w) \/ FollowBuild(w)
             \/ Succeed(w) \/ Fail(w) \/ Requeue(w) \/ Respond(w) \/ CatchError(w)
             \/ RunThrows(w) \/ RunCrash(w)
      PROVE  UNCHANGED <<holder, request>> /\ (Same \/ \E o \in Requests : Step(o))
  <2>1. UNCHANGED <<holder, request>>
    BY <1>3 DEF JobExpires, ReadOperation, StartOperation, AlreadyFinished, ReadSite, Triggered,
       NotTriggered, RecordStart, FollowBuild, Succeed, Fail, Requeue, Respond, CatchError, RunThrows,
       RunCrash, askVars
  <2> QED
    BY <1>3, <2>1, RunnerSteps
<1>4. CASE \E w \in Runners, o \in Requests : FetchJob(w, o)
  BY <1>4 DEF FetchJob, askVars, logVars, Same
<1>5. CASE \E c \in Callers : HostingAccepts(c) \/ HostingRefuses(c) \/ AnswerLost(c)
  BY <1>5 DEF HostingAccepts, HostingRefuses, AnswerLost, askVars, logVars, Same
<1>6. CASE \E n \in DOMAIN builds : BuildStarts(n) \/ BuildEnds(n)
  BY <1>6 DEF BuildStarts, BuildEnds, askVars, logVars, Same
<1>7. CASE UNCHANGED vars
  BY <1>7 DEF vars, askVars, logVars, Same
<1> QED
  BY NextCases, <1>1, <1>2, <1>3, <1>4, <1>5, <1>6, <1>7

-----------------------------------------------------------------------------
(* One active operation per app *)

\* A step of the lifecycle makes no operation active and creates none.
NoneActivated ==
    \A o \in Requests : /\ status'[o] \in Active => status[o] \in Active
                        /\ status[o] = "none" => status'[o] = "none"

LEMMA StepActivatesNone == ASSUME TypeOK, NEW o \in Requests, Step(o) PROVE NoneActivated
  BY DEF Step, Lifecycle!Begin, Lifecycle!Record, Lifecycle!Succeed, Lifecycle!Fail, Lifecycle!Move,
     TypeOK, Active, NoneActivated

LEMMA LockKept ==
    ASSUME LockInv, NoneActivated, UNCHANGED <<holder, request>>
    PROVE  LockInv'
  BY DEF LockInv, NoneActivated, OneActivePerApp

\* The merge of the message changes no status.
LEMMA MessageActivatesNone == ASSUME NEW w \in Runners, MergeMessage(w) PROVE NoneActivated
  BY DEF MergeMessage, NoneActivated

LEMMA SameActivatesNone == ASSUME UNCHANGED status PROVE NoneActivated
  BY DEF NoneActivated

\* A request that takes no lock and makes nothing active, and was not the one
\* that checks or inserts.
LEMMA LockRequest ==
    ASSUME TypeOK, LockInv, NEW r \in Requests, NEW pc, NEW reply, SetRequest(r, pc, reply),
           NoneActivated,
           \/ UNCHANGED holder
           \/ holder' = [holder EXCEPT ![AppOf[r]] = @ \ {r}],
           pc \notin {"new", "find", "insert"},
           pc = "lock" => request[r].pc = "new"
    PROVE  LockInv'
<1>1. \A q \in Requests : AppOf[q] \in Apps
  BY DeployAssumption
<1>2. request'[r].pc = pc /\ \A q \in Requests : q # r => request'[q] = request[q]
  BY DEF SetRequest, TypeOK
<1>3. ASSUME NEW q \in Requests, request'[q].pc \in {"find", "insert"}
      PROVE  holder'[AppOf[q]] = {q}
  <2>1. q # r /\ request[q].pc \in {"find", "insert"} /\ holder[AppOf[q]] = {q}
    BY <1>2, <1>3 DEF LockInv
  <2>2. CASE UNCHANGED holder
    BY <2>1, <2>2
  <2>3. CASE holder' = [holder EXCEPT ![AppOf[r]] = @ \ {r}]
    <3>1. holder'[AppOf[q]] = holder[AppOf[q]] \/ holder'[AppOf[q]] = holder[AppOf[q]] \ {r}
      BY <1>1, <2>3 DEF TypeOK
    <3> QED
      BY <2>1, <3>1
  <2> QED
    BY <2>2, <2>3
<1>4. ASSUME NEW q \in Requests, request'[q].pc = "insert", NEW o \in Requests, AppOf[o] = AppOf[q]
      PROVE  status'[o] \notin Active
  BY <1>2, <1>4 DEF LockInv, NoneActivated
<1>5. ASSUME NEW q \in Requests, request'[q].pc \in {"new", "lock", "find", "insert"}
      PROVE  status'[q] = "none"
  BY <1>2, <1>5 DEF LockInv, NoneActivated
<1>6. OneActivePerApp'
  BY DEF LockInv, OneActivePerApp, NoneActivated
<1> QED
  BY <1>3, <1>4, <1>5, <1>6 DEF LockInv

LEMMA LockStep == TypeOK /\ LockInv /\ [Next]_vars => LockInv'
<1> SUFFICES ASSUME TypeOK, LockInv, [Next]_vars PROVE LockInv'
  OBVIOUS
<1>0. \A q \in Requests : AppOf[q] \in Apps
  BY DeployAssumption
<1>1. ASSUME NEW r \in Requests, Arrive(r) PROVE LockInv'
  <2>1. NoneActivated
    BY <1>1, SameActivatesNone DEF Arrive, logVars
  <2> QED
    BY <1>1, <2>1, LockRequest DEF Arrive
<1>2. ASSUME NEW r \in Requests, LockApp(r) PROVE LockInv'
  <2>1. /\ request'[r].pc = "find" /\ request[r].pc = "lock"
        /\ holder[AppOf[r]] = {} /\ holder'[AppOf[r]] = {r}
        /\ UNCHANGED status
    BY <1>0, <1>2 DEF LockApp, SetRequest, TypeOK, logVars
  <2>2. \A q \in Requests : q # r => request'[q] = request[q]
    BY <1>2 DEF LockApp, SetRequest, TypeOK
  <2>3. \A a \in Apps : a # AppOf[r] => holder'[a] = holder[a]
    BY <1>2 DEF LockApp, TypeOK
  <2>4. ASSUME NEW q \in Requests, request'[q].pc \in {"find", "insert"}
        PROVE  holder'[AppOf[q]] = {q}
    <3>1. CASE q = r
      BY <2>1, <3>1
    <3>2. CASE q # r
      BY <1>0, <2>1, <2>2, <2>3, <2>4, <3>2 DEF LockInv
    <3> QED
      BY <3>1, <3>2
  <2>5. ASSUME NEW q \in Requests, request'[q].pc = "insert", NEW o \in Requests, AppOf[o] = AppOf[q]
        PROVE  status'[o] \notin Active
    BY <2>1, <2>2, <2>5 DEF LockInv
  <2>6. ASSUME NEW q \in Requests, request'[q].pc \in {"new", "lock", "find", "insert"}
        PROVE  status'[q] = "none"
    BY <2>1, <2>2, <2>6 DEF LockInv
  <2> QED
    BY <2>1, <2>4, <2>5, <2>6 DEF LockInv, OneActivePerApp
<1>3. ASSUME NEW r \in Requests, JoinActive(r) PROVE LockInv'
  <2>1. NoneActivated
    BY <1>3, SameActivatesNone DEF JoinActive, logVars
  <2> QED
    BY <1>3, <2>1, LockRequest DEF JoinActive
<1>4. ASSUME NEW r \in Requests, FindNone(r) PROVE LockInv'
  <2>1. /\ request'[r].pc = "insert" /\ request[r].pc = "find" /\ UNCHANGED <<status, holder>>
        /\ \A q \in Requests : q # r => request'[q] = request[q]
    BY <1>4 DEF FindNone, SetRequest, TypeOK, logVars
  <2>2. \A o \in Requests : AppOf[o] = AppOf[r] => status[o] \notin Active
    BY <1>4 DEF FindNone
  <2>3. ASSUME NEW q \in Requests, request'[q].pc = "insert", NEW o \in Requests, AppOf[o] = AppOf[q]
        PROVE  status'[o] \notin Active
    BY <2>1, <2>2, <2>3 DEF LockInv
  <2>4. ASSUME NEW q \in Requests
        PROVE  /\ request'[q].pc \in {"find", "insert"} => holder'[AppOf[q]] = {q}
               /\ request'[q].pc \in {"new", "lock", "find", "insert"} => status'[q] = "none"
    BY <2>1 DEF LockInv
  <2> QED
    BY <2>1, <2>3, <2>4 DEF LockInv, OneActivePerApp
<1>5. ASSUME NEW r \in Requests, InsertOperation(r) PROVE LockInv'
  <2>1. /\ request[r].pc = "insert" /\ request'[r].pc = "enqueue" /\ status'[r] = "queued"
        /\ \A q \in Requests : q # r => request'[q] = request[q] /\ status'[q] = status[q]
    BY <1>5 DEF InsertOperation, SetRequest, TypeOK
  <2>2. /\ holder[AppOf[r]] = {r}
        /\ \A o \in Requests : AppOf[o] = AppOf[r] => status[o] \notin Active
    BY <2>1 DEF LockInv
  <2>3. \A a \in Apps : a # AppOf[r] => holder'[a] = holder[a]
    BY <1>5 DEF InsertOperation, TypeOK
  <2>4. ASSUME NEW q \in Requests, request'[q].pc \in {"find", "insert"}
        PROVE  q # r /\ AppOf[q] # AppOf[r] /\ holder'[AppOf[q]] = {q}
    BY <1>0, <2>1, <2>2, <2>3, <2>4 DEF LockInv
  <2>5. ASSUME NEW q \in Requests, request'[q].pc = "insert", NEW o \in Requests, AppOf[o] = AppOf[q]
        PROVE  status'[o] \notin Active
    BY <2>1, <2>4, <2>5 DEF LockInv
  <2>6. ASSUME NEW q \in Requests, request'[q].pc \in {"new", "lock", "find", "insert"}
        PROVE  status'[q] = "none"
    BY <2>1, <2>6 DEF LockInv
  <2>7. OneActivePerApp'
    BY <2>1, <2>2 DEF LockInv, OneActivePerApp
  <2> QED
    BY <2>4, <2>5, <2>6, <2>7 DEF LockInv
<1>6. ASSUME NEW r \in Requests, EnqueueFirstRun(r) PROVE LockInv'
  <2>1. NoneActivated
    BY <1>6, SameActivatesNone DEF EnqueueFirstRun, logVars
  <2> QED
    BY <1>6, <2>1, LockRequest DEF EnqueueFirstRun
<1>7. ASSUME NEW r \in Requests, EnqueueFails(r) PROVE LockInv'
  <2>1. NoneActivated
    BY <1>7 DEF EnqueueFails, FailOperation, NoneActivated, TypeOK, Active
  <2> QED
    BY <1>7, <2>1, LockRequest DEF EnqueueFails
<1>8. ASSUME NEW r \in Requests, DirectDeployAnswered(r) PROVE LockInv'
  <2>1. NoneActivated
    BY <1>8, SameActivatesNone DEF DirectDeployAnswered, logVars
  <2> QED
    BY <1>8, <2>1, LockRequest DEF DirectDeployAnswered
<1>9. ASSUME NEW r \in Requests, RequestCrash(r) PROVE LockInv'
  <2>1. NoneActivated
    BY <1>9, SameActivatesNone DEF RequestCrash, logVars
  <2> QED
    BY <1>9, <2>1, LockRequest DEF RequestCrash
<1>10. ASSUME ~ \E r \in Requests : Arrive(r) \/ LockApp(r) \/ JoinActive(r) \/ FindNone(r)
                  \/ InsertOperation(r) \/ EnqueueFirstRun(r) \/ EnqueueFails(r)
                  \/ DirectDeployAnswered(r) \/ RequestCrash(r)
       PROVE  LockInv'
  <2>1. UNCHANGED <<holder, request>> /\ NoneActivated
    BY <1>10, OtherSteps, StepActivatesNone, MessageActivatesNone, SameActivatesNone DEF Same
  <2> QED
    BY <2>1, LockKept
<1> QED
  BY <1>1, <1>2, <1>3, <1>4, <1>5, <1>6, <1>7, <1>8, <1>9, <1>10

LEMMA LockInit == Init => LockInv
  BY DEF Init, LockInv, OneActivePerApp, Active

\* At most one operation of an app is queued or running, whatever crashes.
THEOREM OneActive == Spec => []OneActivePerApp
<1>1. LockInv => OneActivePerApp
  BY DEF LockInv
<1> QED
  BY TypeInit, TypeStep, LockInit, LockStep, <1>1, PTL DEF Spec

-----------------------------------------------------------------------------
(* The lifecycle: the detailed log implements OperationLifecycle. The message   *)
(* of a success is the hard part, because its update has no guard.              *)

\* Runners come to "message" only by Succeed, and leave it by themselves.
MessagesFew ==
    \A x \in Runners : run'[x].pc = "message" => run[x].pc = "message" /\ run'[x].op = run[x].op

\* Nothing is said of an operation that is not finished, and a success stays.
Silent ==
    \A o \in Requests :
        /\ status[o] = "succeeded" => status'[o] = "succeeded" /\ told'[o] = told[o]
        /\ status'[o] \in Active \cup {"none"} =>
              status[o] \in Active \cup {"none"} /\ told'[o] = told[o]

LEMMA MessageKept == ASSUME TypeOK, MessageInv, MessagesFew, Silent PROVE MessageInv'
<1>1. \A w \in Runners : run[w].pc = "message" => run[w].op \in Requests
  BY DEF TypeOK, RunnersBusy
<1> QED
  BY <1>1 DEF MessageInv, MessagesFew, Silent

LEMMA StepSilent == ASSUME TypeOK, NEW o \in Requests, Step(o) PROVE Silent
  BY DEF Step, Lifecycle!Begin, Lifecycle!Record, Lifecycle!Succeed, Lifecycle!Fail, Lifecycle!Move,
     Lifecycle!Say, TypeOK, Active, Silent

LEMMA SameSilent == ASSUME Same PROVE Silent
  BY DEF Same, Silent

\* Every runner's action but Succeed leaves the runners at "message" alone.
LEMMA RunnersFew ==
    ASSUME TypeOK, NEW w \in Runners,
           \/ JobExpires(w) \/ ReadOperation(w) \/ StartOperation(w) \/ AlreadyFinished(w)
           \/ ReadSite(w) \/ Triggered(w) \/ NotTriggered(w) \/ RecordStart(w) \/ FollowBuild(w)
           \/ MergeMessage(w) \/ Fail(w) \/ Requeue(w) \/ Respond(w) \/ CatchError(w)
           \/ RunThrows(w) \/ RunCrash(w)
    PROVE  MessagesFew
<1>2. CASE JobExpires(w)
  BY <1>2 DEF JobExpires, TypeOK, RunType, MessagesFew
<1>3. CASE \/ Respond(w) \/ CatchError(w) \/ RunCrash(w)
  <2>1. run' = [run EXCEPT ![w] = IdleRun]
    BY <1>3 DEF Respond, CatchError, RunCrash, Answer
  <2> QED
    BY <2>1 DEF MessagesFew, IdleRun, TypeOK
<1>4. CASE \/ AlreadyFinished(w) \/ NotTriggered(w) \/ RecordStart(w) \/ FollowBuild(w)
           \/ MergeMessage(w) \/ Fail(w) \/ Requeue(w) \/ RunThrows(w)
  <2>1. run[w] \in RunType
    BY DEF TypeOK
  <2>2. PICK pc \in {"respond", "catch", "fail", "succeed", "requeue"}, m \in Messages \cup {run[w].message} : Leave(w, pc, m)
    BY <1>4 DEF Messages, AlreadyFinished, NotTriggered, RecordStart, FollowBuild, MergeMessage, Fail, Requeue, RunThrows
  <2>3. run'[w].pc = pc /\ \A x \in Runners : x # w => run'[x] = run[x]
    BY <2>1, <2>2 DEF Leave, TypeOK, RunType
  <2> QED
    BY <2>3 DEF MessagesFew
<1>5. CASE ReadOperation(w)
  BY <1>5 DEF ReadOperation, TypeOK, RunType, MessagesFew
<1>6. CASE StartOperation(w) \/ ReadSite(w) \/ Triggered(w)
  <2>1. run[w] \in RunType
    BY DEF TypeOK
  <2>2. \/ \E pc \in {"follow", "site", "trigger", "merge"} : Goto(w, pc)
        \/ Leave(w, "fail", "nothingDeployed")
    BY <1>6 DEF StartOperation, ReadSite, Triggered
  <2>3. CASE \E pc \in {"follow", "site", "trigger", "merge"} : Goto(w, pc)
    <3>1. PICK pc \in {"follow", "site", "trigger", "merge"} : Goto(w, pc)
      BY <2>3
    <3>2. run'[w].pc = pc /\ \A x \in Runners : x # w => run'[x] = run[x]
      BY <2>1, <3>1 DEF Goto, TypeOK, RunType
    <3> QED
      BY <3>2 DEF MessagesFew
  <2>4. CASE Leave(w, "fail", "nothingDeployed")
    <3>1. run'[w].pc = "fail" /\ \A x \in Runners : x # w => run'[x] = run[x]
      BY <2>1, <2>4 DEF Leave, TypeOK, RunType
    <3> QED
      BY <3>1 DEF MessagesFew
  <2> QED
    BY <2>2, <2>3, <2>4
<1> QED
  BY <1>2, <1>3, <1>4, <1>5, <1>6

LEMMA MessageStep == TypeOK /\ LockInv /\ MessageInv /\ [Next]_vars => MessageInv'
<1> SUFFICES ASSUME TypeOK, LockInv, MessageInv, [Next]_vars PROVE MessageInv'
  OBVIOUS
<1>1. ASSUME NEW w \in Runners, Succeed(w) PROVE MessageInv'
  <2> DEFINE o == run[w].op
  <2>1. o \in Requests
    BY <1>1 DEF Succeed, TypeOK, RunnersBusy
  <2>2. Same \/ Step(o)
    BY <1>1, SucceedStep
  <2>3. CASE status[o] # "running"
    <3>1. Leave(w, "respond", "none") /\ UNCHANGED <<status, recorded, told>>
      BY <1>1, <2>3 DEF Succeed
    <3>2. run[w] \in RunType
      BY DEF TypeOK
    <3>3. run'[w].pc = "respond" /\ \A x \in Runners : x # w => run'[x] = run[x]
      BY <3>1, <3>2 DEF Leave, TypeOK, RunType
    <3>4. MessagesFew
      BY <3>3 DEF MessagesFew
    <3>5. Same
      BY <3>1 DEF Same
    <3> QED
      BY <3>4, <3>5, SameSilent, MessageKept
  <2>4. CASE status[o] = "running"
    <3>1. /\ status' = [status EXCEPT ![o] = "succeeded"] /\ UNCHANGED told
          /\ run'[w].pc = "message"
          /\ \A x \in Runners : run'[x].op = run[x].op /\ (x # w => run'[x] = run[x])
      BY <1>1, <2>4 DEF Succeed, Goto, TypeOK, RunType
    <3>2. told[o] = "none"
      BY <2>1, <2>4 DEF MessageInv, Active
    <3>3. \A x \in Runners : run[x].pc = "message" => run[x].op # o /\ run[x].op \in Requests
      BY <2>4 DEF MessageInv, TypeOK, RunnersBusy
    <3>4. status'[o] = "succeeded" /\ \A p \in Requests : p # o => status'[p] = status[p]
      BY <2>1, <3>1 DEF TypeOK
    <3>5. ASSUME NEW p \in Requests, status'[p] \in Active \cup {"none"} PROVE told'[p] = "none"
      BY <3>1, <3>4, <3>5 DEF MessageInv, Active
    <3>6. ASSUME NEW x \in Runners, run'[x].pc = "message"
          PROVE  /\ status'[run'[x].op] = "succeeded" /\ told'[run'[x].op] = "none"
                 /\ \A y \in Runners : y # x /\ run'[y].pc = "message" => run'[y].op # run'[x].op
      <4>1. CASE x = w
        BY <3>1, <3>2, <3>3, <3>4, <4>1
      <4>2. CASE x # w
        BY <3>1, <3>3, <3>4, <3>6, <4>2 DEF MessageInv
      <4> QED
        BY <4>1, <4>2
    <3> QED
      BY <3>5, <3>6 DEF MessageInv
  <2> QED
    BY <2>3, <2>4
<1>2. ASSUME NEW w \in Runners, MergeMessage(w) PROVE MessageInv'
  <2> DEFINE o == run[w].op
  <2>1. /\ o \in Requests /\ status[o] = "succeeded"
        /\ \A x \in Runners : x # w /\ run[x].pc = "message" => run[x].op # o
    BY <1>2 DEF MergeMessage, MessageInv, TypeOK, RunnersBusy
  <2>2. UNCHANGED status /\ \A p \in Requests : p # o => told'[p] = told[p]
    BY <1>2 DEF MergeMessage, TypeOK
  <2>3. MessagesFew
    BY <1>2, RunnersFew
  <2>4. run'[w].pc # "message"
    BY <1>2 DEF MergeMessage, Leave, TypeOK, RunType
  <2>5. \A x \in Runners : run[x].pc = "message" => run[x].op \in Requests
    BY DEF TypeOK, RunnersBusy
  <2>6. ASSUME NEW p \in Requests, status'[p] \in Active \cup {"none"} PROVE told'[p] = "none"
    BY <2>1, <2>2, <2>6 DEF MessageInv, Active
  <2> QED
    BY <2>1, <2>2, <2>3, <2>4, <2>5, <2>6 DEF MessageInv, MessagesFew
<1>3. ASSUME NEW r \in Requests, InsertOperation(r) PROVE MessageInv'
  <2>1. status[r] = "none" /\ status' = [status EXCEPT ![r] = "queued"] /\ UNCHANGED <<told, run>>
    BY <1>3 DEF InsertOperation, LockInv
  <2>2. \A x \in Runners : run[x].pc = "message" => run[x].op \in Requests
    BY DEF TypeOK, RunnersBusy
  <2> QED
    BY <2>1, <2>2 DEF MessageInv, TypeOK
<1>4. ASSUME NEW r \in Requests, EnqueueFails(r) PROVE MessageInv'
  <2>1. CASE FailOperation(r, "notQueued")
    <3>1. Same \/ Step(r)
      BY <1>4, <2>1, FailStep DEF EnqueueFails, Messages
    <3>2. MessagesFew
      BY <1>4 DEF EnqueueFails, MessagesFew
    <3> QED
      BY <3>1, <3>2, StepSilent, SameSilent, MessageKept
  <2>2. CASE UNCHANGED <<status, told>>
    BY <1>4, <2>2 DEF EnqueueFails, MessageInv
  <2> QED
    BY <1>4, <2>1, <2>2 DEF EnqueueFails
<1>5. ASSUME NEW r \in Requests,
             \/ Arrive(r) \/ LockApp(r) \/ JoinActive(r) \/ FindNone(r) \/ EnqueueFirstRun(r)
             \/ DirectDeployAnswered(r) \/ RequestCrash(r)
      PROVE  MessageInv'
  <2>1. UNCHANGED <<status, told, run>>
    BY <1>5 DEF Arrive, LockApp, JoinActive, FindNone, EnqueueFirstRun, DirectDeployAnswered,
       RequestCrash, logVars
  <2> QED
    BY <2>1 DEF MessageInv
<1>6. ASSUME NEW w \in Runners,
             \/ JobExpires(w) \/ ReadOperation(w) \/ StartOperation(w) \/ AlreadyFinished(w)
             \/ ReadSite(w) \/ Triggered(w) \/ NotTriggered(w) \/ RecordStart(w) \/ FollowBuild(w)
             \/ Fail(w) \/ Requeue(w) \/ Respond(w) \/ CatchError(w) \/ RunThrows(w) \/ RunCrash(w)
      PROVE  MessageInv'
  BY <1>6, RunnersFew, RunnerSteps, StepSilent, SameSilent, MessageKept
<1>7. ASSUME NEW w \in Runners, NEW o \in Requests, FetchJob(w, o) PROVE MessageInv'
  <2>1. UNCHANGED <<status, told>> /\ run'[w].pc = "read" /\ \A x \in Runners : x # w => run'[x] = run[x]
    BY <1>7 DEF FetchJob, logVars, TypeOK, IdleRun
  <2> QED
    BY <2>1 DEF MessageInv
<1>8. ASSUME \/ \E c \in Callers : HostingAccepts(c) \/ HostingRefuses(c) \/ AnswerLost(c)
             \/ \E n \in DOMAIN builds : BuildStarts(n) \/ BuildEnds(n)
             \/ \E r \in Requests : HourPasses(r)
             \/ UNCHANGED vars
      PROVE  MessageInv'
  <2>1. UNCHANGED <<status, told, run>>
    BY <1>8 DEF HostingAccepts, HostingRefuses, AnswerLost, BuildStarts, BuildEnds, HourPasses, vars, logVars
  <2> QED
    BY <2>1 DEF MessageInv
<1> QED
  BY NextCases, <1>1, <1>2, <1>3, <1>4, <1>5, <1>6, <1>7, <1>8

LEMMA MessageInit == Init => MessageInv
  BY DEF Init, MessageInv, IdleRun

\* The invariant every step of the refinement is taken from.
THEOREM Inductive == Spec => []IInv
<1>1. Init => IInv
  BY TypeInit, LockInit, MessageInit DEF IInv
<1>2. IInv /\ [Next]_vars => IInv'
  BY TypeStep, LockStep, MessageStep DEF IInv
<1> QED
  BY <1>1, <1>2, PTL DEF Spec

LEMMA LifecycleInit == Init => Lifecycle!Init
  BY DEF Init, Lifecycle!Init

LEMMA LifecycleStep == IInv /\ [Next]_vars => [Lifecycle!Next]_(Lifecycle!vars)
<1> SUFFICES ASSUME TypeOK, LockInv, MessageInv, [Next]_vars
             PROVE  Lifecycle!Next \/ UNCHANGED Lifecycle!vars
  BY DEF IInv
<1>1. ASSUME Same PROVE UNCHANGED Lifecycle!vars
  BY <1>1 DEF Same, Lifecycle!vars
<1>2. ASSUME NEW o \in Requests, Step(o) PROVE Lifecycle!Next
  BY <1>2 DEF Step, Lifecycle!Next
<1>3. ASSUME NEW w \in Runners, MergeMessage(w) PROVE Lifecycle!Next
  <2>1. /\ run[w].op \in Requests /\ run[w].message \in Messages
        /\ status[run[w].op] = "succeeded" /\ told[run[w].op] = "none"
        /\ told' = [told EXCEPT ![run[w].op] = run[w].message] /\ UNCHANGED <<status, recorded>>
    BY <1>3 DEF MergeMessage, MessageInv, TypeOK, RunnersBusy, RunType
  <2>2. Lifecycle!Explain(run[w].op)
    BY <2>1 DEF Lifecycle!Explain, Lifecycle!Say, TypeOK
  <2> QED
    BY <2>1, <2>2 DEF Lifecycle!Next
<1>4. ASSUME NEW r \in Requests, InsertOperation(r) PROVE Lifecycle!Next
  <2>1. Lifecycle!Create(r)
    BY <1>4 DEF InsertOperation, LockInv, Lifecycle!Create, Lifecycle!Move
  <2> QED
    BY <2>1 DEF Lifecycle!Next
<1>5. ASSUME NEW r \in Requests, EnqueueFails(r) PROVE Lifecycle!Next \/ UNCHANGED Lifecycle!vars
  <2>1. CASE FailOperation(r, "notQueued")
    BY <1>1, <1>2, <1>5, <2>1, FailStep DEF EnqueueFails, Messages
  <2>2. CASE UNCHANGED <<status, told>>
    BY <1>1, <1>5, <2>2 DEF EnqueueFails, Same
  <2> QED
    BY <1>5, <2>1, <2>2 DEF EnqueueFails
<1>6. ASSUME NEW r \in Requests,
             \/ Arrive(r) \/ LockApp(r) \/ JoinActive(r) \/ FindNone(r) \/ EnqueueFirstRun(r)
             \/ DirectDeployAnswered(r) \/ RequestCrash(r)
      PROVE  Same
  BY <1>6 DEF Arrive, LockApp, JoinActive, FindNone, EnqueueFirstRun, DirectDeployAnswered,
     RequestCrash, logVars, Same
<1>7. CASE \E r \in Requests : Arrive(r) \/ LockApp(r) \/ JoinActive(r) \/ FindNone(r) \/ InsertOperation(r)
              \/ EnqueueFirstRun(r) \/ EnqueueFails(r) \/ DirectDeployAnswered(r) \/ RequestCrash(r)
  BY <1>1, <1>4, <1>5, <1>6, <1>7
<1>8. CASE ~ \E r \in Requests : Arrive(r) \/ LockApp(r) \/ JoinActive(r) \/ FindNone(r) \/ InsertOperation(r)
              \/ EnqueueFirstRun(r) \/ EnqueueFails(r) \/ DirectDeployAnswered(r) \/ RequestCrash(r)
  BY <1>1, <1>2, <1>3, <1>8, OtherSteps
<1> QED
  BY <1>7, <1>8

\* operations.ts keeps its promise: status only moves forward, one party finishes
\* an operation, and nothing is recorded or said of it afterwards by another.
THEOREM Refinement == Spec => KeepsLifecycle
  BY Inductive, LifecycleInit, LifecycleStep, PTL DEF Spec, KeepsLifecycle, Lifecycle!Spec
=============================================================================
