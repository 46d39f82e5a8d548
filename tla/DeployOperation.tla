--------------------------- MODULE DeployOperation ---------------------------
(* Deploys as operations (apps/web/src/lib/deploy-operation.ts): the requests  *)
(* that create or join an operation, the durable operations log               *)
(* (operations.ts), the queue that runs it (job-queue.ts and the worker), the  *)
(* run route that executes one step per job, and the hosting platform as the   *)
(* code sees it (triggerCoolifyDeploy, getCoolifyDeploymentState).             *)
(*                                                                            *)
(* A request creates at most one operation, so an operation is named by the    *)
(* request that created it. One action is one await of the code: every point   *)
(* where another request, another handler or a crash can come in between.      *)
EXTENDS Integers, Sequences, FiniteSets

CONSTANTS
    Requests,           \* requests to deploy: Redeploy, Deploy now / promote, a Git push
    Runners,            \* concurrent executions of the run route
    Apps,               \* an app's environment: the pair (site, environment)
    AppOf,              \* the app each request is about
    KindOf,             \* "button", "manual" or "push": which caller the request is
    Services,           \* the apps hosted as services (restarted, not built)
    RetryLimit,         \* retryLimit of the queue: 3
    MaxStartAttempts,   \* MAX_START_ATTEMPTS: 3
    FaultKinds,         \* the faults that may happen in this instance
    MaxFaults           \* bound on how many of them

ASSUME DeployAssumption ==
    /\ AppOf \in [Requests -> Apps]
    /\ KindOf \in [Requests -> {"button", "manual", "push"}]
    /\ Services \subseteq Apps
    /\ RetryLimit \in Nat /\ MaxStartAttempts \in Nat /\ MaxFaults \in Nat
    /\ FaultKinds \subseteq {"requestCrash", "enqueueError", "runCrash",
                             "runThrows", "lateOriginal", "lostAnswer"}
    /\ Requests \cap Runners = {}

VARIABLES
    status,     \* Operation.status, "none" before the row exists
    attempts,   \* Operation.attempts
    recorded,   \* Operation.result: startedAt present, and the hosting deployment (0: none)
    told,       \* what the finished operation tells its client (error or result.message)
    hour,       \* more than GIVE_UP_AFTER_MS has gone by since startedAt
    holder,     \* per app, the holders of pg_advisory_xact_lock
    request,    \* per request: where its handler is, and its answer
    head,       \* per app, the newest commit of its branch
    asked,      \* per push request, the commit it is about
    job,        \* per operation, its pg-boss jobs: waiting, retry and active
    run,        \* per runner: where its handler is, and what it has read
    call,       \* per caller, the progress of triggerCoolifyDeploy
    builds,     \* every deployment the hosting platform accepted, in order
    faults      \* how many faults have happened

logVars  == <<status, attempts, recorded, told, hour>>
askVars  == <<holder, request, head, asked>>
vars     == <<logVars, askVars, job, run, call, builds, faults>>

-----------------------------------------------------------------------------
(* Values *)

Active   == {"queued", "running"}
Statuses == Active \cup {"none", "succeeded", "failed", "cancelled"}
Messages == {"none", "live", "started", "restarted", "unchanged", "nothingDeployed",
             "couldNotStart", "mayHaveStarted", "gaveUp", "wentWrong", "notQueued"}

\* What mergeOperationResult stores: nothing yet, or startedAt with the deployment to follow.
NotRecorded == [done |-> FALSE, build |-> 0]

CallAt(e) == [entry |-> e, failure |-> "none", timedOut |-> FALSE, build |-> 0, tracked |-> FALSE]
NoCall   == CallAt(0)
NewCall  == CallAt(1)
PlanEnd  == 5           \* deployRequestPlan has four entries
IdleRun  == [pc |-> "idle", op |-> "none", final |-> FALSE, attached |-> FALSE,
             attempts |-> 0, recorded |-> NotRecorded, message |-> "none"]
NoJob    == [waiting |-> FALSE, retry |-> 0, active |-> 0]

Callers   == Requests \cup Runners
OpOf(c)   == IF c \in Requests THEN c ELSE run[c].op
Fault(k)  == k \in FaultKinds /\ faults < MaxFaults /\ faults' = faults + 1

Init ==
    /\ status = [o \in Requests |-> "none"]
    /\ attempts = [o \in Requests |-> 0]
    /\ recorded = [o \in Requests |-> NotRecorded]
    /\ told = [o \in Requests |-> "none"]
    /\ hour = [o \in Requests |-> FALSE]
    /\ holder = [a \in Apps |-> {}]
    /\ request = [r \in Requests |-> [pc |-> "new", reply |-> "none"]]
    /\ head = [a \in Apps |-> 0]
    /\ asked = [r \in Requests |-> 0]
    /\ job = [o \in Requests |-> NoJob]
    /\ run = [w \in Runners |-> IdleRun]
    /\ call = [c \in Callers |-> NoCall]
    /\ builds = <<>>
    /\ faults = 0

-----------------------------------------------------------------------------
(* operations.ts: every transition is a conditional update *)

\* Fault: a finished operation is failed too.
FailAnyway(o, m) ==
    status' = [status EXCEPT ![o] = "failed"] /\ told' = [told EXCEPT ![o] = m]

\* failOperation(o, m): queued or running becomes failed; anything else stays.
FailOperation(o, m) ==
    IF status[o] \in Active
    THEN status' = [status EXCEPT ![o] = "failed"] /\ told' = [told EXCEPT ![o] = m]
    ELSE UNCHANGED <<status, told>>

\* enqueueOperationRun: pg-boss keeps one waiting job per operation.
EnqueueOperationRun(o) == job' = [job EXCEPT ![o].waiting = TRUE]

-----------------------------------------------------------------------------
(* The request handlers. A definition marked "Fault:" is not the code: it is a   *)
(* plausible mistake in the next definition, which the properties must notice.   *)

SetRequest(r, pc, reply) == request' = [request EXCEPT ![r] = [pc |-> pc, reply |-> reply]]

\* A request arrives; a push comes with a new commit at the head of the branch.
Arrive(r) ==
    /\ request[r].pc = "new"
    /\ SetRequest(r, "lock", "none")
    /\ LET a == AppOf[r]
           c == IF KindOf[r] = "push" THEN head[a] + 1 ELSE head[a]
       IN head' = [head EXCEPT ![a] = c] /\ asked' = [asked EXCEPT ![r] = c]
    /\ UNCHANGED <<logVars, holder, job, run, call, builds, faults>>

\* Fault: the app's lock is shared.
LockAppShared(r) ==
    /\ request[r].pc = "lock"
    /\ holder' = [holder EXCEPT ![AppOf[r]] = @ \cup {r}]
    /\ SetRequest(r, "find", "none")
    /\ UNCHANGED <<logVars, head, asked, job, run, call, builds, faults>>

\* createOrJoinActiveOperation opens its transaction and takes the app's lock.
LockApp(r) ==
    /\ request[r].pc = "lock"
    /\ holder[AppOf[r]] = {}
    /\ holder' = [holder EXCEPT ![AppOf[r]] = @ \cup {r}]
    /\ SetRequest(r, "find", "none")
    /\ UNCHANGED <<logVars, head, asked, job, run, call, builds, faults>>

\* Fault: a push that joins is answered as if hosting had been asked.
JoinQuietly(r) ==
    /\ request[r].pc = "find"
    /\ \E o \in Requests : AppOf[o] = AppOf[r] /\ status[o] \in Active
    /\ holder' = [holder EXCEPT ![AppOf[r]] = @ \ {r}]
    /\ SetRequest(r, "done", IF KindOf[r] = "push" THEN "hosting" ELSE "joined")
    /\ UNCHANGED <<logVars, head, asked, job, run, call, builds, faults>>

\* findFirst: an active operation of this app is joined. A push then asks hosting
\* directly, because that operation may have started before its commit.
JoinActive(r) ==
    /\ request[r].pc = "find"
    /\ \E o \in Requests : AppOf[o] = AppOf[r] /\ status[o] \in Active
    /\ holder' = [holder EXCEPT ![AppOf[r]] = @ \ {r}]
    /\ \/ KindOf[r] = "push" /\ SetRequest(r, "direct", "none") /\ call' = [call EXCEPT ![r] = NewCall]
       \/ KindOf[r] # "push" /\ SetRequest(r, "done", "joined") /\ UNCHANGED call
    /\ UNCHANGED <<logVars, head, asked, job, run, builds, faults>>

\* findFirst: none, go on to create one, still holding the lock.
FindNone(r) ==
    /\ request[r].pc = "find"
    /\ \A o \in Requests : AppOf[o] = AppOf[r] => status[o] \notin Active
    /\ SetRequest(r, "insert", "none")
    /\ UNCHANGED <<logVars, holder, head, asked, job, run, call, builds, faults>>

\* createOperation, and the commit that releases the lock.
InsertOperation(r) ==
    /\ request[r].pc = "insert"
    /\ status' = [status EXCEPT ![r] = "queued"]
    /\ holder' = [holder EXCEPT ![AppOf[r]] = @ \ {r}]
    /\ SetRequest(r, "enqueue", "none")
    /\ UNCHANGED <<attempts, recorded, told, hour, head, asked, job, run, call, builds, faults>>

\* The creator queues the first run.
EnqueueFirstRun(r) ==
    /\ request[r].pc = "enqueue"
    /\ EnqueueOperationRun(r)
    /\ SetRequest(r, "done", "created")
    /\ UNCHANGED <<logVars, holder, head, asked, run, call, builds, faults>>

\* Fault: the deploy route leaves its operation queued as well.
EnqueueFailsOpen(r) ==
    /\ request[r].pc = "enqueue"
    /\ Fault("enqueueError")
    /\ SetRequest(r, "done", "error")
    /\ UNCHANGED <<logVars, holder, head, asked, job, run, call, builds>>

\* Queueing fails: only the deploy route closes the operation it created. Deploy
\* now, promote and deployOnPush answer an error and leave it as it is.
EnqueueFails(r) ==
    /\ request[r].pc = "enqueue"
    /\ Fault("enqueueError")
    /\ SetRequest(r, "done", "error")
    /\ IF KindOf[r] = "button" THEN FailOperation(r, "notQueued") ELSE UNCHANGED <<status, told>>
    /\ UNCHANGED <<attempts, recorded, hour, holder, head, asked, job, run, call, builds>>

\* deployOnPush after joining: hosting was asked directly, and answered.
DirectDeployAnswered(r) ==
    /\ request[r].pc = "direct"
    /\ call[r].build # 0 \/ call[r].entry = PlanEnd
    /\ SetRequest(r, "done", IF call[r].build # 0 THEN "hosting" ELSE "error")
    /\ call' = [call EXCEPT ![r] = NoCall]
    /\ UNCHANGED <<logVars, holder, head, asked, job, run, builds, faults>>

\* The web process dies: an open transaction rolls back, the rest never happens.
RequestCrash(r) ==
    /\ request[r].pc \notin {"new", "done"}
    /\ Fault("requestCrash")
    /\ SetRequest(r, "done", "none")
    /\ holder' = [holder EXCEPT ![AppOf[r]] = @ \ {r}]
    /\ call' = [call EXCEPT ![r] = NoCall]
    /\ UNCHANGED <<logVars, head, asked, job, run, builds>>

-----------------------------------------------------------------------------
(* triggerCoolifyDeploy: the plan is restart, deploy, then the two GET forms *)

\* Whether plan entry e exists for this kind of resource.
Serves(e, a) == e \in {1, 3} => a \in Services

NewBuild(c) ==
    [app |-> AppOf[OpOf(c)], by |-> OpOf(c), commit |-> 0, row |-> "none",
     kind |-> IF call[c].entry = 1 THEN "restart" ELSE "deploy",
     state |-> IF call[c].entry = 1 THEN "finished" ELSE "queued"]

\* noteFailure keeps the first refusal, but prefers any other to "not found".
Note(c, class) ==
    IF call[c].failure \in {"none", "notfound"} THEN class ELSE call[c].failure

\* The loop over the plan is going on: an entry is left and none was accepted.
Calling(c) == call[c].entry \in 1..(PlanEnd - 1) /\ call[c].build = 0

\* The entry is accepted: a restart cannot be followed, a deploy usually can.
HostingAccepts(c) ==
    /\ Calling(c)
    /\ Serves(call[c].entry, AppOf[OpOf(c)])
    /\ builds' = Append(builds, NewBuild(c))
    /\ \E tracked \in (IF call[c].entry = 1 THEN {FALSE} ELSE BOOLEAN) :
          call' = [call EXCEPT ![c] = [@ EXCEPT !.build = Len(builds) + 1, !.tracked = tracked]]
    /\ UNCHANGED <<logVars, askVars, job, run, faults>>

\* The entry is refused; the loop goes on with the next one. "busy" stands for
\* the statuses in RETRYABLE_STATUSES, after the one repeat a 429 gets.
HostingRefuses(c) ==
    /\ Calling(c)
    /\ \E class \in {"busy", IF Serves(call[c].entry, AppOf[OpOf(c)]) THEN "refused" ELSE "notfound"} :
          call' = [call EXCEPT ![c] = [@ EXCEPT !.entry = call[c].entry + 1, !.failure = Note(c, class)]]
    /\ UNCHANGED <<logVars, askVars, job, run, builds, faults>>

\* No answer comes back, whether or not hosting took the request. An abort (the
\* 8 s timer) is remembered; a reset connection is reported as status 0 alone.
AnswerLost(c) ==
    /\ Calling(c)
    /\ Fault("lostAnswer")
    /\ \E taken \in BOOLEAN, aborted \in BOOLEAN :
          /\ taken => Serves(call[c].entry, AppOf[OpOf(c)])
          /\ builds' = IF taken THEN Append(builds, NewBuild(c)) ELSE builds
          /\ call' = [call EXCEPT ![c] = [@ EXCEPT !.entry = call[c].entry + 1, !.failure = Note(c, "busy"),
                                              !.timedOut = call[c].timedOut \/ aborted]]
    /\ UNCHANGED <<logVars, askVars, job, run>>

-----------------------------------------------------------------------------
(* The queue and the worker. job.waiting is the job in state created, job.retry *)
(* the attempt number the job in state retry will have, job.active the attempt  *)
(* number of the active one (0: none): the "stately" policy keeps one of each.  *)

\* The worker takes a job of o and posts it to the run route.
FetchJob(w, o) ==
    /\ run[w].pc = "idle"
    /\ job[o].active = 0
    /\ \/ job[o].waiting /\ job' = [job EXCEPT ![o].waiting = FALSE, ![o].active = 1]
       \/ job[o].retry # 0 /\ job' = [job EXCEPT ![o].retry = 0, ![o].active = job[o].retry]
    /\ run' = [run EXCEPT ![w] = [IdleRun EXCEPT !.pc = "read", !.op = o, !.attached = TRUE,
                                                !.final = job'[o].active > RetryLimit]]
    /\ UNCHANGED <<logVars, askVars, call, builds, faults>>

\* The job failed: it is retried unless that was its last attempt or a retry is
\* already there.
JobFailed(j) ==
    [j EXCEPT !.active = 0,
              !.retry = IF j.active <= RetryLimit /\ @ = 0 THEN j.active + 1 ELSE @]

\* The worker gives up on a handler that is still going: its own 4 minute
\* timeout, a worker restart, or the queue's 5 minute expiry.
JobExpires(w) ==
    /\ run[w].pc # "idle" /\ run[w].attached
    /\ Fault("lateOriginal")
    /\ run' = [run EXCEPT ![w].attached = FALSE]
    /\ job' = [job EXCEPT ![run[w].op] = JobFailed(@)]
    /\ UNCHANGED <<logVars, askVars, call, builds>>

\* The handler w answers the worker, which completes or fails the job.
Answer(w, ok) ==
    /\ run' = [run EXCEPT ![w] = IdleRun]
    /\ call' = [call EXCEPT ![w] = NoCall]
    /\ IF run[w].attached
       THEN job' = [job EXCEPT ![run[w].op] = IF ok THEN [@ EXCEPT !.active = 0] ELSE JobFailed(@)]
       ELSE UNCHANGED job

-----------------------------------------------------------------------------
(* The run route and runSiteDeployStep *)

Goto(w, pc)        == run' = [run EXCEPT ![w].pc = pc]

\* The decision is taken: only the message is still needed of what the step read.
Leave(w, pc, m)    ==
    run' = [run EXCEPT ![w] = [@ EXCEPT !.pc = pc, !.attempts = 0, !.recorded = NotRecorded,
                                        !.message = m]]

\* getOperation: the snapshot every later decision of this step is made on.
ReadOperation(w) ==
    /\ run[w].pc = "read"
    /\ run' = [run EXCEPT ![w] = [@ EXCEPT !.pc = "start", !.attempts = attempts[run[w].op],
                                           !.recorded = recorded[run[w].op]]]
    /\ UNCHANGED <<logVars, askVars, job, call, builds, faults>>

\* Attempts are only compared with MaxStartAttempts, so the count stops there
\* (rechecks of a long build go on counting in the code).
CountAttempt(n) == IF n < MaxStartAttempts THEN n + 1 ELSE n

\* Fault: every step starts the deploy, whatever was recorded.
StartAgain(w) ==
    LET o == run[w].op IN
    /\ run[w].pc = "start"
    /\ status[o] \in Active
    /\ status' = [status EXCEPT ![o] = "running"]
    /\ attempts' = [attempts EXCEPT ![o] = CountAttempt(@)]
    /\ Goto(w, "site")
    /\ UNCHANGED <<recorded, told, hour, askVars, job, call, builds, faults>>

\* startOperation: count the attempt and go on where the snapshot says.
StartOperation(w) ==
    LET o == run[w].op IN
    /\ run[w].pc = "start"
    /\ status[o] \in Active
    /\ status' = [status EXCEPT ![o] = "running"]
    /\ attempts' = [attempts EXCEPT ![o] = CountAttempt(@)]
    /\ Goto(w, IF run[w].recorded.done THEN "follow" ELSE "site")
    /\ UNCHANGED <<recorded, told, hour, askVars, job, call, builds, faults>>

\* startOperation finds it finished: the step is done.
AlreadyFinished(w) ==
    /\ run[w].pc = "start"
    /\ status[run[w].op] \notin Active
    /\ Leave(w, "respond", "none")
    /\ UNCHANGED <<logVars, askVars, job, call, builds, faults>>

\* startDeploy reads the site: it may be deleted, unlinked or moved by now.
ReadSite(w) ==
    /\ run[w].pc = "site"
    /\ \/ Goto(w, "trigger") /\ call' = [call EXCEPT ![w] = NewCall]
       \/ Leave(w, "fail", "nothingDeployed") /\ UNCHANGED call
    /\ UNCHANGED <<logVars, askVars, job, builds, faults>>

\* Hosting accepted: a deploy gets a history row (errors are swallowed).
Triggered(w) ==
    /\ run[w].pc = "trigger"
    /\ call[w].build # 0
    /\ builds' \in {builds} \cup
          (IF builds[call[w].build].kind = "deploy"
           THEN {[builds EXCEPT ![call[w].build].row = "in_progress"]} ELSE {})
    /\ Goto(w, "merge")
    /\ UNCHANGED <<logVars, askVars, job, call, faults>>

\* Hosting did not start anything, as far as triggerCoolifyDeploy knows: try
\* again later if that is safe and worth it, otherwise fail the operation.
NotTriggered(w) ==
    /\ run[w].pc = "trigger"
    /\ call[w].build = 0 /\ call[w].entry = PlanEnd
    /\ IF ~call[w].timedOut /\ call[w].failure = "busy" /\ run[w].attempts + 1 < MaxStartAttempts
       THEN Leave(w, "catch", "none")
       ELSE Leave(w, "fail", IF call[w].timedOut THEN "mayHaveStarted" ELSE "couldNotStart")
    /\ call' = [call EXCEPT ![w] = NoCall]
    /\ UNCHANGED <<logVars, askVars, job, builds, faults>>

\* Fault: the start is not recorded.
ForgetStart(w) ==
    /\ run[w].pc = "merge"
    /\ IF builds[call[w].build].kind = "restart" THEN Leave(w, "succeed", "restarted")
       ELSE IF call[w].tracked THEN Leave(w, "requeue", "none") ELSE Leave(w, "succeed", "started")
    /\ call' = [call EXCEPT ![w] = NoCall]
    /\ UNCHANGED <<logVars, askVars, job, builds, faults>>

\* mergeOperationResult, only while running; then follow the build or be done.
RecordStart(w) ==
    LET o == run[w].op
        n == call[w].build
    IN
    /\ run[w].pc = "merge"
    /\ recorded' = IF status[o] = "running"
                   THEN [recorded EXCEPT ![o] = [done |-> TRUE, build |-> IF call[w].tracked THEN n ELSE 0]]
                   ELSE recorded
    /\ IF builds[n].kind = "restart" THEN Leave(w, "succeed", "restarted")
       ELSE IF call[w].tracked THEN Leave(w, "requeue", "none") ELSE Leave(w, "succeed", "started")
    /\ call' = [call EXCEPT ![w] = NoCall]
    /\ UNCHANGED <<status, attempts, told, hour, askVars, job, builds, faults>>

SetRow(n, row) ==
    builds' \in {builds} \cup (IF builds[n].row = "none" THEN {} ELSE {[builds EXCEPT ![n].row = row]})

\* Fault: any end of a deployment counts as finished.
HasEnded(n) == builds[n].state \in {"finished", "failed", "cancelled"}

\* getCoolifyDeploymentState answers "finished".
HasFinished(n) == builds[n].state = "finished"

\* Fault: a check that finds nothing new never gives up.
NeverGivesUp(o) == FALSE

\* More than GIVE_UP_AFTER_MS since the start.
GivesUp(o) == hour[o]

\* followBuild: look at the deployment recorded in the snapshot. A check that
\* fails counts as "unknown": look again, until an hour has gone by.
FollowBuild(w) ==
    LET n == run[w].recorded.build IN
    /\ run[w].pc = "follow"
    /\ \/ /\ n = 0
          /\ Leave(w, "succeed", "started") /\ UNCHANGED builds
       \/ /\ n # 0 /\ HasFinished(n)
          /\ SetRow(n, "success") /\ Leave(w, "succeed", "live")
       \/ /\ n # 0 /\ builds[n].state \in {"failed", "cancelled"}
          /\ SetRow(n, "failed") /\ Leave(w, "fail", "unchanged")
       \/ /\ n # 0 /\ GivesUp(run[w].op)      \* in both: the check failed, or still building
          /\ Leave(w, "fail", "gaveUp") /\ UNCHANGED builds
       \/ /\ n # 0 /\ ~GivesUp(run[w].op)
          /\ Leave(w, "requeue", "none") /\ UNCHANGED builds
    /\ UNCHANGED <<logVars, askVars, job, call, faults>>

\* Fault: whoever succeeds second writes the message again.
SucceedAgain(w) ==
    /\ run[w].pc = "succeed"
    /\ status' = [status EXCEPT ![run[w].op] = "succeeded"]
    /\ Goto(w, "message")
    /\ UNCHANGED <<attempts, recorded, told, hour, askVars, job, call, builds, faults>>

\* succeedOperation, its first update: running becomes succeeded, or nothing.
Succeed(w) ==
    LET o == run[w].op IN
    /\ run[w].pc = "succeed"
    /\ IF status[o] = "running"
       THEN status' = [status EXCEPT ![o] = "succeeded"] /\ Goto(w, "message")
       ELSE Leave(w, "respond", "none") /\ UNCHANGED status
    /\ UNCHANGED <<attempts, recorded, told, hour, askVars, job, call, builds, faults>>

\* succeedOperation, its second update: the winner merges the result message.
MergeMessage(w) ==
    /\ run[w].pc = "message"
    /\ told' = [told EXCEPT ![run[w].op] = run[w].message]
    /\ Leave(w, "respond", "none")
    /\ UNCHANGED <<status, attempts, recorded, hour, askVars, job, call, builds, faults>>

Fail(w) ==
    /\ run[w].pc = "fail"
    /\ FailOperation(run[w].op, run[w].message)
    /\ Leave(w, "respond", "none")
    /\ UNCHANGED <<attempts, recorded, hour, askVars, job, call, builds, faults>>

\* The route queues the next check, 15 s later.
Requeue(w) ==
    /\ run[w].pc = "requeue"
    /\ EnqueueOperationRun(run[w].op)
    /\ Leave(w, "respond", "none")
    /\ UNCHANGED <<logVars, askVars, call, builds, faults>>

Respond(w) ==
    /\ run[w].pc = "respond"
    /\ Answer(w, TRUE)
    /\ UNCHANGED <<logVars, askVars, builds, faults>>

\* The route's catch: ask for a retry, or fail the operation when none is coming.
CatchError(w) ==
    /\ run[w].pc = "catch"
    /\ \/ ~run[w].final /\ Answer(w, FALSE) /\ UNCHANGED <<status, told, faults>>
       \/ run[w].final /\ Answer(w, TRUE) /\ FailOperation(run[w].op, "wentWrong") /\ UNCHANGED faults
       \/ run[w].final /\ Answer(w, TRUE) /\ Fault("runThrows") /\ UNCHANGED <<status, told>>
    /\ UNCHANGED <<attempts, recorded, hour, askVars, builds>>

\* A database or queue call of the step throws.
RunThrows(w) ==
    /\ run[w].pc \in {"read", "start", "site", "merge", "follow", "succeed", "message", "fail", "requeue"}
    /\ Fault("runThrows")
    /\ Leave(w, "catch", "none")
    /\ UNCHANGED <<logVars, askVars, job, call, builds>>

\* The web process dies with the handler in it; the worker sees a failed request.
RunCrash(w) ==
    /\ run[w].pc # "idle"
    /\ Fault("runCrash")
    /\ Answer(w, FALSE)
    /\ UNCHANGED <<logVars, askVars, builds>>

-----------------------------------------------------------------------------
(* The hosting platform (external) and the clock *)

\* Hosting builds one deployment of an app at a time, oldest first, from the
\* commit at the head of the branch when the build starts.
BuildStarts(n) ==
    /\ n \in DOMAIN builds /\ builds[n].state = "queued"
    /\ \A m \in DOMAIN builds : builds[m].app = builds[n].app =>
          builds[m].state # "building" /\ (m < n => builds[m].state # "queued")
    /\ builds' = [builds EXCEPT ![n].state = "building", ![n].commit = head[builds[n].app]]
    /\ UNCHANGED <<logVars, askVars, job, run, call, faults>>

BuildEnds(n) ==
    /\ n \in DOMAIN builds /\ builds[n].state = "building"
    /\ \E end \in {"finished", "failed", "cancelled"} : builds' = [builds EXCEPT ![n].state = end]
    /\ UNCHANGED <<logVars, askVars, job, run, call, faults>>

HourPasses(o) ==
    /\ recorded[o].done /\ ~hour[o]
    /\ hour' = [hour EXCEPT ![o] = TRUE]
    /\ UNCHANGED <<status, attempts, recorded, told, askVars, job, run, call, builds, faults>>

-----------------------------------------------------------------------------

RequestStep(r) ==
    \/ LockApp(r) \/ JoinActive(r) \/ FindNone(r) \/ InsertOperation(r) \/ EnqueueFirstRun(r)
    \/ DirectDeployAnswered(r)

RunStep(w) ==
    \/ ReadOperation(w) \/ StartOperation(w) \/ AlreadyFinished(w) \/ ReadSite(w)
    \/ Triggered(w) \/ NotTriggered(w) \/ RecordStart(w) \/ FollowBuild(w) \/ Succeed(w) \/ MergeMessage(w) \/ Fail(w)
    \/ Requeue(w) \/ Respond(w) \/ CatchError(w)

HostingAnswers(c) == HostingAccepts(c) \/ HostingRefuses(c)

Faulty ==
    \/ \E r \in Requests : EnqueueFails(r) \/ RequestCrash(r)
    \/ \E w \in Runners : JobExpires(w) \/ RunThrows(w) \/ RunCrash(w)
    \/ \E c \in Callers : AnswerLost(c)

\* Every request has been answered and every operation finished or left alone.
Quiet ==
    /\ \A r \in Requests : request[r].pc = "done" /\ job[r] = NoJob
    /\ \A w \in Runners : run[w].pc = "idle"
    /\ \A n \in DOMAIN builds : builds[n].state \notin {"queued", "building"}
    /\ UNCHANGED vars

Next ==
    \/ \E r \in Requests : Arrive(r) \/ RequestStep(r) \/ HourPasses(r)
    \/ \E w \in Runners : RunStep(w) \/ \E o \in Requests : FetchJob(w, o)
    \/ \E c \in Callers : HostingAnswers(c)
    \/ \E n \in DOMAIN builds : BuildStarts(n) \/ BuildEnds(n)
    \/ Faulty
    \/ Quiet

Spec == Init /\ [][Next]_vars

\* Handlers run on, the worker polls for the jobs of every operation, hosting
\* answers each request it gets, and time passes. No fairness for the hosting
\* platform's builds (it may take forever) nor for the arrival of requests.
Fairness ==
    /\ \A r \in Requests : WF_vars(RequestStep(r)) /\ WF_vars(HourPasses(r))
    /\ \A w \in Runners : WF_vars(RunStep(w))
    /\ \A o \in Requests : WF_vars(\E w \in Runners : FetchJob(w, o))
    /\ \A c \in Callers : WF_vars(HostingAnswers(c))

FairSpec == Spec /\ Fairness

-----------------------------------------------------------------------------
(* Properties *)

RunPcs == {"idle", "read", "start", "site", "trigger", "merge", "follow", "succeed",
           "message", "fail", "requeue", "respond", "catch"}

Recorded    == [done : BOOLEAN, build : Nat]
RequestType == [pc : {"new", "lock", "find", "insert", "enqueue", "direct", "done"},
                reply : {"none", "joined", "created", "hosting", "error"}]
JobType     == [waiting : BOOLEAN, retry : Nat, active : Nat]
RunType     == [pc : RunPcs, op : Requests \cup {"none"}, final : BOOLEAN, attached : BOOLEAN,
                attempts : Nat, recorded : Recorded, message : Messages]
CallType    == [entry : 0..PlanEnd, failure : {"none", "notfound", "busy", "refused"},
                timedOut : BOOLEAN, build : Nat, tracked : BOOLEAN]
BuildType   == [app : Apps, by : Requests, commit : Nat,
                row : {"none", "in_progress", "success", "failed"}, kind : {"restart", "deploy"},
                state : {"queued", "building", "finished", "failed", "cancelled"}]

\* A runner that is not idle, and one that is calling hosting, works for an operation.
RunnersBusy ==
    \A w \in Runners : run[w].pc # "idle" \/ call[w].entry # 0 => run[w].op \in Requests

\* Types of every variable.
TypeOK ==
    /\ status \in [Requests -> Statuses]
    /\ attempts \in [Requests -> Nat]
    /\ recorded \in [Requests -> Recorded]
    /\ told \in [Requests -> Messages]
    /\ hour \in [Requests -> BOOLEAN]
    /\ holder \in [Apps -> SUBSET Requests]
    /\ request \in [Requests -> RequestType]
    /\ head \in [Apps -> Nat]
    /\ asked \in [Requests -> Nat]
    /\ job \in [Requests -> JobType]
    /\ run \in [Runners -> RunType]
    /\ call \in [Callers -> CallType]
    /\ builds \in Seq(BuildType)
    /\ faults \in 0..MaxFaults
    /\ RunnersBusy

\* Two deploys of one app are never queued or running at once, however the
\* requests interleave (createOrJoinActiveOperation's lock, check and insert).
OneActivePerApp ==
    \A o, p \in Requests :
        o # p /\ AppOf[o] = AppOf[p] => ~(status[o] \in Active /\ status[p] \in Active)

\* Why OneActivePerApp holds. A request that checks or inserts is alone to hold
\* its app's lock; when it inserts, nothing of its app is active and its own
\* operation does not exist yet.
LockInv ==
    /\ \A r \in Requests : request[r].pc \in {"find", "insert"} => holder[AppOf[r]] = {r}
    /\ \A r \in Requests : request[r].pc = "insert" =>
          \A o \in Requests : AppOf[o] = AppOf[r] => status[o] \notin Active
    /\ \A r \in Requests : request[r].pc \in {"new", "lock", "find", "insert"} => status[r] = "none"
    /\ OneActivePerApp

\* Why the message of a success is written once: one runner finished the
\* operation, nobody said anything before, and only that runner will.
MessageInv ==
    /\ \A o \in Requests : status[o] \in Active \cup {"none"} => told[o] = "none"
    /\ \A w \in Runners : run[w].pc = "message" =>
          /\ status[run[w].op] = "succeeded" /\ told[run[w].op] = "none"
          /\ \A x \in Runners : x # w /\ run[x].pc = "message" => run[x].op # run[w].op

\* The inductive invariant of the proofs.
IInv == TypeOK /\ LockInv /\ MessageInv

StartedBy(o) == {n \in DOMAIN builds : builds[n].by = o}

\* "once, ever" (deploy-operation.ts): an operation starts one deployment at
\* most, over all its attempts.
DeployedOnce == \A o \in Requests : Cardinality(StartedBy(o)) <= 1

\* What can make an operation deploy again is a crash, an error, a late original
\* or a lost answer, and each of them at most once.
ExtraDeploysNeedFaults == \A o \in Requests : Cardinality(StartedBy(o)) <= 1 + faults

\* What a finished operation says of its deployment is so, whatever fails on the
\* way: "live" means hosting finished a deployment this operation started, "not
\* changed" that hosting ended one without, and the history row agrees.
TruthfulOutcome ==
    /\ \A o \in Requests :
          /\ told[o] = "live" => \E n \in StartedBy(o) : builds[n].state = "finished"
          /\ told[o] = "unchanged" => \E n \in StartedBy(o) : builds[n].state \in {"failed", "cancelled"}
    /\ \A n \in DOMAIN builds :
          /\ builds[n].row = "success" => builds[n].state = "finished"
          /\ builds[n].row = "failed" => builds[n].state \in {"failed", "cancelled"}

\* "Nothing was deployed" and "couldn't start the deploy" are said only when no
\* deployment was started, retries included.
TruthfulRefusal ==
    \A o \in Requests :
        told[o] \in {"nothingDeployed", "couldNotStart", "notQueued"} => StartedBy(o) = {}

\* A push that was answered "deploying" is not forgotten: a deployment of its
\* commit or a later one is queued, being built or done, or its own operation is
\* still going to start one or has failed in front of the client.
PushesCovered ==
    \A r \in Requests :
        KindOf[r] = "push" /\ request[r].reply \in {"created", "hosting"} =>
            \/ \E n \in DOMAIN builds : /\ builds[n].app = AppOf[r]
                                        /\ builds[n].kind = "restart" \/ builds[n].state = "queued"
                                           \/ builds[n].commit >= asked[r]
            \/ status[r] \in Active \cup {"failed"}

\* Every operation finishes, and one whose first run could not be queued is closed at once, so that no later
\* request joins an operation nobody runs.
Settles == \A o \in Requests : status[o] \in Active ~> status[o] \notin Active

\* The detailed log implements the promise of operations.ts.
Lifecycle == INSTANCE OperationLifecycle WITH
    Operations <- Requests, Records <- Recorded, NoRecord <- NotRecorded,
    Texts <- Messages, NoText <- "none"
KeepsLifecycle == Lifecycle!Spec
=============================================================================
