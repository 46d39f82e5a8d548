-------------------------- MODULE DeployBuildProofs --------------------------
(* Theorems about the deployments an operation starts and what is said of them, *)
(* on top of the lock and the lifecycle of DeployOperationProofs. First, where   *)
(* every deployment, record and message comes from; then, by counting what has   *)
(* started a deployment or still may, how many deployments there can be.         *)
EXTENDS DeployOperationProofs, FiniteSetTheorems

-----------------------------------------------------------------------------
(* Where deployments come from *)

Past    == {"succeeded", "failed", "cancelled"}
Ends    == {"finished", "failed", "cancelled"}
WasLive(o)    == \E n \in StartedBy(o) : builds[n].state = "finished"
WasInVain(o)  == \E n \in StartedBy(o) : builds[n].state \in {"failed", "cancelled"}

\* What is said of an operation's deployment by message m is so.
Says(o, m) == (m = "live" => WasLive(o)) /\ (m = "unchanged" => WasInVain(o))

\* A deployment is of its operation's app and has its commit or a later one once it is built, and its history
\* row says nothing that hosting did not.
BuildOK(n) ==
    /\ builds[n].app = AppOf[builds[n].by]
    /\ builds[n].kind = "restart" \/ builds[n].state = "queued" \/ builds[n].commit >= asked[builds[n].by]
    /\ builds[n].row = "success" => builds[n].state = "finished"
    /\ builds[n].row = "failed" => builds[n].state \in {"failed", "cancelled"}
    /\ request[builds[n].by].pc \in {"enqueue", "direct", "done"}

RequestOK(r) ==
    /\ asked[r] <= head[AppOf[r]]
    /\ status[r] # "none" => request[r].pc \in {"enqueue", "done"}
    /\ request[r].pc = "enqueue" => status[r] # "none"
    /\ status[r] = "none" => job[r] = NoJob
    /\ request[r].reply = "created" => status[r] # "none"
    /\ request[r].reply = "hosting" => StartedBy(r) # {}

\* The log.
LogOK(o) ==
    /\ recorded[o].build # 0 => recorded[o].build \in StartedBy(o)
    /\ recorded[o].done => StartedBy(o) # {}
    /\ status[o] = "succeeded" => StartedBy(o) # {}
    /\ status[o] # "cancelled"
    /\ Says(o, told[o])

CallOK(c) ==
    /\ call[c].build # 0 => call[c].build \in StartedBy(OpOf(c))
    /\ c \in Requests => (call[c].entry # 0 => request[c].pc = "direct")
    /\ c \in Runners => /\ (call[c].entry # 0 /\ call[c].build = 0) => run[c].pc = "trigger"
                        /\ run[c].pc = "merge" => call[c].build # 0
                        /\ run[c].pc = "idle" => call[c] = NoCall

\* Nothing is left to start for o.
Open(o) == ~recorded[o].done /\ status[o] \notin Past

RunOK(w) ==
    LET o == run[w].op IN
    run[w].pc # "idle" =>
        /\ status[o] # "none"
        /\ run[w].recorded.build # 0 => run[w].recorded.build \in StartedBy(o)
        /\ run[w].recorded.done => recorded[o].done
        /\ run[w].pc = "follow" => run[w].recorded.done
        /\ run[w].pc \in {"site", "trigger", "merge"} => status[o] # "queued"
        /\ run[w].pc = "requeue" => ~Open(o)
        /\ run[w].pc \in {"succeed", "message"} => StartedBy(o) # {}
        /\ Says(o, run[w].message)

\* Where everything comes from; inductive together with IInv.
SourceInv ==
    /\ \A n \in DOMAIN builds : BuildOK(n)
    /\ \A r \in Requests : RequestOK(r)
    /\ \A o \in Requests : LogOK(o)
    /\ \A c \in Callers : CallOK(c)
    /\ \A w \in Runners : RunOK(w)

-----------------------------------------------------------------------------
(* Counting *)

\* What can still start a deployment of o, or has.
RunMayStart(w, o) ==
    /\ run[w].op = o
    /\ \/ run[w].pc = "read" /\ Open(o)
       \/ run[w].pc = "start" /\ ~run[w].recorded.done /\ status[o] \in Active
       \/ run[w].pc = "site"
       \/ run[w].pc = "trigger" /\ call[w].build = 0
       \/ run[w].pc = "catch" /\ run[w].attached /\ Open(o)
RequestMayStart(o) ==
    \/ request[o].pc \in {"new", "lock", "find", "insert", "enqueue"}
    \/ request[o].pc = "direct" /\ call[o].build = 0

Claims(o) ==
    {<<"build", n>> : n \in StartedBy(o)}
    \cup {<<"run", w>> : w \in {v \in Runners : RunMayStart(v, o)}}
    \cup (IF job[o].waiting /\ Open(o) THEN {<<"waiting", o>>} ELSE {})
    \cup (IF job[o].retry # 0 /\ Open(o) THEN {<<"retry", o>>} ELSE {})
    \cup (IF RequestMayStart(o) THEN {<<"request", o>>} ELSE {})

\* The faults that start nothing again, and how many claims the others allow.
Harmless == {"requestCrash", "enqueueError"}
Allowed  == IF FaultKinds \subseteq Harmless THEN 1 ELSE 1 + faults
CountInv == \A o \in Requests : IsFiniteSet(Claims(o)) /\ Cardinality(Claims(o)) <= Allowed

\* Without harmful faults, who refuses, or is about to, has no claim left.
Refusals == {"nothingDeployed", "couldNotStart", "notQueued"}
Refuses(o) == told[o] \in Refusals \/ \E w \in Runners : run[w].op = o /\ run[w].message \in Refusals
RefusedAlone == FaultKinds \subseteq Harmless => \A o \in Requests : Refuses(o) => Claims(o) = {}

-----------------------------------------------------------------------------
(* The deployments hosting accepted: they are added at the end, keep their owner, *)
(* and an ended one stays as it ended.                                           *)

Grows ==
    /\ DOMAIN builds \subseteq DOMAIN builds'
    /\ \A n \in DOMAIN builds :
          /\ builds'[n].by = builds[n].by
          /\ builds[n].state \in Ends => builds'[n].state = builds[n].state

LEMMA BuildFacts ==
    ASSUME TypeOK
    PROVE  /\ Len(builds) \in Nat /\ DOMAIN builds = 1..Len(builds)
           /\ \A n \in DOMAIN builds : builds[n] \in BuildType
  BY DEF TypeOK

LEMMA AddBuild ==
    ASSUME TypeOK, NEW b \in BuildType, builds' = Append(builds, b)
    PROVE  /\ DOMAIN builds' = DOMAIN builds \cup {Len(builds) + 1}
           /\ Len(builds) + 1 \notin DOMAIN builds
           /\ \A n \in DOMAIN builds : builds'[n] = builds[n]
           /\ builds'[Len(builds) + 1] = b
  BY DEF TypeOK

\* A history row is set.
LEMMA RowSet ==
    ASSUME TypeOK, NEW n \in DOMAIN builds, NEW row, builds' = [builds EXCEPT ![n].row = row]
    PROVE  /\ DOMAIN builds' = DOMAIN builds
           /\ \A m \in DOMAIN builds : m # n => builds'[m] = builds[m]
           /\ builds'[n].app = builds[n].app /\ builds'[n].by = builds[n].by
           /\ builds'[n].commit = builds[n].commit /\ builds'[n].kind = builds[n].kind
           /\ builds'[n].state = builds[n].state /\ builds'[n].row = row
  BY BuildFacts DEF BuildType

\* A deployment moves on.
LEMMA StateSet ==
    ASSUME TypeOK, NEW n \in DOMAIN builds, NEW state, builds' = [builds EXCEPT ![n].state = state]
    PROVE  /\ DOMAIN builds' = DOMAIN builds
           /\ \A m \in DOMAIN builds : m # n => builds'[m] = builds[m]
           /\ builds'[n].app = builds[n].app /\ builds'[n].by = builds[n].by
           /\ builds'[n].commit = builds[n].commit /\ builds'[n].kind = builds[n].kind
           /\ builds'[n].state = state /\ builds'[n].row = builds[n].row
  BY BuildFacts DEF BuildType

LEMMA CommitSet ==
    ASSUME TypeOK, NEW n \in DOMAIN builds, NEW state, NEW commit,
           builds' = [builds EXCEPT ![n].state = state, ![n].commit = commit]
    PROVE  /\ DOMAIN builds' = DOMAIN builds
           /\ \A m \in DOMAIN builds : m # n => builds'[m] = builds[m]
           /\ builds'[n].app = builds[n].app /\ builds'[n].by = builds[n].by
           /\ builds'[n].commit = commit /\ builds'[n].kind = builds[n].kind
           /\ builds'[n].state = state /\ builds'[n].row = builds[n].row
  BY BuildFacts DEF BuildType

LEMMA BuildStep ==
    ASSUME TypeOK, SourceInv, [Next]_vars
    PROVE  \/ UNCHANGED builds
           \/ \E c \in Callers :
                 /\ HostingAccepts(c) \/ AnswerLost(c)
                 /\ Calling(c) /\ NewBuild(c) \in BuildType
                 /\ builds' = Append(builds, NewBuild(c))
           \/ \E n \in DOMAIN builds : BuildStarts(n) \/ BuildEnds(n)
           \/ \E n \in DOMAIN builds, w \in Runners, row \in {"in_progress", "success", "failed"} :
                 /\ Triggered(w) \/ FollowBuild(w)
                 /\ builds' = [builds EXCEPT ![n].row = row]
                 /\ row = "success" => builds[n].state = "finished"
                 /\ row = "failed" => builds[n].state \in {"failed", "cancelled"}
<1>1. ASSUME NEW r \in Requests,
             \/ Arrive(r) \/ LockApp(r) \/ JoinActive(r) \/ FindNone(r) \/ InsertOperation(r) \/ EnqueueFirstRun(r)
             \/ EnqueueFails(r) \/ DirectDeployAnswered(r) \/ RequestCrash(r) \/ HourPasses(r)
      PROVE  UNCHANGED builds
  BY <1>1 DEF Arrive, LockApp, JoinActive, FindNone, InsertOperation, EnqueueFirstRun, EnqueueFails,
     DirectDeployAnswered, RequestCrash, HourPasses
<1>2. ASSUME NEW w \in Runners,
             \/ JobExpires(w) \/ ReadOperation(w) \/ StartOperation(w) \/ AlreadyFinished(w) \/ ReadSite(w)
             \/ NotTriggered(w) \/ RecordStart(w) \/ Succeed(w) \/ MergeMessage(w) \/ Fail(w) \/ Requeue(w)
             \/ Respond(w) \/ CatchError(w) \/ RunThrows(w) \/ RunCrash(w)
      PROVE  UNCHANGED builds
  BY <1>2 DEF JobExpires, ReadOperation, StartOperation, AlreadyFinished, ReadSite, NotTriggered, RecordStart,
     Succeed, MergeMessage, Fail, Requeue, Respond, CatchError, RunThrows, RunCrash
<1>3. ASSUME NEW w \in Runners, Triggered(w)
      PROVE  \/ UNCHANGED builds
             \/ \E n \in DOMAIN builds : builds' = [builds EXCEPT ![n].row = "in_progress"]
  <2>1. call[w].build \in DOMAIN builds
    BY <1>3 DEF Triggered, SourceInv, CallOK, StartedBy, Callers
  <2> QED
    BY <1>3, <2>1 DEF Triggered
<1>4. ASSUME NEW w \in Runners, FollowBuild(w)
      PROVE  \/ UNCHANGED builds
             \/ \E n \in DOMAIN builds, row \in {"success", "failed"} :
                    /\ builds' = [builds EXCEPT ![n].row = row]
                    /\ row = "success" => builds[n].state = "finished"
                    /\ row = "failed" => builds[n].state \in {"failed", "cancelled"}
  <2> DEFINE n == run[w].recorded.build
  <2>1. n # 0 => n \in DOMAIN builds
    BY <1>4 DEF FollowBuild, SourceInv, RunOK, StartedBy
  <2> HIDE DEF n
  <2>2. \/ UNCHANGED builds
        \/ n # 0 /\ HasFinished(n) /\ SetRow(n, "success")
        \/ n # 0 /\ builds[n].state \in {"failed", "cancelled"} /\ SetRow(n, "failed")
    BY <1>4 DEF FollowBuild, n
  <2> QED
    BY <2>1, <2>2 DEF SetRow, HasFinished
<1>5. ASSUME NEW c \in Callers, HostingAccepts(c) \/ HostingRefuses(c) \/ AnswerLost(c)
      PROVE  \/ UNCHANGED builds
             \/ /\ HostingAccepts(c) \/ AnswerLost(c)
                /\ Calling(c) /\ NewBuild(c) \in BuildType
                /\ builds' = Append(builds, NewBuild(c))
  BY <1>5, NewBuildType DEF HostingAccepts, HostingRefuses, AnswerLost
<1>6. CASE \E w \in Runners, o \in Requests : FetchJob(w, o)
  BY <1>6 DEF FetchJob
<1>7. CASE UNCHANGED vars
  BY <1>7 DEF vars
<1> QED
  BY NextCases, <1>1, <1>2, <1>3, <1>4, <1>5, <1>6, <1>7

LEMMA GrowsStep == ASSUME TypeOK, SourceInv, [Next]_vars PROVE Grows
<1>1. CASE UNCHANGED builds
  BY <1>1 DEF Grows
<1>2. ASSUME NEW c \in Callers, NewBuild(c) \in BuildType, builds' = Append(builds, NewBuild(c)) PROVE Grows
  BY <1>2, AddBuild DEF Grows
<1>3. ASSUME NEW n \in DOMAIN builds, BuildStarts(n) PROVE Grows
  BY <1>3, CommitSet DEF BuildStarts, Grows, Ends
<1>4. ASSUME NEW n \in DOMAIN builds, BuildEnds(n) PROVE Grows
  BY <1>4, StateSet DEF BuildEnds, Grows, Ends
<1>5. ASSUME NEW n \in DOMAIN builds, NEW row, builds' = [builds EXCEPT ![n].row = row] PROVE Grows
  BY <1>5, RowSet DEF Grows
<1> QED
  BY BuildStep, <1>1, <1>2, <1>3, <1>4, <1>5

LEMMA GrowsKeeps ==
    ASSUME TypeOK, Grows, NEW o
    PROVE  /\ StartedBy(o) \subseteq StartedBy(o)'
           /\ WasLive(o) => WasLive(o)'
           /\ WasInVain(o) => WasInVain(o)'
<1>1. StartedBy(o) \subseteq StartedBy(o)'
  BY DEF StartedBy, Grows
<1>2. WasLive(o) => WasLive(o)'
  BY <1>1 DEF WasLive, StartedBy, Grows, Ends
<1>3. WasInVain(o) => WasInVain(o)'
  BY <1>1 DEF WasInVain, StartedBy, Grows, Ends
<1> QED
  BY <1>1, <1>2, <1>3

-----------------------------------------------------------------------------
(* The log *)

\* The actions that write the log.
LEMMA LogCases ==
    ASSUME [Next]_vars
    PROVE  \/ Same
           \/ \E r \in Requests : InsertOperation(r) \/ EnqueueFails(r)
           \/ \E w \in Runners : \/ StartOperation(w) \/ RecordStart(w) \/ Succeed(w) \/ MergeMessage(w)
                                 \/ Fail(w) \/ CatchError(w)
<1>1. ASSUME NEW r \in Requests,
             \/ Arrive(r) \/ LockApp(r) \/ JoinActive(r) \/ FindNone(r) \/ EnqueueFirstRun(r)
             \/ DirectDeployAnswered(r) \/ RequestCrash(r) \/ HourPasses(r)
      PROVE  Same
  BY <1>1 DEF Arrive, LockApp, JoinActive, FindNone, EnqueueFirstRun, DirectDeployAnswered, RequestCrash,
     HourPasses, logVars, Same
<1>2. ASSUME NEW w \in Runners,
             \/ JobExpires(w) \/ ReadOperation(w) \/ AlreadyFinished(w) \/ ReadSite(w) \/ Triggered(w)
             \/ NotTriggered(w) \/ FollowBuild(w) \/ Requeue(w) \/ Respond(w) \/ RunThrows(w) \/ RunCrash(w)
      PROVE  Same
  BY <1>2 DEF JobExpires, ReadOperation, AlreadyFinished, ReadSite, Triggered, NotTriggered, FollowBuild,
     Requeue, Respond, RunThrows, RunCrash, logVars, Same
<1>3. ASSUME \/ \E w \in Runners, o \in Requests : FetchJob(w, o)
             \/ \E c \in Callers : HostingAccepts(c) \/ HostingRefuses(c) \/ AnswerLost(c)
             \/ \E n \in DOMAIN builds : BuildStarts(n) \/ BuildEnds(n)
             \/ UNCHANGED vars
      PROVE  Same
  BY <1>3 DEF FetchJob, HostingAccepts, HostingRefuses, AnswerLost, BuildStarts, BuildEnds, vars, logVars, Same
<1> QED
  BY NextCases, <1>1, <1>2, <1>3

\* What a step does to what the log says of o.
LogMoves(o) ==
    /\ status'[o] = "none" => status[o] = "none"
    /\ status[o] = "none" => status'[o] = "none" \/ InsertOperation(o)
    /\ status[o] \in Past => status'[o] \in Past
    /\ status'[o] = "queued" => status[o] \in {"none", "queued"}
    /\ status'[o] = "cancelled" => status[o] = "cancelled"
    /\ status'[o] = "succeeded" =>
          status[o] = "succeeded" \/ \E w \in Runners : Succeed(w) /\ run[w].op = o
    /\ recorded'[o] = recorded[o] \/ \E w \in Runners : RecordStart(w) /\ run[w].op = o
    /\ \/ told'[o] = told[o]
       \/ \E w \in Runners : MergeMessage(w) /\ run[w].op = o /\ told'[o] = run[w].message
       \/ \E w \in Runners : Fail(w) /\ run[w].op = o /\ told'[o] = run[w].message
       \/ told'[o] = "wentWrong"
       \/ EnqueueFails(o) /\ told'[o] = "notQueued"

LEMMA FailMoves ==
    ASSUME TypeOK, NEW o \in Requests, NEW p \in Requests, NEW m, FailOperation(p, m)
    PROVE  /\ status'[o] = status[o] \/ (status[o] \in Active /\ status'[o] = "failed")
           /\ told'[o] = told[o] \/ (o = p /\ told'[o] = m)
<1>1. CASE status[p] \in Active
  <2>1. status' = [status EXCEPT ![p] = "failed"] /\ told' = [told EXCEPT ![p] = m]
    BY <1>1 DEF FailOperation
  <2> QED
    BY <1>1, <2>1 DEF TypeOK
<1>2. CASE status[p] \notin Active
  BY <1>2 DEF FailOperation
<1> QED
  BY <1>1, <1>2

LEMMA LogStep == ASSUME IInv, [Next]_vars, NEW o \in Requests PROVE LogMoves(o)
<1> USE DEF IInv, Past
<1>0. status[o] \in Statuses /\ (status[o] \in Active <=> status[o] \in {"queued", "running"})
  BY DEF TypeOK, Active
<1>b. \A w \in Runners : run[w].pc # "idle" => run[w].op \in Requests
  BY DEF TypeOK, RunnersBusy
<1>1. CASE Same
  BY <1>1 DEF Same, LogMoves
<1>2. ASSUME NEW r \in Requests, InsertOperation(r) PROVE LogMoves(o)
  <2>1. status[r] = "none" /\ status' = [status EXCEPT ![r] = "queued"] /\ UNCHANGED <<recorded, told>>
    BY <1>2 DEF InsertOperation, LockInv
  <2>2. CASE r = o
    BY <1>2, <2>1, <2>2 DEF TypeOK, LogMoves
  <2>3. CASE r # o
    BY <2>1, <2>3 DEF TypeOK, LogMoves
  <2> QED
    BY <2>2, <2>3
<1>3. ASSUME NEW r \in Requests, EnqueueFails(r) PROVE LogMoves(o)
  <2>1. UNCHANGED recorded /\ (FailOperation(r, "notQueued") \/ UNCHANGED <<status, told>>)
    BY <1>3 DEF EnqueueFails
  <2>2. CASE UNCHANGED <<status, told>>
    BY <2>1, <2>2 DEF LogMoves
  <2>3. CASE FailOperation(r, "notQueued")
    <3>1. /\ status'[o] = status[o] \/ (status[o] \in Active /\ status'[o] = "failed")
          /\ told'[o] = told[o] \/ (o = r /\ told'[o] = "notQueued")
      BY <2>3, FailMoves
    <3> QED
      BY <1>0, <1>3, <2>1, <3>1 DEF LogMoves
  <2> QED
    BY <2>1, <2>2, <2>3
<1>4. ASSUME NEW w \in Runners, StartOperation(w) PROVE LogMoves(o)
  <2>1. status[run[w].op] \in Active /\ status' = [status EXCEPT ![run[w].op] = "running"] /\ UNCHANGED <<recorded, told>>
    BY <1>4 DEF StartOperation
  <2>2. CASE run[w].op = o
    BY <1>0, <2>1, <2>2 DEF TypeOK, LogMoves
  <2>3. CASE run[w].op # o
    BY <2>1, <2>3 DEF TypeOK, LogMoves
  <2> QED
    BY <2>2, <2>3
<1>5. ASSUME NEW w \in Runners, RecordStart(w) PROVE LogMoves(o)
  <2> DEFINE x == [done |-> TRUE, build |-> IF call[w].tracked THEN call[w].build ELSE 0]
  <2>2. recorded' = [recorded EXCEPT ![run[w].op] = x] \/ recorded' = recorded
    BY <1>5 DEF RecordStart
  <2> HIDE DEF x
  <2>3. recorded'[o] = recorded[o] \/ run[w].op = o
    BY <2>2 DEF TypeOK
  <2>1. status' = status /\ told' = told
    BY <1>5 DEF RecordStart
  <2> QED
    BY <1>5, <2>1, <2>3 DEF LogMoves
<1>6. ASSUME NEW w \in Runners, Succeed(w) PROVE LogMoves(o)
  <2>1. /\ recorded' = recorded /\ told' = told
        /\ \/ status' = status
           \/ status[run[w].op] = "running" /\ status' = [status EXCEPT ![run[w].op] = "succeeded"]
    BY <1>6 DEF Succeed
  <2>2. status'[o] = status[o] \/ (run[w].op = o /\ status[o] = "running" /\ status'[o] = "succeeded")
    BY <2>1 DEF TypeOK
  <2> QED
    BY <1>0, <1>6, <2>1, <2>2 DEF LogMoves
<1>7. ASSUME NEW w \in Runners, MergeMessage(w) PROVE LogMoves(o)
  <2>1. UNCHANGED <<status, recorded>> /\ told' = [told EXCEPT ![run[w].op] = run[w].message]
    BY <1>7 DEF MergeMessage
  <2>2. told'[o] = told[o] \/ (run[w].op = o /\ told'[o] = run[w].message)
    BY <2>1 DEF TypeOK
  <2> QED
    BY <1>7, <2>1, <2>2 DEF LogMoves
<1>8. ASSUME NEW w \in Runners, Fail(w) PROVE LogMoves(o)
  <2>1. UNCHANGED recorded /\ FailOperation(run[w].op, run[w].message) /\ run[w].op \in Requests
    BY <1>b, <1>8 DEF Fail
  <2>2. /\ status'[o] = status[o] \/ (status[o] \in Active /\ status'[o] = "failed")
        /\ told'[o] = told[o] \/ (o = run[w].op /\ told'[o] = run[w].message)
    BY <2>1, FailMoves
  <2> QED
    BY <1>0, <1>8, <2>1, <2>2 DEF LogMoves
<1>9. ASSUME NEW w \in Runners, CatchError(w) PROVE LogMoves(o)
  <2>1. /\ UNCHANGED recorded /\ run[w].op \in Requests
        /\ FailOperation(run[w].op, "wentWrong") \/ UNCHANGED <<status, told>>
    BY <1>b, <1>9 DEF CatchError
  <2>2. CASE UNCHANGED <<status, told>>
    BY <2>1, <2>2 DEF LogMoves
  <2>3. CASE FailOperation(run[w].op, "wentWrong")
    <3>1. /\ status'[o] = status[o] \/ (status[o] \in Active /\ status'[o] = "failed")
          /\ told'[o] = told[o] \/ told'[o] = "wentWrong"
      BY <2>1, <2>3, FailMoves
    <3> QED
      BY <1>0, <2>1, <3>1 DEF LogMoves
  <2> QED
    BY <2>1, <2>2, <2>3
<1> QED
  BY LogCases, <1>1, <1>2, <1>3, <1>4, <1>5, <1>6, <1>7, <1>8, <1>9

\* A start is recorded with a deployment of its operation.
LEMMA RecordSets ==
    ASSUME TypeOK, SourceInv, NEW w \in Runners, RecordStart(w)
    PROVE  /\ run[w].op \in Requests
           /\ StartedBy(run[w].op) # {}
           /\ status[run[w].op] = "running" => recorded'[run[w].op].done
           /\ \/ recorded'[run[w].op] = recorded[run[w].op]
              \/ /\ recorded'[run[w].op].done
                 /\ recorded'[run[w].op].build # 0 => recorded'[run[w].op].build \in StartedBy(run[w].op)
<1> DEFINE o == run[w].op
           n == IF call[w].tracked THEN call[w].build ELSE 0
           x == [done |-> TRUE, build |-> n]
<1>1. o \in Requests /\ w \in Callers /\ w \notin Requests
  BY DeployAssumption DEF RecordStart, TypeOK, RunnersBusy, Callers
<1>2. call[w].build # 0 /\ call[w].build \in StartedBy(o)
  BY <1>1 DEF RecordStart, SourceInv, CallOK, OpOf
<1>3. (status[o] = "running" /\ recorded' = [recorded EXCEPT ![o] = x]) \/ (status[o] # "running" /\ recorded' = recorded)
  BY DEF RecordStart
<1>4. x.done /\ (x.build # 0 => x.build \in StartedBy(o))
  BY <1>2
<1> HIDE DEF x
<1> QED
  BY <1>1, <1>2, <1>3, <1>4 DEF TypeOK

\* Nothing goes back: neither hosting nor the log.
Forward ==
    /\ Grows
    /\ \A o \in Requests :
          /\ status'[o] = "none" => status[o] = "none"
          /\ status[o] \in Past => status'[o] \in Past
          /\ status'[o] = "queued" => status[o] \in {"none", "queued"}
          /\ recorded[o].done => recorded'[o].done

LEMMA ForwardStep == ASSUME IInv, SourceInv, [Next]_vars PROVE Forward
<1>1. TypeOK /\ Grows
  BY GrowsStep DEF IInv
<1>2. \A o \in Requests : LogMoves(o)
  BY LogStep
<1>3. ASSUME NEW o \in Requests, recorded[o].done PROVE recorded'[o].done
  BY <1>1, <1>2, <1>3, RecordSets DEF LogMoves
<1> QED
  BY <1>1, <1>2, <1>3 DEF Forward, LogMoves

LEMMA LogOKStep == ASSUME IInv, SourceInv, [Next]_vars, NEW o \in Requests PROVE LogOK(o)'
<1>1. TypeOK /\ Grows /\ LogMoves(o) /\ LogOK(o)
  BY GrowsStep, LogStep DEF IInv, SourceInv
<1>2. StartedBy(o) \subseteq StartedBy(o)' /\ (WasLive(o) => WasLive(o)') /\ (WasInVain(o) => WasInVain(o)')
  BY <1>1, GrowsKeeps
<1>3. recorded'[o].build # 0 => recorded'[o].build \in StartedBy(o)'
  BY <1>1, <1>2, RecordSets DEF LogMoves, LogOK
<1>4. recorded'[o].done => StartedBy(o)' # {}
  BY <1>1, <1>2, RecordSets DEF LogMoves, LogOK
<1>5. status'[o] = "succeeded" => StartedBy(o)' # {}
  <2>1. ASSUME NEW w \in Runners, Succeed(w), run[w].op = o PROVE StartedBy(o) # {}
    BY <2>1 DEF Succeed, SourceInv, RunOK
  <2> QED
    BY <1>1, <1>2, <2>1 DEF LogMoves, LogOK
<1>6. status'[o] # "cancelled"
  BY <1>1 DEF LogMoves, LogOK
<1>7. Says(o, told[o])'
  <2>1. ASSUME NEW w \in Runners, MergeMessage(w) \/ Fail(w), run[w].op = o PROVE Says(o, run[w].message)
    BY <2>1 DEF MergeMessage, Fail, SourceInv, RunOK
  <2>2. Says(o, told'[o])
    <3>1. Says(o, "wentWrong") /\ Says(o, "notQueued") /\ Says(o, told[o])
      BY <1>1 DEF Says, LogOK
    <3> QED
      BY <1>1, <2>1, <3>1 DEF LogMoves
  <2> QED
    BY <1>2, <2>2 DEF Says
<1> QED
  BY <1>3, <1>4, <1>5, <1>6, <1>7 DEF LogOK

-----------------------------------------------------------------------------
(* The requests, and the commit each of them asks for *)

\* The actions that write what belongs to the requests.
LEMMA AskCases ==
    ASSUME [Next]_vars
    PROVE  \/ UNCHANGED askVars
           \/ \E r \in Requests :
                 \/ Arrive(r) \/ LockApp(r) \/ JoinActive(r) \/ FindNone(r) \/ InsertOperation(r) \/ EnqueueFirstRun(r)
                 \/ EnqueueFails(r) \/ DirectDeployAnswered(r) \/ RequestCrash(r)
<1>1. CASE \E r \in Requests : HourPasses(r)
  BY <1>1 DEF HourPasses
<1>2. ASSUME NEW w \in Runners,
             \/ JobExpires(w) \/ ReadOperation(w) \/ StartOperation(w) \/ AlreadyFinished(w) \/ ReadSite(w) \/ Triggered(w)
             \/ NotTriggered(w) \/ RecordStart(w) \/ FollowBuild(w) \/ Succeed(w) \/ MergeMessage(w) \/ Fail(w)
             \/ Requeue(w) \/ Respond(w) \/ CatchError(w) \/ RunThrows(w) \/ RunCrash(w)
      PROVE  UNCHANGED askVars
  BY <1>2 DEF JobExpires, ReadOperation, StartOperation, AlreadyFinished, ReadSite, Triggered, NotTriggered, RecordStart,
     FollowBuild, Succeed, MergeMessage, Fail, Requeue, Respond, CatchError, RunThrows, RunCrash
<1>3. ASSUME \/ \E w \in Runners, o \in Requests : FetchJob(w, o)
             \/ \E c \in Callers : HostingAccepts(c) \/ HostingRefuses(c) \/ AnswerLost(c)
             \/ \E n \in DOMAIN builds : BuildStarts(n) \/ BuildEnds(n)
             \/ UNCHANGED vars
      PROVE  UNCHANGED askVars
  BY <1>3 DEF FetchJob, HostingAccepts, HostingRefuses, AnswerLost, BuildStarts, BuildEnds, vars
<1> QED
  BY NextCases, <1>1, <1>2, <1>3

\* What a step does to request r.
RequestMoves(r) ==
    /\ request[r].pc \in {"enqueue", "direct", "done"} =>
          request'[r].pc \in {"enqueue", "direct", "done"} /\ asked'[r] = asked[r]
    /\ request[r].pc \in {"enqueue", "done"} => request'[r].pc \in {"enqueue", "done"}
    /\ request'[r].pc = "enqueue" => request[r].pc = "enqueue" \/ InsertOperation(r)
    /\ InsertOperation(r) => request'[r].pc = "enqueue"
    /\ request'[r].reply = "created" => request[r].reply = "created" \/ request[r].pc = "enqueue"
    /\ request'[r].reply = "hosting" =>
          request[r].reply = "hosting" \/ (request[r].pc = "direct" /\ call[r].build # 0)
    /\ asked[r] <= head[AppOf[r]] => asked'[r] <= head'[AppOf[r]]
    /\ head[AppOf[r]] <= head'[AppOf[r]]
    /\ request'[r].pc = "direct" => request[r].pc = "direct" \/ JoinActive(r)
    /\ request[r].pc = "direct" /\ request'[r].pc # "direct" => DirectDeployAnswered(r) \/ RequestCrash(r)

LEMMA SetRequestAlone ==
    ASSUME TypeOK, NEW r \in Requests, NEW pc, NEW reply, SetRequest(r, pc, reply)
    PROVE  /\ request'[r].pc = pc /\ request'[r].reply = reply
           /\ \A q \in Requests : q # r => request'[q] = request[q]
  BY DEF SetRequest, TypeOK

LEMMA AskStep == ASSUME TypeOK, [Next]_vars, NEW r \in Requests PROVE RequestMoves(r)
<1>0. AppOf[r] \in Apps /\ head[AppOf[r]] \in Nat /\ asked[r] \in Nat
  BY DeployAssumption DEF TypeOK
<1>1. CASE UNCHANGED askVars
  <2>1. UNCHANGED <<request, head, asked>> /\ ~InsertOperation(r)
    BY <1>1 DEF askVars, InsertOperation, SetRequest, TypeOK
  <2> QED
    BY <1>0, <2>1 DEF RequestMoves
<1>2. ASSUME NEW q \in Requests, Arrive(q) PROVE RequestMoves(r)
  <2> DEFINE c == IF KindOf[q] = "push" THEN head[AppOf[q]] + 1 ELSE head[AppOf[q]]
  <2>1. /\ request[q].pc = "new" /\ SetRequest(q, "lock", "none")
        /\ head' = [head EXCEPT ![AppOf[q]] = c] /\ asked' = [asked EXCEPT ![q] = c]
    BY <1>2 DEF Arrive
  <2>2. AppOf[q] \in Apps /\ c \in Nat /\ head[AppOf[q]] <= c
    BY DeployAssumption DEF TypeOK
  <2>3. /\ request'[q].pc = "lock" /\ request'[q].reply = "none"
        /\ \A p \in Requests : p # q => request'[p] = request[p]
    BY <2>1, SetRequestAlone
  <2> HIDE DEF c
  <2>4. CASE q = r
    BY <1>0, <2>1, <2>2, <2>3, <2>4 DEF RequestMoves, TypeOK, InsertOperation
  <2>5. CASE q # r
    <3>1. request'[r] = request[r] /\ asked'[r] = asked[r]
      BY <2>1, <2>3, <2>5 DEF TypeOK
    <3>2. head[AppOf[r]] <= head'[AppOf[r]] /\ head'[AppOf[r]] \in Nat
      BY <1>0, <2>1, <2>2 DEF TypeOK
    <3>3. ~InsertOperation(r)
      BY <3>1 DEF InsertOperation, SetRequest, TypeOK
    <3> QED
      BY <1>0, <3>1, <3>2, <3>3 DEF RequestMoves
  <2> QED
    BY <2>4, <2>5
<1>3. ASSUME NEW q \in Requests,
             \/ LockApp(q) \/ JoinActive(q) \/ FindNone(q) \/ InsertOperation(q) \/ EnqueueFirstRun(q)
             \/ EnqueueFails(q) \/ DirectDeployAnswered(q) \/ RequestCrash(q)
      PROVE  RequestMoves(r)
  <2>1. UNCHANGED <<head, asked>>
    BY <1>3 DEF LockApp, JoinActive, FindNone, InsertOperation, EnqueueFirstRun, EnqueueFails, DirectDeployAnswered,
       RequestCrash
  <2>2. CASE q # r
    <3>1. request'[r] = request[r]
      BY <1>3, <2>2, SetRequestAlone DEF LockApp, JoinActive, FindNone, InsertOperation, EnqueueFirstRun, EnqueueFails,
         DirectDeployAnswered, RequestCrash
    <3>2. ~InsertOperation(r)
      BY <3>1 DEF InsertOperation, SetRequest, TypeOK
    <3> QED
      BY <1>0, <2>1, <3>1, <3>2 DEF RequestMoves
  <2>3. CASE q = r
    <3>1. /\ LockApp(r) => request[r].pc = "lock" /\ request'[r].pc = "find" /\ request'[r].reply = "none"
          /\ JoinActive(r) => request[r].pc = "find" /\ request'[r].pc \in {"direct", "done"}
                              /\ request'[r].reply \in {"none", "joined"}
          /\ FindNone(r) => request[r].pc = "find" /\ request'[r].pc = "insert" /\ request'[r].reply = "none"
          /\ InsertOperation(r) => request[r].pc = "insert" /\ request'[r].pc = "enqueue" /\ request'[r].reply = "none"
      BY SetRequestAlone DEF LockApp, JoinActive, FindNone, InsertOperation
    <3>2. /\ EnqueueFirstRun(r) => request[r].pc = "enqueue" /\ request'[r].pc = "done" /\ request'[r].reply = "created"
          /\ EnqueueFails(r) => request[r].pc = "enqueue" /\ request'[r].pc = "done" /\ request'[r].reply = "error"
          /\ RequestCrash(r) => request'[r].pc = "done" /\ request'[r].reply = "none"
      BY SetRequestAlone DEF EnqueueFirstRun, EnqueueFails, RequestCrash
    <3>3. head' = head /\ asked' = asked
      BY <2>1
    <3>5. CASE LockApp(r) \/ JoinActive(r) \/ FindNone(r) \/ InsertOperation(r)
      BY <1>0, <3>1, <3>3, <3>5 DEF RequestMoves
    <3>6. CASE EnqueueFirstRun(r) \/ EnqueueFails(r) \/ RequestCrash(r)
      BY <1>0, <3>1, <3>2, <3>3, <3>6 DEF RequestMoves
    <3>7. CASE DirectDeployAnswered(r)
      <4>1. /\ request[r].pc = "direct" /\ request'[r].pc = "done" /\ request'[r].reply # "created"
            /\ request'[r].reply = "hosting" => call[r].build # 0
        BY <3>7, SetRequestAlone DEF DirectDeployAnswered
      <4> QED
        BY <1>0, <3>1, <3>3, <3>7, <4>1 DEF RequestMoves
    <3> QED
      BY <1>3, <2>3, <3>5, <3>6, <3>7
  <2> QED
    BY <2>2, <2>3
<1> QED
  BY AskCases, <1>1, <1>2, <1>3

\* The queue has no job of an operation that does not exist, and gets none.
LEMMA JobStep ==
    ASSUME TypeOK, SourceInv, [Next]_vars, NEW o \in Requests, status[o] = "none"
    PROVE  job'[o] = job[o]
<1>1. \A w \in Runners : run[w].pc # "idle" => run[w].op \in Requests /\ run[w].op # o
  BY DEF TypeOK, RunnersBusy, SourceInv, RunOK
<1>2. job[o] = NoJob /\ request[o].pc # "enqueue"
  BY DEF SourceInv, RequestOK
<1>3. ASSUME NEW r \in Requests, EnqueueFirstRun(r) PROVE job'[o] = job[o]
  BY <1>2, <1>3 DEF EnqueueFirstRun, EnqueueOperationRun, TypeOK
<1>4. ASSUME NEW r \in Requests,
             \/ Arrive(r) \/ LockApp(r) \/ JoinActive(r) \/ FindNone(r) \/ InsertOperation(r)
             \/ EnqueueFails(r) \/ DirectDeployAnswered(r) \/ RequestCrash(r) \/ HourPasses(r)
      PROVE  job'[o] = job[o]
  BY <1>4 DEF Arrive, LockApp, JoinActive, FindNone, InsertOperation, EnqueueFails, DirectDeployAnswered,
     RequestCrash, HourPasses
<1>5. ASSUME NEW w \in Runners,
             \/ ReadOperation(w) \/ StartOperation(w) \/ AlreadyFinished(w) \/ ReadSite(w) \/ Triggered(w)
             \/ NotTriggered(w) \/ RecordStart(w) \/ FollowBuild(w) \/ Succeed(w) \/ MergeMessage(w) \/ Fail(w)
             \/ RunThrows(w)
      PROVE  job'[o] = job[o]
  BY <1>5 DEF ReadOperation, StartOperation, AlreadyFinished, ReadSite, Triggered, NotTriggered, RecordStart,
     FollowBuild, Succeed, MergeMessage, Fail, RunThrows
<1>6. ASSUME NEW w \in Runners, Requeue(w) PROVE job'[o] = job[o]
  BY <1>1, <1>6 DEF Requeue, EnqueueOperationRun, TypeOK
<1>7. ASSUME NEW w \in Runners, JobExpires(w) PROVE job'[o] = job[o]
  BY <1>1, <1>7 DEF JobExpires, TypeOK
<1>8. ASSUME NEW w \in Runners, Respond(w) \/ CatchError(w) \/ RunCrash(w) PROVE job'[o] = job[o]
  <2>1. run[w].pc # "idle" /\ \E ok \in BOOLEAN : Answer(w, ok)
    BY <1>8 DEF Respond, CatchError, RunCrash
  <2>2. PICK ok \in BOOLEAN : Answer(w, ok)
    BY <2>1
  <2> QED
    BY <1>1, <2>1, <2>2 DEF Answer, TypeOK
<1>9. ASSUME NEW w \in Runners, NEW p \in Requests, FetchJob(w, p) PROVE job'[o] = job[o]
  <2>1. p # o
    BY <1>2, <1>9 DEF FetchJob, NoJob
  <2> QED
    BY <1>9, <2>1 DEF FetchJob, TypeOK
<1>10. ASSUME \/ \E c \in Callers : HostingAccepts(c) \/ HostingRefuses(c) \/ AnswerLost(c)
              \/ \E n \in DOMAIN builds : BuildStarts(n) \/ BuildEnds(n)
              \/ UNCHANGED vars
       PROVE  job'[o] = job[o]
  BY <1>10 DEF HostingAccepts, HostingRefuses, AnswerLost, BuildStarts, BuildEnds, vars
<1> QED
  BY NextCases, <1>3, <1>4, <1>5, <1>6, <1>7, <1>8, <1>9, <1>10

LEMMA RequestOKStep == ASSUME IInv, SourceInv, [Next]_vars, NEW r \in Requests PROVE RequestOK(r)'
<1>1. TypeOK /\ RequestOK(r) /\ LogMoves(r) /\ RequestMoves(r) /\ Grows
  BY LogStep, AskStep, GrowsStep DEF IInv, SourceInv
<1>2. asked'[r] <= head'[AppOf[r]]
  BY <1>1 DEF RequestOK, RequestMoves
<1>3. status'[r] # "none" => request'[r].pc \in {"enqueue", "done"}
  BY <1>1 DEF RequestOK, RequestMoves, LogMoves
<1>4. request'[r].pc = "enqueue" => status'[r] # "none"
  <2>1. InsertOperation(r) => status'[r] = "queued"
    BY <1>1 DEF InsertOperation, TypeOK
  <2> QED
    BY <1>1, <2>1 DEF RequestOK, RequestMoves, LogMoves
<1>5. status'[r] = "none" => job'[r] = NoJob
  BY <1>1, JobStep DEF RequestOK, LogMoves
<1>6. request'[r].reply = "created" => status'[r] # "none"
  BY <1>1 DEF RequestOK, RequestMoves, LogMoves
<1>7. request'[r].reply = "hosting" => StartedBy(r)' # {}
  <2>1. StartedBy(r) \subseteq StartedBy(r)'
    BY <1>1, GrowsKeeps
  <2>2. call[r].build # 0 => call[r].build \in StartedBy(r)
    BY DEF SourceInv, CallOK, OpOf, Callers
  <2> QED
    BY <1>1, <2>1, <2>2 DEF RequestOK, RequestMoves
<1> QED
  BY <1>2, <1>3, <1>4, <1>5, <1>6, <1>7 DEF RequestOK

-----------------------------------------------------------------------------
(* The deployments again, and what they were built from *)

\* A deployment hosting is asked for belongs to a request that may ask.
LEMMA CallerAsks ==
    ASSUME TypeOK, SourceInv, NEW c \in Callers, Calling(c)
    PROVE  OpOf(c) \in Requests /\ request[OpOf(c)].pc \in {"enqueue", "direct", "done"}
<1>1. call[c].entry # 0 /\ call[c].build = 0
  BY DEF Calling, PlanEnd
<1>2. CASE c \in Requests
  BY <1>1, <1>2 DEF OpOf, SourceInv, CallOK
<1>3. CASE c \notin Requests
  <2>1. c \in Runners /\ run[c].pc = "trigger"
    BY <1>1, <1>3 DEF Callers, SourceInv, CallOK
  <2>2. run[c].op \in Requests /\ status[run[c].op] # "none"
    BY <2>1 DEF TypeOK, RunnersBusy, SourceInv, RunOK
  <2> QED
    BY <1>3, <2>2 DEF OpOf, SourceInv, RequestOK
<1> QED
  BY <1>2, <1>3

LEMMA BuildOKStep == ASSUME IInv, SourceInv, [Next]_vars, NEW n \in DOMAIN builds' PROVE BuildOK(n)'
<1>1. TypeOK
  BY DEF IInv
<1>2. \A r \in Requests : RequestMoves(r) /\ RequestOK(r)
  BY <1>1, AskStep DEF SourceInv
<1>3. ASSUME NEW m \in DOMAIN builds
      PROVE  /\ BuildOK(m) /\ builds[m].by \in Requests
             /\ request'[builds[m].by].pc \in {"enqueue", "direct", "done"}
             /\ asked'[builds[m].by] = asked[builds[m].by]
  <2>1. builds[m].by \in Requests /\ BuildOK(m)
    BY <1>1, BuildFacts DEF BuildType, SourceInv
  <2> QED
    BY <1>2, <2>1 DEF BuildOK, RequestMoves
<1>4. ASSUME n \in DOMAIN builds, builds'[n] = builds[n] PROVE BuildOK(n)'
  BY <1>3, <1>4 DEF BuildOK
<1>5. CASE UNCHANGED builds
  BY <1>4, <1>5
<1>6. ASSUME NEW c \in Callers, Calling(c), NewBuild(c) \in BuildType, builds' = Append(builds, NewBuild(c))
      PROVE  BuildOK(n)'
  <2>1. CASE n \in DOMAIN builds
    BY <1>1, <1>4, <1>6, <2>1, AddBuild
  <2>2. CASE n \notin DOMAIN builds
    <3>1. builds'[n] = NewBuild(c)
      BY <1>1, <1>6, <2>2, AddBuild
    <3>2. OpOf(c) \in Requests /\ request'[OpOf(c)].pc \in {"enqueue", "direct", "done"}
      BY <1>1, <1>2, <1>6, CallerAsks DEF RequestMoves
    <3>3. /\ builds'[n].app = AppOf[OpOf(c)] /\ builds'[n].by = OpOf(c) /\ builds'[n].row = "none"
          /\ builds'[n].kind = "restart" \/ builds'[n].state = "queued"
      BY <3>1 DEF NewBuild
    <3> QED
      BY <3>2, <3>3 DEF BuildOK
  <2> QED
    BY <2>1, <2>2
<1>7. ASSUME NEW m \in DOMAIN builds, BuildStarts(m) PROVE BuildOK(n)'
  <2>1. /\ builds' = [builds EXCEPT ![m].state = "building", ![m].commit = head[builds[m].app]]
        /\ UNCHANGED askVars /\ builds[m].state = "queued"
    BY <1>7 DEF BuildStarts
  <2>2. CASE n = m
    <3>1. head[AppOf[builds[m].by]] >= asked[builds[m].by]
      <4>1. head[AppOf[builds[m].by]] \in Nat /\ asked[builds[m].by] \in Nat
        BY <1>1, <1>3, DeployAssumption DEF TypeOK
      <4> QED
        BY <1>2, <1>3, <4>1 DEF RequestOK
    <3>2. /\ builds'[n].app = builds[m].app /\ builds'[n].by = builds[m].by /\ builds'[n].row = builds[m].row
          /\ builds'[n].commit = head[builds[m].app]
      BY <1>1, <2>1, <2>2, CommitSet, ZenonT(30)
    <3>3. builds[m].row \notin {"success", "failed"}
      BY <1>3, <2>1 DEF BuildOK
    <3> QED
      BY <1>3, <3>1, <3>2, <3>3 DEF BuildOK
  <2>3. CASE n # m
    BY <1>1, <1>4, <2>1, <2>3, CommitSet
  <2> QED
    BY <2>2, <2>3
<1>8. ASSUME NEW m \in DOMAIN builds, BuildEnds(m) PROVE BuildOK(n)'
  <2>1. PICK end \in {"finished", "failed", "cancelled"} : builds' = [builds EXCEPT ![m].state = end]
    BY <1>8 DEF BuildEnds
  <2>2. CASE n = m
    <3>1. /\ builds'[n].app = builds[m].app /\ builds'[n].by = builds[m].by /\ builds'[n].row = builds[m].row
          /\ builds'[n].commit = builds[m].commit /\ builds'[n].kind = builds[m].kind
      BY <1>1, <2>1, <2>2, StateSet
    <3>2. builds[m].row \notin {"success", "failed"} /\ builds[m].state = "building"
      BY <1>3, <1>8 DEF BuildOK, BuildEnds
    <3> QED
      BY <1>3, <3>1, <3>2 DEF BuildOK
  <2>3. CASE n # m
    BY <1>1, <1>4, <2>1, <2>3, StateSet
  <2> QED
    BY <2>2, <2>3
<1>9. ASSUME NEW m \in DOMAIN builds, NEW row \in {"in_progress", "success", "failed"},
             builds' = [builds EXCEPT ![m].row = row],
             row = "success" => builds[m].state = "finished",
             row = "failed" => builds[m].state \in {"failed", "cancelled"}
      PROVE  BuildOK(n)'
  <2>1. CASE n = m
    <3>1. /\ builds'[n].app = builds[m].app /\ builds'[n].by = builds[m].by /\ builds'[n].row = row
          /\ builds'[n].commit = builds[m].commit /\ builds'[n].kind = builds[m].kind
          /\ builds'[n].state = builds[m].state
      BY <1>1, <1>9, <2>1, RowSet
    <3> QED
      BY <1>3, <1>9, <3>1 DEF BuildOK
  <2>2. CASE n # m
    BY <1>1, <1>4, <1>9, <2>2, RowSet
  <2> QED
    BY <2>1, <2>2
<1> QED
  BY <1>1, BuildStep, <1>5, <1>6, <1>7, <1>8, <1>9

-----------------------------------------------------------------------------
(* The calls of hosting *)

\* What an entry of the plan leaves of the call: the deployment it got, or none.
LEMMA HostingCall ==
    ASSUME TypeOK, NEW c \in Callers, HostingAccepts(c) \/ HostingRefuses(c) \/ AnswerLost(c)
    PROVE  /\ \A d \in Callers : d # c => call'[d] = call[d]
           /\ call[c].entry # 0 /\ call[c].build = 0
           /\ request' = request /\ run' = run
           /\ HostingAccepts(c) => call'[c].build = Len(builds) + 1 /\ Len(builds) + 1 \in StartedBy(OpOf(c))'
           /\ ~HostingAccepts(c) => call'[c].build = 0
<1>1. call[c].entry # 0 /\ call[c].build = 0 /\ call[c] \in CallType
  <2>1. Calling(c)
    BY DEF HostingAccepts, HostingRefuses, AnswerLost
  <2> QED
    BY <2>1 DEF Calling, PlanEnd, TypeOK
<1>2. request' = request /\ run' = run
  BY DEF HostingAccepts, HostingRefuses, AnswerLost, askVars
<1>3. CASE HostingAccepts(c)
  <2> DEFINE n == Len(builds) + 1
  <2>1. PICK tracked \in BOOLEAN : call' = [call EXCEPT ![c] = [@ EXCEPT !.build = n, !.tracked = tracked]]
    BY <1>3 DEF HostingAccepts
  <2>2. call' = [call EXCEPT ![c] = [call[c] EXCEPT !.build = n, !.tracked = tracked]]
    BY <2>1
  <2>3. [call[c] EXCEPT !.build = n, !.tracked = tracked].build = n
    BY <1>1 DEF CallType
  <2>4. call'[c].build = n /\ \A d \in Callers : d # c => call'[d] = call[d]
    BY <2>2, <2>3 DEF TypeOK
  <2>5. NewBuild(c) \in BuildType /\ builds' = Append(builds, NewBuild(c)) /\ NewBuild(c).by = OpOf(c)
    BY <1>3, NewBuildType DEF HostingAccepts, NewBuild
  <2>6. n \in StartedBy(OpOf(c))'
    <3>1. n \in DOMAIN builds' /\ builds'[n].by = OpOf(c)
      BY <2>5, AddBuild
    <3>2. OpOf(c)' = OpOf(c)
      BY <1>2 DEF OpOf
    <3> QED
      BY <3>1, <3>2 DEF StartedBy
  <2> QED
    BY <1>1, <1>2, <1>3, <2>4, <2>6
<1>4. ASSUME NEW x, call' = [call EXCEPT ![c] = x], x.build = 0 PROVE call'[c].build = 0 /\ \A d \in Callers : d # c => call'[d] = call[d]
  BY <1>4 DEF TypeOK
<1>5. CASE HostingRefuses(c)
  <2>1. PICK class : call' = [call EXCEPT ![c] = [@ EXCEPT !.entry = call[c].entry + 1, !.failure = Note(c, class)]]
    BY <1>5 DEF HostingRefuses
  <2>2. call' = [call EXCEPT ![c] = [call[c] EXCEPT !.entry = call[c].entry + 1, !.failure = Note(c, class)]]
    BY <2>1
  <2>3. [call[c] EXCEPT !.entry = call[c].entry + 1, !.failure = Note(c, class)].build = 0
    BY <1>1 DEF CallType
  <2>4. ~HostingAccepts(c)
    <3>1. builds' = builds
      BY <1>5 DEF HostingRefuses
    <3> QED
      BY <3>1, NewBuildType, AddBuild DEF HostingAccepts
  <2> QED
    BY <1>1, <1>2, <1>4, <2>2, <2>3, <2>4
<1>6. CASE AnswerLost(c)
  <2>1. PICK aborted \in BOOLEAN :
          call' = [call EXCEPT ![c] = [@ EXCEPT !.entry = call[c].entry + 1, !.failure = Note(c, "busy"),
                                                 !.timedOut = call[c].timedOut \/ aborted]]
    BY <1>6 DEF AnswerLost
  <2> DEFINE t == call[c].timedOut \/ aborted
             x == [call[c] EXCEPT !.entry = call[c].entry + 1, !.failure = Note(c, "busy"), !.timedOut = t]
  <2>2. call' = [call EXCEPT ![c] = x]
    BY <2>1
  <2>3. x.build = 0
    <3>1. \A late : [call[c] EXCEPT !.entry = call[c].entry + 1, !.failure = Note(c, "busy"), !.timedOut = late].build = 0
      BY <1>1 DEF CallType
    <3> HIDE DEF t
    <3> QED
      BY <3>1
  <2>4. ~HostingAccepts(c)
    <3>1. faults' = faults + 1 /\ faults \in Nat
      <4>1. Fault("lostAnswer")
        BY <1>6 DEF AnswerLost
      <4> QED
        BY <4>1, DeployAssumption DEF Fault, TypeOK
    <3>2. HostingAccepts(c) => faults' = faults
      BY DEF HostingAccepts
    <3>3. faults + 1 # faults
      BY <3>1
    <3> QED
      BY <3>1, <3>2, <3>3
  <2> HIDE DEF x
  <2> QED
    BY <1>1, <1>2, <1>4, <2>2, <2>3, <2>4
<1> QED
  BY <1>3, <1>5, <1>6

\* A call that goes on as it was, and a call that is over.
LEMMA CallKept ==
    ASSUME TypeOK, SourceInv, Grows, NEW c \in Callers, call'[c] = call[c],
           c \in Requests => (request[c].pc = "direct" => request'[c].pc = "direct"),
           c \in Runners => /\ run'[c].op = run[c].op
                            /\ run[c].pc = "trigger" => (run'[c].pc = "trigger" \/ call[c].build # 0)
                            /\ run'[c].pc = "merge" => call[c].build # 0
                            /\ run'[c].pc = "idle" => run[c].pc = "idle"
    PROVE  CallOK(c)'
<1>1. c \in Requests => c \notin Runners
  BY DeployAssumption
<1>2. OpOf(c)' = OpOf(c)
  BY DEF OpOf, Callers
<1>3. CallOK(c)
  BY DEF SourceInv
<1>4. call'[c].build # 0 => call'[c].build \in StartedBy(OpOf(c))'
  <2> DEFINE o == OpOf(c)
  <2>1. StartedBy(o) \subseteq {n \in DOMAIN builds' : builds'[n].by = o}
    BY DEF Grows, StartedBy
  <2> QED
    BY <1>2, <1>3, <2>1 DEF StartedBy, CallOK
<1>5. CASE c \in Requests
  BY <1>1, <1>3, <1>4, <1>5 DEF CallOK
<1>6. CASE c \in Runners
  BY <1>1, <1>3, <1>4, <1>6 DEF CallOK
<1> QED
  BY <1>5, <1>6 DEF Callers

LEMMA NoCallOK ==
    ASSUME NEW c \in Callers, call'[c] = NoCall, c \in Runners => run'[c].pc # "merge"
    PROVE  CallOK(c)'
  BY DEF CallOK, NoCall, CallAt

\* A handler's step, by what it leaves of the handler.
LEMMA LeaveFacts ==
    ASSUME TypeOK, NEW w \in Runners, NEW pc, NEW m, Leave(w, pc, m)
    PROVE  /\ run'[w].pc = pc /\ run'[w].op = run[w].op /\ run'[w].attached = run[w].attached
           /\ run'[w].recorded = NotRecorded /\ run'[w].message = m /\ run'[w].final = run[w].final
           /\ \A v \in Runners : v # w => run'[v] = run[v]
<1>1. run[w] \in RunType
  BY DEF TypeOK
<1> QED
  BY <1>1 DEF Leave, TypeOK, RunType

LEMMA GotoFacts ==
    ASSUME TypeOK, NEW w \in Runners, NEW pc, Goto(w, pc)
    PROVE  /\ run'[w].pc = pc /\ run'[w].op = run[w].op /\ run'[w].attached = run[w].attached
           /\ run'[w].recorded = run[w].recorded /\ run'[w].message = run[w].message
           /\ \A v \in Runners : v # w => run'[v] = run[v]
<1>1. run[w] \in RunType
  BY DEF TypeOK
<1> QED
  BY <1>1 DEF Goto, TypeOK, RunType

LEMMA AnswerFacts ==
    ASSUME TypeOK, NEW w \in Runners, NEW ok, Answer(w, ok)
    PROVE  /\ run'[w] = IdleRun /\ call'[w] = NoCall
           /\ \A v \in Runners : v # w => run'[v] = run[v]
           /\ \A c \in Callers : c # w => call'[c] = call[c]
  BY DEF Answer, TypeOK, Callers

LEMMA ReadFacts ==
    ASSUME TypeOK, NEW w \in Runners, ReadOperation(w)
    PROVE  /\ run[w].pc = "read" /\ run'[w].pc = "start" /\ run'[w].op = run[w].op
           /\ run'[w].attached = run[w].attached /\ run'[w].message = run[w].message
           /\ run'[w].recorded = recorded[run[w].op]
           /\ \A v \in Runners : v # w => run'[v] = run[v]
<1>1. run[w] \in RunType
  BY DEF TypeOK
<1> QED
  BY <1>1 DEF ReadOperation, TypeOK, RunType

LEMMA FetchFacts ==
    ASSUME TypeOK, NEW w \in Runners, NEW o \in Requests, FetchJob(w, o)
    PROVE  /\ run[w].pc = "idle" /\ run'[w].pc = "read" /\ run'[w].op = o /\ run'[w].attached
           /\ run'[w].recorded = NotRecorded /\ run'[w].message = "none"
           /\ \A v \in Runners : v # w => run'[v] = run[v]
<1>1. run[w].pc = "idle"
  BY DEF FetchJob
<1>2. PICK final : run' = [run EXCEPT ![w] = [IdleRun EXCEPT !.pc = "read", !.op = o, !.attached = TRUE, !.final = final]]
  BY DEF FetchJob
<1> QED
  BY <1>1, <1>2 DEF TypeOK, IdleRun

LEMMA ExpireFacts ==
    ASSUME TypeOK, NEW w \in Runners, JobExpires(w)
    PROVE  /\ run[w].pc # "idle" /\ run[w].attached
           /\ run'[w].pc = run[w].pc /\ run'[w].op = run[w].op /\ ~run'[w].attached
           /\ run'[w].recorded = run[w].recorded /\ run'[w].message = run[w].message
           /\ \A v \in Runners : v # w => run'[v] = run[v]
<1>1. run[w] \in RunType
  BY DEF TypeOK
<1>2. run[w].pc # "idle" /\ run[w].attached /\ run' = [run EXCEPT ![w].attached = FALSE]
  BY DEF JobExpires
<1> QED
  BY <1>1, <1>2 DEF TypeOK, RunType

LEMMA CallUntouched ==
    ASSUME TypeOK, SourceInv, Grows, NEW c \in Callers, call'[c] = call[c],
           c \in Requests => request'[c] = request[c], c \in Runners => run'[c] = run[c]
    PROVE  CallOK(c)'
<1>1. c \in Runners => (run[c].pc = "merge" => call[c].build # 0)
  BY DEF SourceInv, CallOK
<1> QED
  BY <1>1, CallKept

\* A handler that was not calling hosting goes on to something else than that.
LEMMA CallIdle ==
    ASSUME TypeOK, SourceInv, Grows, UNCHANGED <<call, request>>, NEW w \in Runners,
           run[w].pc # "trigger" \/ call[w].build # 0, run'[w].pc # "idle",
           run'[w].pc = "merge" => call[w].build # 0,
           run'[w].op = run[w].op, \A v \in Runners : v # w => run'[v] = run[v],
           NEW c \in Callers
    PROVE  CallOK(c)'
<1>1. CASE c = w
  <2>1. c \notin Requests
    BY <1>1, DeployAssumption
  <2> QED
    BY <1>1, <2>1, CallKept
<1>2. CASE c # w
  BY <1>2, CallUntouched DEF Callers
<1> QED
  BY <1>1, <1>2

LEMMA CallOKStep == ASSUME IInv, SourceInv, [Next]_vars, NEW c \in Callers PROVE CallOK(c)'
<1>1. TypeOK /\ Grows
  BY GrowsStep DEF IInv
<1>0. c \in Requests => c \notin Runners
  BY DeployAssumption
<1>2. ASSUME UNCHANGED <<call, request, run>> PROVE CallOK(c)'
  BY <1>1, <1>2, CallUntouched
<1>3. ASSUME NEW r \in Requests,
             \/ Arrive(r) \/ LockApp(r) \/ FindNone(r) \/ InsertOperation(r) \/ EnqueueFirstRun(r) \/ EnqueueFails(r)
      PROVE  CallOK(c)'
  <2>1. call' = call /\ run' = run /\ request[r].pc # "direct"
    BY <1>3 DEF Arrive, LockApp, FindNone, InsertOperation, EnqueueFirstRun, EnqueueFails
  <2>2. \A q \in Requests : q # r => request'[q] = request[q]
    BY <1>1, <1>3, SetRequestAlone DEF Arrive, LockApp, FindNone, InsertOperation, EnqueueFirstRun, EnqueueFails
  <2>3. CASE c = r
    BY <1>0, <1>1, <2>1, <2>3, CallKept
  <2>4. CASE c # r
    BY <1>1, <2>1, <2>2, <2>4, CallUntouched
  <2> QED
    BY <2>3, <2>4
<1>4. ASSUME NEW r \in Requests, JoinActive(r) \/ DirectDeployAnswered(r) \/ RequestCrash(r) PROVE CallOK(c)'
  <2>1. /\ run' = run /\ \A q \in Requests : q # r => request'[q] = request[q]
        /\ \A d \in Callers : d # r => call'[d] = call[d]
    BY <1>1, <1>4, SetRequestAlone DEF JoinActive, DirectDeployAnswered, RequestCrash, TypeOK, Callers
  <2>2. CASE c # r
    BY <1>1, <2>1, <2>2, CallUntouched
  <2>3. CASE c = r
    <3>1. CASE call' = [call EXCEPT ![r] = NoCall]
      <4>1. call'[c] = NoCall
        BY <1>1, <2>3, <3>1 DEF TypeOK
      <4> QED
        BY <1>0, <2>3, <4>1, NoCallOK
    <3>2. CASE call' = call /\ request[r].pc # "direct"
      BY <1>0, <1>1, <2>3, <3>2, CallKept
    <3>3. CASE call' = [call EXCEPT ![r] = NewCall] /\ SetRequest(r, "direct", "none")
      <4>1. call'[c] = NewCall /\ request'[c].pc = "direct"
        BY <1>1, <2>3, <3>3, SetRequestAlone DEF TypeOK
      <4> QED
        BY <1>0, <2>3, <4>1 DEF CallOK, NewCall, CallAt
    <3> QED
      BY <1>4, <3>1, <3>2, <3>3 DEF JoinActive, DirectDeployAnswered, RequestCrash
  <2> QED
    BY <2>2, <2>3
<1>5. ASSUME NEW d \in Callers, HostingAccepts(d) \/ HostingRefuses(d) \/ AnswerLost(d) PROVE CallOK(c)'
  <2>1. /\ \A e \in Callers : e # d => call'[e] = call[e]
        /\ call[d].entry # 0 /\ call[d].build = 0
        /\ request' = request /\ run' = run
        /\ call'[d].build = 0 \/ call'[d].build \in StartedBy(OpOf(d))'
    BY <1>1, <1>5, HostingCall
  <2>2. CASE c # d
    BY <1>1, <2>1, <2>2, CallUntouched
  <2>3. CASE c = d
    <3>1. CallOK(c)
      BY DEF SourceInv
    <3>2. CASE c \in Requests
      BY <1>0, <2>1, <2>3, <3>1, <3>2 DEF CallOK
    <3>3. CASE c \in Runners
      BY <1>0, <2>1, <2>3, <3>1, <3>3 DEF CallOK
    <3> QED
      BY <3>2, <3>3 DEF Callers
  <2> QED
    BY <2>2, <2>3
<1>6. ASSUME NEW w \in Runners, Respond(w) \/ CatchError(w) \/ RunCrash(w) PROVE CallOK(c)'
  <2>1. UNCHANGED request /\ \E ok \in BOOLEAN : Answer(w, ok)
    BY <1>6 DEF Respond, CatchError, RunCrash, askVars
  <2>2. /\ run'[w] = IdleRun /\ call'[w] = NoCall
        /\ \A v \in Runners : v # w => run'[v] = run[v]
        /\ \A d \in Callers : d # w => call'[d] = call[d]
    BY <1>1, <2>1, AnswerFacts
  <2>3. CASE c = w
    BY <2>2, <2>3, NoCallOK DEF IdleRun
  <2>4. CASE c # w
    BY <1>1, <2>1, <2>2, <2>4, CallUntouched
  <2> QED
    BY <2>3, <2>4
<1>7. ASSUME NEW w \in Runners, NotTriggered(w) \/ RecordStart(w) PROVE CallOK(c)'
  <2>1. UNCHANGED request /\ call' = [call EXCEPT ![w] = NoCall]
    BY <1>7 DEF NotTriggered, RecordStart, askVars
  <2>2. \E pc \in {"catch", "fail", "succeed", "requeue"}, m \in Messages : Leave(w, pc, m)
    BY <1>7 DEF NotTriggered, RecordStart, Messages
  <2>3. run'[w].pc # "merge" /\ \A v \in Runners : v # w => run'[v] = run[v]
    BY <1>1, <2>2, LeaveFacts
  <2>4. CASE c = w
    <3>1. call'[c] = NoCall
      BY <1>1, <2>1, <2>4 DEF TypeOK
    <3> QED
      BY <2>3, <2>4, <3>1, NoCallOK
  <2>5. CASE c # w
    <3>1. call'[c] = call[c]
      BY <1>1, <2>1, <2>5 DEF TypeOK
    <3> QED
      BY <1>1, <2>1, <2>3, <2>5, <3>1, CallUntouched
  <2> QED
    BY <2>4, <2>5
<1>8. ASSUME NEW w \in Runners,
             \/ AlreadyFinished(w) \/ FollowBuild(w) \/ Succeed(w) \/ MergeMessage(w) \/ Fail(w) \/ Requeue(w) \/ RunThrows(w)
      PROVE  CallOK(c)'
  <2>1. UNCHANGED <<call, request>> /\ run[w].pc # "trigger"
    BY <1>8 DEF AlreadyFinished, FollowBuild, Succeed, MergeMessage, Fail, Requeue, RunThrows, askVars
  <2>2. \/ Goto(w, "message")
        \/ \E pc \in {"respond", "catch", "fail", "succeed", "requeue"}, m \in Messages : Leave(w, pc, m)
    BY <1>8 DEF AlreadyFinished, FollowBuild, Succeed, MergeMessage, Fail, Requeue, RunThrows, Messages
  <2>3. run'[w].pc \notin {"idle", "merge"} /\ run'[w].op = run[w].op /\ \A v \in Runners : v # w => run'[v] = run[v]
    BY <1>1, <2>2, LeaveFacts, GotoFacts
  <2> QED
    BY <1>1, <2>1, <2>3, CallIdle
<1>9. ASSUME NEW w \in Runners, StartOperation(w) \/ Triggered(w) PROVE CallOK(c)'
  <2>1. UNCHANGED <<call, request>> /\ (run[w].pc = "start" \/ call[w].build # 0)
    BY <1>9 DEF StartOperation, Triggered, askVars
  <2>2. \/ Goto(w, "follow") \/ Goto(w, "site")
        \/ Goto(w, "merge") /\ call[w].build # 0
    BY <1>9 DEF StartOperation, Triggered
  <2>3. /\ run'[w].pc # "idle" /\ run'[w].op = run[w].op /\ \A v \in Runners : v # w => run'[v] = run[v]
        /\ run'[w].pc = "merge" => call[w].build # 0
    BY <1>1, <2>2, GotoFacts
  <2> QED
    BY <1>1, <2>1, <2>3, CallIdle
<1>10. ASSUME NEW w \in Runners, ReadOperation(w) PROVE CallOK(c)'
  <2>1. UNCHANGED <<call, request>>
    BY <1>10 DEF ReadOperation, askVars
  <2> QED
    BY <1>1, <1>10, <2>1, ReadFacts, CallIdle
<1>11. ASSUME NEW w \in Runners, JobExpires(w) PROVE CallOK(c)'
  <2>1. UNCHANGED <<call, request>>
    BY <1>11 DEF JobExpires, askVars
  <2>2. /\ run'[w].pc = run[w].pc /\ run'[w].op = run[w].op
        /\ \A v \in Runners : v # w => run'[v] = run[v]
    BY <1>1, <1>11, ExpireFacts
  <2>3. CASE c = w
    <3>1. run[w].pc = "merge" => call[w].build # 0
      BY <2>3 DEF SourceInv, CallOK
    <3> QED
      BY <1>0, <1>1, <2>1, <2>2, <2>3, <3>1, CallKept
  <2>4. CASE c # w
    BY <1>1, <2>1, <2>2, <2>4, CallUntouched
  <2> QED
    BY <2>3, <2>4
<1>12. ASSUME NEW w \in Runners, ReadSite(w) PROVE CallOK(c)'
  <2>1. UNCHANGED request /\ run[w].pc = "site"
    BY <1>12 DEF ReadSite, askVars
  <2>2. CASE Leave(w, "fail", "nothingDeployed") /\ UNCHANGED call
    <3>1. run'[w].pc = "fail" /\ run'[w].op = run[w].op /\ \A v \in Runners : v # w => run'[v] = run[v]
      BY <1>1, <2>2, LeaveFacts
    <3> QED
      BY <1>1, <2>1, <2>2, <3>1, CallIdle
  <2>3. CASE Goto(w, "trigger") /\ call' = [call EXCEPT ![w] = NewCall]
    <3>1. run'[w].pc = "trigger" /\ \A v \in Runners : v # w => run'[v] = run[v]
      BY <1>1, <2>3, GotoFacts
    <3>2. CASE c = w
      <4>1. call'[c] = NewCall
        BY <1>1, <2>3, <3>2 DEF TypeOK
      <4> QED
        BY <1>0, <3>1, <3>2, <4>1 DEF CallOK, NewCall, CallAt
    <3>3. CASE c # w
      <4>1. call'[c] = call[c]
        BY <1>1, <2>3, <3>3 DEF TypeOK
      <4> QED
        BY <1>1, <2>1, <3>1, <3>3, <4>1, CallUntouched
    <3> QED
      BY <3>2, <3>3
  <2> QED
    BY <1>12, <2>2, <2>3 DEF ReadSite
<1>13. ASSUME NEW w \in Runners, NEW o \in Requests, FetchJob(w, o) PROVE CallOK(c)'
  <2>1. UNCHANGED <<call, request>>
    BY <1>13 DEF FetchJob, askVars
  <2>2. run[w].pc = "idle" /\ run'[w].pc = "read" /\ \A v \in Runners : v # w => run'[v] = run[v]
    BY <1>1, <1>13, FetchFacts
  <2>3. CASE c = w
    <3>1. call'[c] = NoCall
      BY <2>1, <2>2, <2>3 DEF SourceInv, CallOK
    <3> QED
      BY <2>2, <2>3, <3>1, NoCallOK
  <2>4. CASE c # w
    BY <1>1, <2>1, <2>2, <2>4, CallUntouched
  <2> QED
    BY <2>3, <2>4
<1>14. ASSUME \/ \E r \in Requests : HourPasses(r)
              \/ \E n \in DOMAIN builds : BuildStarts(n) \/ BuildEnds(n)
              \/ UNCHANGED vars
       PROVE  CallOK(c)'
  BY <1>2, <1>14 DEF HourPasses, BuildStarts, BuildEnds, vars, askVars
<1> QED
  BY NextCases, <1>3, <1>4, <1>5, <1>6, <1>7, <1>8, <1>9, <1>10, <1>11, <1>12, <1>13, <1>14

-----------------------------------------------------------------------------
(* The handlers *)

\* What a handler has read and is about to write stays so, whatever others do.
LEMMA RunKept ==
    ASSUME TypeOK, SourceInv, Forward, NEW w \in Runners,
           run'[w].pc = run[w].pc, run'[w].op = run[w].op, run'[w].recorded = run[w].recorded,
           run'[w].message = run[w].message
    PROVE  RunOK(w)'
<1> DEFINE o == run[w].op
<1>1. CASE run[w].pc = "idle"
  BY <1>1 DEF RunOK
<1>2. CASE run[w].pc # "idle"
  <2>1. o \in Requests /\ RunOK(w)
    BY <1>2 DEF TypeOK, RunnersBusy, SourceInv
  <2>2. StartedBy(o) \subseteq StartedBy(o)' /\ (WasLive(o) => WasLive(o)') /\ (WasInVain(o) => WasInVain(o)')
    BY GrowsKeeps DEF Forward
  <2>3. /\ status'[o] # "none" /\ (run[w].pc \in {"site", "trigger", "merge"} => status'[o] # "queued")
        /\ run[w].recorded.done => recorded'[o].done
        /\ run[w].pc = "requeue" => (recorded'[o].done \/ status'[o] \in Past)
    BY <1>2, <2>1 DEF RunOK, Forward, Open
  <2>4. /\ run[w].recorded.build # 0 => run[w].recorded.build \in StartedBy(o)'
        /\ run[w].pc \in {"succeed", "message"} => StartedBy(o)' # {}
        /\ run[w].message = "live" => WasLive(o)'
        /\ run[w].message = "unchanged" => WasInVain(o)'
        /\ run[w].pc = "follow" => run[w].recorded.done
    BY <1>2, <2>1, <2>2 DEF RunOK, Says
  <2>5. o' = o
    OBVIOUS
  <2> HIDE DEF o
  <2>6. /\ StartedBy(run[w].op)' = StartedBy(o)' /\ WasLive(run[w].op)' = WasLive(o)'
        /\ WasInVain(run[w].op)' = WasInVain(o)'
    BY <2>5 DEF o, StartedBy, WasLive, WasInVain
  <2> QED
    BY <2>3, <2>4, <2>6 DEF RunOK, Says, Open, o
<1> QED
  BY <1>1, <1>2

LEMMA RunAfter ==
    ASSUME NEW w \in Runners, NEW o, run'[w].op = o, status'[o] # "none",
           run'[w].recorded.build # 0 => run'[w].recorded.build \in StartedBy(o)',
           run'[w].recorded.done => recorded'[o].done,
           run'[w].pc = "follow" => run'[w].recorded.done,
           run'[w].pc \in {"site", "trigger", "merge"} => status'[o] # "queued",
           run'[w].pc = "requeue" => recorded'[o].done \/ status'[o] \in Past,
           run'[w].pc \in {"succeed", "message"} => StartedBy(o)' # {},
           run'[w].message = "live" => WasLive(o)',
           run'[w].message = "unchanged" => WasInVain(o)'
    PROVE  RunOK(w)'
<1>1. /\ StartedBy(run[w].op)' = StartedBy(o)' /\ WasLive(run[w].op)' = WasLive(o)'
      /\ WasInVain(run[w].op)' = WasInVain(o)'
  BY DEF StartedBy, WasLive, WasInVain
<1> QED
  BY <1>1 DEF RunOK, Says, Open

\* What was so of a handler's operation before a step is so after it.
LEMMA RunBefore ==
    ASSUME TypeOK, SourceInv, Forward, NEW w \in Runners, run[w].pc # "idle", NEW o, o = run[w].op
    PROVE  /\ o \in Requests /\ RunOK(w) /\ LogOK(o)
           /\ status[o] # "none" /\ status'[o] # "none"
           /\ StartedBy(o) \subseteq StartedBy(o)'
           /\ WasLive(o) => WasLive(o)'
           /\ WasInVain(o) => WasInVain(o)'
           /\ run[w].recorded.done => recorded[o].done /\ recorded'[o].done
           /\ run[w].recorded.build # 0 => run[w].recorded.build \in StartedBy(o)
<1>1. o \in Requests
  BY DEF TypeOK, RunnersBusy
<1>2. RunOK(w) /\ LogOK(o)
  BY <1>1 DEF SourceInv
<1> QED
  BY <1>1, <1>2, GrowsKeeps DEF Forward, RunOK

LEMMA LeaveOK ==
    ASSUME TypeOK, SourceInv, Forward, NEW w \in Runners, run[w].pc # "idle",
           NEW pc \in {"respond", "catch", "fail", "succeed", "requeue"}, NEW m, Leave(w, pc, m),
           NEW o, o = run[w].op,
           pc = "requeue" => recorded'[o].done \/ status'[o] \in Past,
           pc = "succeed" => StartedBy(o) # {},
           m = "live" => WasLive(o), m = "unchanged" => WasInVain(o)
    PROVE  RunOK(w)'
<1>1. run'[w].pc = pc /\ run'[w].op = o /\ run'[w].recorded = NotRecorded /\ run'[w].message = m
  BY LeaveFacts
<1>2. /\ status'[o] # "none" /\ StartedBy(o) \subseteq StartedBy(o)'
      /\ WasLive(o) => WasLive(o)'
      /\ WasInVain(o) => WasInVain(o)'
  BY RunBefore
<1> QED
  BY <1>1, <1>2, RunAfter DEF NotRecorded

LEMMA GotoOK ==
    ASSUME TypeOK, SourceInv, Forward, NEW w \in Runners, run[w].pc # "idle",
           NEW pc \in {"site", "trigger", "merge", "follow", "message"}, Goto(w, pc),
           NEW o, o = run[w].op,
           pc = "follow" => run[w].recorded.done,
           pc \in {"site", "trigger", "merge"} => status'[o] # "queued",
           pc = "message" => StartedBy(o) # {}
    PROVE  RunOK(w)'
<1>1. run'[w].pc = pc /\ run'[w].op = o /\ run'[w].recorded = run[w].recorded /\ run'[w].message = run[w].message
  BY GotoFacts
<1>2. /\ status'[o] # "none" /\ StartedBy(o) \subseteq StartedBy(o)'
      /\ WasLive(o) => WasLive(o)'
      /\ WasInVain(o) => WasInVain(o)'
      /\ run[w].recorded.done => recorded'[o].done
      /\ run[w].recorded.build # 0 => run[w].recorded.build \in StartedBy(o)
      /\ RunOK(w)
  BY RunBefore
<1>3. (run[w].message = "live" => WasLive(o)) /\ (run[w].message = "unchanged" => WasInVain(o))
  BY <1>2 DEF RunOK, Says
<1> QED
  BY <1>1, <1>2, <1>3, RunAfter

LEMMA RunOKStep == ASSUME IInv, SourceInv, [Next]_vars, NEW x \in Runners PROVE RunOK(x)'
<1>1. TypeOK /\ Forward
  BY ForwardStep DEF IInv
<1>2. ASSUME run'[x] = run[x] PROVE RunOK(x)'
  BY <1>1, <1>2, RunKept
<1>3. CASE \/ \E r \in Requests : \/ Arrive(r) \/ LockApp(r) \/ JoinActive(r) \/ FindNone(r) \/ InsertOperation(r)
                                  \/ EnqueueFirstRun(r) \/ EnqueueFails(r) \/ DirectDeployAnswered(r)
                                  \/ RequestCrash(r) \/ HourPasses(r)
           \/ \E c \in Callers : HostingAccepts(c) \/ HostingRefuses(c) \/ AnswerLost(c)
           \/ \E n \in DOMAIN builds : BuildStarts(n) \/ BuildEnds(n)
           \/ UNCHANGED vars
  BY <1>2, <1>3 DEF Arrive, LockApp, JoinActive, FindNone, InsertOperation, EnqueueFirstRun, EnqueueFails,
     DirectDeployAnswered, RequestCrash, HourPasses, HostingAccepts, HostingRefuses, AnswerLost, BuildStarts,
     BuildEnds, vars
<1>4. ASSUME NEW w \in Runners, Respond(w) \/ CatchError(w) \/ RunCrash(w) PROVE RunOK(x)'
  <2>1. \E ok \in BOOLEAN : Answer(w, ok)
    BY <1>4 DEF Respond, CatchError, RunCrash
  <2>2. run'[w].pc = "idle" /\ \A v \in Runners : v # w => run'[v] = run[v]
    BY <1>1, <2>1, AnswerFacts DEF IdleRun
  <2> QED
    BY <1>2, <2>2 DEF RunOK
<1>5. ASSUME NEW w \in Runners, JobExpires(w) PROVE RunOK(x)'
  BY <1>1, <1>2, <1>5, ExpireFacts, RunKept
<1>6. ASSUME NEW w \in Runners, NEW o \in Requests, FetchJob(w, o) PROVE RunOK(x)'
  <2>1. /\ run'[w].pc = "read" /\ run'[w].op = o /\ run'[w].recorded = NotRecorded /\ run'[w].message = "none"
        /\ \A v \in Runners : v # w => run'[v] = run[v]
    BY <1>1, <1>6, FetchFacts
  <2>2. status'[o] # "none"
    <3>1. job[o] # NoJob
      BY <1>6 DEF FetchJob, NoJob
    <3> QED
      BY <1>1, <3>1 DEF SourceInv, RequestOK, Forward
  <2>3. RunOK(w)'
    BY <2>1, <2>2, RunAfter DEF NotRecorded
  <2> QED
    BY <1>2, <2>1, <2>3
<1>7. ASSUME NEW w \in Runners, ReadOperation(w) PROVE RunOK(x)'
  <2> PICK o \in Requests : o = run[w].op
    BY <1>1, <1>7 DEF ReadOperation, TypeOK, RunnersBusy
  <2>1. /\ run[w].pc = "read" /\ run'[w].pc = "start" /\ run'[w].op = o
        /\ run'[w].recorded = recorded[o] /\ run'[w].message = run[w].message
        /\ \A v \in Runners : v # w => run'[v] = run[v]
    BY <1>1, <1>7, ReadFacts
  <2>2. /\ o \in Requests /\ status'[o] # "none" /\ StartedBy(o) \subseteq StartedBy(o)' /\ LogOK(o) /\ RunOK(w)
        /\ WasLive(o) => WasLive(o)'
        /\ WasInVain(o) => WasInVain(o)'
    BY <1>1, <2>1, RunBefore
  <2>3. (run[w].message = "live" => WasLive(o)) /\ (run[w].message = "unchanged" => WasInVain(o))
    BY <2>1, <2>2 DEF RunOK, Says
  <2>4. recorded[o].done => recorded'[o].done
    BY <1>1, <2>2 DEF Forward
  <2>5. recorded[o].build # 0 => recorded[o].build \in StartedBy(o)
    BY <2>2 DEF LogOK
  <2>6. RunOK(w)'
    BY <2>1, <2>2, <2>3, <2>4, <2>5, RunAfter
  <2> QED
    BY <1>2, <2>1, <2>6
<1>8. ASSUME NEW w \in Runners, NEW pc, NEW m, Leave(w, pc, m), x # w PROVE RunOK(x)'
  BY <1>1, <1>2, <1>8, LeaveFacts
<1>9. ASSUME NEW w \in Runners, NEW pc, Goto(w, pc), x # w PROVE RunOK(x)'
  BY <1>1, <1>2, <1>9, GotoFacts
<1>10. ASSUME NEW w \in Runners,
              \/ AlreadyFinished(w) \/ NotTriggered(w) \/ MergeMessage(w) \/ Fail(w) \/ Requeue(w) \/ RunThrows(w)
       PROVE  RunOK(x)'
  <2>1. /\ run[w].pc # "idle"
        /\ \E pc \in {"respond", "catch", "fail"}, m \in {"none", "mayHaveStarted", "couldNotStart"} : Leave(w, pc, m)
    BY <1>10 DEF AlreadyFinished, NotTriggered, MergeMessage, Fail, Requeue, RunThrows
  <2> QED
    BY <1>1, <1>8, <2>1, LeaveOK
<1>11. ASSUME NEW w \in Runners, StartOperation(w) PROVE RunOK(x)'
  <2>1. /\ run[w].pc # "idle" /\ run[w].op \in Requests /\ status' = [status EXCEPT ![run[w].op] = "running"]
        /\ (Goto(w, "follow") /\ run[w].recorded.done) \/ Goto(w, "site")
    BY <1>1, <1>11 DEF StartOperation, TypeOK, RunnersBusy
  <2>2. status'[run[w].op] = "running"
    BY <1>1, <2>1 DEF TypeOK
  <2> QED
    BY <1>1, <1>9, <2>1, <2>2, GotoOK
<1>12. ASSUME NEW w \in Runners, ReadSite(w) \/ Triggered(w) PROVE RunOK(x)'
  <2>1. /\ run[w].pc \in {"site", "trigger"} /\ status' = status
        /\ Goto(w, "trigger") \/ Goto(w, "merge") \/ Leave(w, "fail", "nothingDeployed")
    BY <1>12 DEF ReadSite, Triggered, logVars
  <2>2. status'[run[w].op] # "queued"
    BY <1>1, <2>1 DEF SourceInv, RunOK
  <2> QED
    BY <1>1, <1>8, <1>9, <2>1, <2>2, GotoOK, LeaveOK
<1>13. ASSUME NEW w \in Runners, RecordStart(w) PROVE RunOK(x)'
  <2> DEFINE o == run[w].op
  <2>1. /\ o \in Requests /\ StartedBy(o) # {}
        /\ status[o] = "running" => recorded'[o].done
    BY <1>1, <1>13, RecordSets
  <2>2. run[w].pc = "merge" /\ status' = status
    BY <1>13 DEF RecordStart
  <2>3. status[o] \in Past \cup {"running"}
    BY <1>1, <2>1, <2>2 DEF SourceInv, RunOK, TypeOK, Statuses, Active, Past
  <2>4. Leave(w, "succeed", "restarted") \/ Leave(w, "succeed", "started") \/ Leave(w, "requeue", "none")
    BY <1>13 DEF RecordStart
  <2> QED
    BY <1>1, <1>8, <2>1, <2>2, <2>3, <2>4, LeaveOK
<1>14. ASSUME NEW w \in Runners, FollowBuild(w) PROVE RunOK(x)'
  <2> DEFINE o == run[w].op
             n == run[w].recorded.build
  <2>1. run[w].pc = "follow"
    BY <1>14 DEF FollowBuild
  <2>2. /\ o \in Requests /\ LogOK(o) /\ RunOK(w)
        /\ run[w].recorded.done => recorded[o].done /\ recorded'[o].done
        /\ n # 0 => n \in StartedBy(o)
    BY <1>1, <2>1, RunBefore
  <2>3. recorded'[o].done /\ StartedBy(o) # {}
    BY <2>1, <2>2 DEF RunOK, LogOK
  <2>4. \/ Leave(w, "succeed", "started")
        \/ n # 0 /\ builds[n].state = "finished" /\ Leave(w, "succeed", "live")
        \/ n # 0 /\ builds[n].state \in {"failed", "cancelled"} /\ Leave(w, "fail", "unchanged")
        \/ Leave(w, "fail", "gaveUp")
        \/ Leave(w, "requeue", "none")
    BY <1>14 DEF FollowBuild, HasFinished
  <2>5. /\ n # 0 /\ builds[n].state = "finished" => WasLive(o)
        /\ n # 0 /\ builds[n].state \in {"failed", "cancelled"} => WasInVain(o)
    BY <2>2 DEF WasLive, WasInVain
  <2> QED
    BY <1>1, <1>8, <2>1, <2>3, <2>4, <2>5, LeaveOK
<1>15. ASSUME NEW w \in Runners, Succeed(w) PROVE RunOK(x)'
  <2>1. run[w].pc = "succeed" /\ (Goto(w, "message") \/ Leave(w, "respond", "none"))
    BY <1>15 DEF Succeed
  <2>2. StartedBy(run[w].op) # {}
    BY <2>1 DEF SourceInv, RunOK
  <2> QED
    BY <1>1, <1>8, <1>9, <2>1, <2>2, GotoOK, LeaveOK
<1> QED
  BY NextCases, <1>3, <1>4, <1>5, <1>6, <1>7, <1>10, <1>11, <1>12, <1>13, <1>14, <1>15


LEMMA SourceInit == Init => SourceInv
<1> SUFFICES ASSUME Init PROVE SourceInv
  OBVIOUS
<1>1. builds = <<>> /\ DOMAIN builds = {}
  BY DEF Init
<1>2. ASSUME NEW r \in Requests PROVE RequestOK(r)
  BY <1>2, DeployAssumption DEF Init, RequestOK, NoJob
<1>3. ASSUME NEW o \in Requests PROVE LogOK(o)
  BY <1>3 DEF Init, LogOK, Says, NotRecorded
<1>4. ASSUME NEW c \in Callers PROVE CallOK(c)
  BY <1>4 DEF Init, CallOK, NoCall, CallAt, IdleRun
<1>5. ASSUME NEW w \in Runners PROVE RunOK(w)
  BY <1>5 DEF Init, RunOK, IdleRun
<1> QED
  BY <1>1, <1>2, <1>3, <1>4, <1>5 DEF SourceInv

LEMMA SourceStep == IInv /\ SourceInv /\ [Next]_vars => SourceInv'
  BY BuildOKStep, RequestOKStep, LogOKStep, CallOKStep, RunOKStep DEF SourceInv

LEMMA SourceAlways == Spec => [](IInv /\ SourceInv)
<1>1. Spec => []IInv
  BY Inductive
<1>2. Init => SourceInv
  BY SourceInit
<1>3. IInv /\ IInv' /\ SourceInv /\ [Next]_vars => SourceInv'
  BY SourceStep
<1> QED
  BY <1>1, <1>2, <1>3, PTL DEF Spec

\* What a finished operation tells its client of its deployment is so, and the history row agrees, whatever
\* crashes, is retried or comes late (followBuild, succeedOperation, failOperation).
THEOREM Truthful == Spec => []TruthfulOutcome
<1>1. SourceInv => TruthfulOutcome
  <2> SUFFICES ASSUME SourceInv PROVE TruthfulOutcome
    OBVIOUS
  <2>1. ASSUME NEW o \in Requests
        PROVE  /\ told[o] = "live" => \E n \in StartedBy(o) : builds[n].state = "finished"
               /\ told[o] = "unchanged" => \E n \in StartedBy(o) : builds[n].state \in {"failed", "cancelled"}
    BY <2>1 DEF SourceInv, LogOK, Says, WasLive, WasInVain
  <2>2. ASSUME NEW n \in DOMAIN builds
        PROVE  /\ builds[n].row = "success" => builds[n].state = "finished"
               /\ builds[n].row = "failed" => builds[n].state \in {"failed", "cancelled"}
    BY <2>2 DEF SourceInv, BuildOK
  <2> QED
    BY <2>1, <2>2 DEF TruthfulOutcome
<1> QED
  BY SourceAlways, <1>1, PTL

\* A push that was answered "deploying" has a deployment of its commit or of a later one, or its operation is
\* still active or failed in front of the client (deployOnPush).
THEOREM PushesHold == Spec => []PushesCovered
<1>1. IInv /\ SourceInv => PushesCovered
  <2> SUFFICES ASSUME IInv, SourceInv, NEW r \in Requests, request[r].reply \in {"created", "hosting"},
                      status[r] \notin Active \cup {"failed"}
               PROVE  \E n \in DOMAIN builds : /\ builds[n].app = AppOf[r]
                                               /\ builds[n].kind = "restart" \/ builds[n].state = "queued"
                                                  \/ builds[n].commit >= asked[r]
    BY DEF PushesCovered
  <2>1. status[r] \in {"none", "succeeded", "cancelled"}
    BY DEF IInv, TypeOK, Statuses
  <2>2. StartedBy(r) # {}
    BY <2>1 DEF SourceInv, RequestOK, LogOK
  <2>3. PICK n \in DOMAIN builds : builds[n].by = r
    BY <2>2 DEF StartedBy
  <2>4. BuildOK(n)
    BY DEF SourceInv
  <2> QED
    BY <2>3, <2>4 DEF BuildOK
<1> QED
  BY SourceAlways, <1>1, PTL


-----------------------------------------------------------------------------
(* Counting: what a step does to the claims of an operation *)

\* The claims before and after a step, one kind at a time.
LEMMA ClaimIn ==
    ASSUME NEW o
    PROVE  /\ \A n : <<"build", n>> \in Claims(o) <=> n \in StartedBy(o)
           /\ \A w \in Runners : <<"run", w>> \in Claims(o) <=> RunMayStart(w, o)
           /\ <<"waiting", o>> \in Claims(o) <=> job[o].waiting /\ Open(o)
           /\ <<"retry", o>> \in Claims(o) <=> job[o].retry # 0 /\ Open(o)
           /\ <<"request", o>> \in Claims(o) <=> RequestMayStart(o)
  BY DEF Claims

LEMMA ClaimInNext ==
    ASSUME NEW o
    PROVE  /\ \A n : <<"build", n>> \in Claims(o)' <=> n \in StartedBy(o)'
           /\ \A w \in Runners : <<"run", w>> \in Claims(o)' <=> RunMayStart(w, o)'
           /\ <<"waiting", o>> \in Claims(o)' <=> job'[o].waiting /\ Open(o)'
           /\ <<"retry", o>> \in Claims(o)' <=> job'[o].retry # 0 /\ Open(o)'
           /\ <<"request", o>> \in Claims(o)' <=> RequestMayStart(o)'
  BY DEF Claims

\* No claim is new but perhaps y.
Near(o, y) == Claims(o)' \subseteq Claims(o) \cup {y}

LEMMA NearBy ==
    ASSUME NEW o, NEW y,
           \A n \in StartedBy(o)' : n \in StartedBy(o) \/ y = <<"build", n>>,
           \A w \in Runners : RunMayStart(w, o)' => RunMayStart(w, o) \/ y = <<"run", w>>,
           job'[o].waiting /\ Open(o)' => (job[o].waiting /\ Open(o)) \/ y = <<"waiting", o>>,
           job'[o].retry # 0 /\ Open(o)' => (job[o].retry # 0 /\ Open(o)) \/ y = <<"retry", o>>,
           RequestMayStart(o)' => RequestMayStart(o)
    PROVE  Near(o, y)
<1> SUFFICES ASSUME NEW c \in Claims(o)' PROVE c \in Claims(o) \/ c = y
  BY DEF Near
<1>1. \/ \E n \in StartedBy(o)' : c = <<"build", n>>
      \/ \E w \in Runners : RunMayStart(w, o)' /\ c = <<"run", w>>
      \/ job'[o].waiting /\ Open(o)' /\ c = <<"waiting", o>>
      \/ job'[o].retry # 0 /\ Open(o)' /\ c = <<"retry", o>>
      \/ RequestMayStart(o)' /\ c = <<"request", o>>
  BY DEF Claims
<1>2. CASE \E n \in StartedBy(o)' : c = <<"build", n>>
  BY <1>2, ClaimIn
<1>3. CASE \E w \in Runners : RunMayStart(w, o)' /\ c = <<"run", w>>
  BY <1>3, ClaimIn
<1>4. CASE job'[o].waiting /\ Open(o)' /\ c = <<"waiting", o>>
  BY <1>4, ClaimIn
<1>5. CASE job'[o].retry # 0 /\ Open(o)' /\ c = <<"retry", o>>
  BY <1>5, ClaimIn
<1>6. CASE RequestMayStart(o)' /\ c = <<"request", o>>
  BY <1>6, ClaimIn
<1> QED
  BY <1>1, <1>2, <1>3, <1>4, <1>5, <1>6

\* What is over for an operation stays so.
LEMMA OpenKept == ASSUME Forward, NEW o \in Requests, Open(o)' PROVE Open(o)
  BY DEF Forward, Open

\* Who writes the progress of a call.
LEMMA CallCases ==
    ASSUME TypeOK, [Next]_vars, NEW c \in Callers, call'[c] # call[c]
    PROVE  \/ c \in Requests /\ (JoinActive(c) \/ DirectDeployAnswered(c) \/ RequestCrash(c))
           \/ c \in Runners /\ \/ ReadSite(c) \/ NotTriggered(c) \/ RecordStart(c)
                               \/ Respond(c) \/ CatchError(c) \/ RunCrash(c)
           \/ HostingAccepts(c) \/ HostingRefuses(c) \/ AnswerLost(c)
<1>0. call' # call
  OBVIOUS
<1>1. ASSUME NEW r \in Requests, JoinActive(r) \/ DirectDeployAnswered(r) \/ RequestCrash(r) PROVE c = r
  BY <1>0, <1>1 DEF JoinActive, DirectDeployAnswered, RequestCrash, TypeOK, Callers
<1>2. ASSUME NEW w \in Runners, ReadSite(w) \/ NotTriggered(w) \/ RecordStart(w) PROVE c = w
  BY <1>0, <1>2 DEF ReadSite, NotTriggered, RecordStart, TypeOK, Callers
<1>3. ASSUME NEW w \in Runners, Respond(w) \/ CatchError(w) \/ RunCrash(w) PROVE c = w
  <2>1. call' = [call EXCEPT ![w] = NoCall]
    BY <1>3 DEF Respond, CatchError, RunCrash, Answer
  <2> QED
    BY <2>1 DEF TypeOK, Callers
<1>4. ASSUME NEW d \in Callers, HostingAccepts(d) \/ HostingRefuses(d) \/ AnswerLost(d) PROVE c = d
  BY <1>4, HostingCall
<1>5. ASSUME \/ \E r \in Requests : \/ Arrive(r) \/ LockApp(r) \/ FindNone(r) \/ InsertOperation(r) \/ EnqueueFirstRun(r)
                                    \/ EnqueueFails(r) \/ HourPasses(r)
             \/ \E n \in DOMAIN builds : BuildStarts(n) \/ BuildEnds(n)
             \/ UNCHANGED vars
      PROVE  call' = call
  BY <1>5 DEF Arrive, LockApp, FindNone, InsertOperation, EnqueueFirstRun, EnqueueFails, HourPasses, BuildStarts,
     BuildEnds, vars
<1>6. ASSUME \/ \E w \in Runners : \/ JobExpires(w) \/ ReadOperation(w) \/ StartOperation(w) \/ AlreadyFinished(w)
                                   \/ Triggered(w) \/ FollowBuild(w) \/ Succeed(w) \/ MergeMessage(w) \/ Fail(w)
                                   \/ Requeue(w) \/ RunThrows(w)
             \/ \E w \in Runners, o \in Requests : FetchJob(w, o)
      PROVE  call' = call
  BY <1>6 DEF JobExpires, ReadOperation, StartOperation, AlreadyFinished, Triggered, FollowBuild, Succeed,
     MergeMessage, Fail, Requeue, RunThrows, FetchJob
<1> QED
  BY NextCases, <1>0, <1>1, <1>2, <1>3, <1>4, <1>5, <1>6

\* A request gets no new claim.
LEMMA RequestKept ==
    ASSUME TypeOK, [Next]_vars, NEW o \in Requests, RequestMayStart(o)'
    PROVE  RequestMayStart(o)
<1>1. RequestMoves(o) /\ request[o].pc \in {"new", "lock", "find", "insert", "enqueue", "direct", "done"}
  BY AskStep DEF TypeOK, RequestType
<1>2. InsertOperation(o) => request[o].pc = "insert"
  BY DEF InsertOperation
<1>3. CASE request'[o].pc \in {"new", "lock", "find", "insert", "enqueue"}
  BY <1>1, <1>2, <1>3 DEF RequestMayStart, RequestMoves
<1>4. CASE request'[o].pc = "direct" /\ call'[o].build = 0
  <2>1. JoinActive(o) => request[o].pc = "find"
    BY DEF JoinActive
  <2>2. CASE request[o].pc = "direct"
    <3>1. ~JoinActive(o)
      BY <2>1, <2>2
    <3>2. DirectDeployAnswered(o) \/ RequestCrash(o) => request'[o].pc = "done"
      BY SetRequestAlone DEF DirectDeployAnswered, RequestCrash
    <3>3. o \in Callers /\ o \notin Runners
      BY DeployAssumption DEF Callers
    <3>4. call[o].build = 0
      BY <1>4, <3>1, <3>2, <3>3, CallCases, HostingCall
    <3> QED
      BY <2>2, <3>4 DEF RequestMayStart
  <2> QED
    BY <1>1, <1>4, <2>1, <2>2 DEF RequestMayStart, RequestMoves
<1> QED
  BY <1>3, <1>4 DEF RequestMayStart


\* Who writes what a handler of the run route has read.
LEMMA RunCases ==
    ASSUME TypeOK, [Next]_vars, NEW w \in Runners, run'[w] # run[w]
    PROVE  \/ JobExpires(w) \/ ReadOperation(w) \/ StartOperation(w) \/ AlreadyFinished(w) \/ ReadSite(w)
           \/ Triggered(w) \/ NotTriggered(w) \/ RecordStart(w) \/ FollowBuild(w) \/ Succeed(w) \/ MergeMessage(w)
           \/ Fail(w) \/ Requeue(w) \/ Respond(w) \/ CatchError(w) \/ RunThrows(w) \/ RunCrash(w)
           \/ \E o \in Requests : FetchJob(w, o)
<1>0. run' # run
  OBVIOUS
<1>1. ASSUME \/ \E r \in Requests : \/ Arrive(r) \/ LockApp(r) \/ JoinActive(r) \/ FindNone(r) \/ InsertOperation(r)
                                    \/ EnqueueFirstRun(r) \/ EnqueueFails(r) \/ DirectDeployAnswered(r)
                                    \/ RequestCrash(r) \/ HourPasses(r)
             \/ \E c \in Callers : HostingAccepts(c) \/ HostingRefuses(c) \/ AnswerLost(c)
             \/ \E n \in DOMAIN builds : BuildStarts(n) \/ BuildEnds(n)
             \/ UNCHANGED vars
      PROVE  run' = run
  BY <1>1 DEF Arrive, LockApp, JoinActive, FindNone, InsertOperation, EnqueueFirstRun, EnqueueFails,
     DirectDeployAnswered, RequestCrash, HourPasses, HostingAccepts, HostingRefuses, AnswerLost, BuildStarts,
     BuildEnds, vars
<1>2. ASSUME NEW v \in Runners, JobExpires(v) PROVE v = w
  BY <1>2, ExpireFacts
<1>3. ASSUME NEW v \in Runners, ReadOperation(v) PROVE v = w
  BY <1>3, ReadFacts
<1>4. ASSUME NEW v \in Runners, NEW o \in Requests, FetchJob(v, o) PROVE v = w
  BY <1>4, FetchFacts
<1>5. ASSUME NEW v \in Runners, Respond(v) \/ CatchError(v) \/ RunCrash(v) PROVE v = w
  <2>1. \E ok \in BOOLEAN : Answer(v, ok)
    BY <1>5 DEF Respond, CatchError, RunCrash
  <2> QED
    BY <2>1, AnswerFacts
<1>6. ASSUME NEW v \in Runners,
             \/ StartOperation(v) \/ AlreadyFinished(v) \/ ReadSite(v) \/ Triggered(v) \/ NotTriggered(v)
             \/ RecordStart(v) \/ FollowBuild(v) \/ Succeed(v) \/ MergeMessage(v) \/ Fail(v) \/ Requeue(v)
             \/ RunThrows(v)
      PROVE  v = w
  <2>1. (\E pc : Goto(v, pc)) \/ (\E pc, m : Leave(v, pc, m))
    BY <1>6 DEF StartOperation, AlreadyFinished, ReadSite, Triggered, NotTriggered, RecordStart, FollowBuild,
       Succeed, MergeMessage, Fail, Requeue, RunThrows
  <2> QED
    BY <2>1, GotoFacts, LeaveFacts
<1> QED
  BY NextCases, <1>0, <1>1, <1>2, <1>3, <1>4, <1>5, <1>6

\* An operation that is still active was, if a handler works for it.
LEMMA ActiveKept ==
    ASSUME TypeOK, SourceInv, Forward, NEW w \in Runners, run[w].pc # "idle", NEW o, o = run[w].op, status'[o] \in Active
    PROVE  status[o] \in Active
<1>1. o \in Requests /\ status[o] # "none" /\ status[o] \in Statuses
  BY DEF TypeOK, RunnersBusy, SourceInv, RunOK
<1> QED
  BY <1>1 DEF Forward, Statuses, Active, Past

\* A handler gets no new claim, unless it takes a job or throws.
LEMMA RunStays ==
    ASSUME TypeOK, SourceInv, Forward, [Next]_vars, NEW w \in Runners, NEW o \in Requests, run'[w] = run[w], RunMayStart(w, o)'
    PROVE  RunMayStart(w, o)
<1>1. run[w].op = o
  BY DEF RunMayStart
<1>2. CASE run[w].pc \in {"read", "site"} \/ (run[w].pc = "catch" /\ run[w].attached)
  BY <1>1, <1>2, OpenKept DEF RunMayStart
<1>3. CASE run[w].pc = "start"
  BY <1>1, <1>3, ActiveKept DEF RunMayStart
<1>4. CASE run[w].pc = "trigger"
  <2>1. call'[w].build = 0 /\ w \in Callers /\ w \notin Requests
    BY <1>4, DeployAssumption DEF RunMayStart, Callers
  <2>2. ASSUME NotTriggered(w) PROVE FALSE
    <3>1. \E m : \E pc \in {"catch", "fail"} : Leave(w, pc, m)
      BY <2>2 DEF NotTriggered
    <3> QED
      BY <1>4, <3>1, LeaveFacts
  <2>3. ASSUME RunCrash(w) PROVE FALSE
    <3>1. run'[w] = IdleRun
      BY <2>3, AnswerFacts DEF RunCrash
    <3> QED
      BY <1>4, <3>1 DEF IdleRun
  <2>4. ~ReadSite(w) /\ ~RecordStart(w) /\ ~Respond(w) /\ ~CatchError(w)
    BY <1>4 DEF ReadSite, RecordStart, Respond, CatchError
  <2>5. call[w].build = 0
    BY <2>1, <2>2, <2>3, <2>4, CallCases, HostingCall
  <2> QED
    BY <1>1, <1>4, <2>5 DEF RunMayStart
<1> QED
  BY <1>2, <1>3, <1>4 DEF RunMayStart

LEMMA RunClaims ==
    ASSUME IInv, SourceInv, [Next]_vars, NEW w \in Runners, NEW o \in Requests, RunMayStart(w, o)'
    PROVE  RunMayStart(w, o) \/ FetchJob(w, o) \/ RunThrows(w)
<1>1. TypeOK /\ Forward
  BY ForwardStep DEF IInv
<1>2. CASE run'[w] = run[w]
  BY <1>1, <1>2, RunStays
<1>3. ASSUME NEW p \in Requests, FetchJob(w, p) PROVE p = o
  BY <1>1, <1>3, FetchFacts DEF RunMayStart
<1>4. CASE Respond(w) \/ CatchError(w) \/ RunCrash(w)
  <2>1. \E ok \in BOOLEAN : Answer(w, ok)
    BY <1>4 DEF Respond, CatchError, RunCrash
  <2>2. run'[w].pc = "idle"
    BY <1>1, <2>1, AnswerFacts DEF IdleRun
  <2> QED
    BY <2>2 DEF RunMayStart
<1>5. CASE AlreadyFinished(w) \/ RecordStart(w) \/ FollowBuild(w) \/ MergeMessage(w) \/ Fail(w) \/ Requeue(w)
  <2>1. \E m : \E pc \in {"respond", "succeed", "requeue", "fail"} : Leave(w, pc, m)
    BY <1>5 DEF AlreadyFinished, RecordStart, FollowBuild, MergeMessage, Fail, Requeue
  <2>2. run'[w].pc \in {"respond", "succeed", "requeue", "fail"}
    BY <1>1, <2>1, LeaveFacts
  <2> QED
    BY <2>2 DEF RunMayStart
<1>6. CASE Triggered(w) \/ Succeed(w)
  <2>1. Goto(w, "merge") \/ Goto(w, "message") \/ \E m : Leave(w, "respond", m)
    BY <1>6 DEF Triggered, Succeed
  <2>2. run'[w].pc \in {"merge", "message", "respond"}
    BY <1>1, <2>1, LeaveFacts, GotoFacts
  <2> QED
    BY <2>2 DEF RunMayStart
<1>7. CASE JobExpires(w)
  <2>1. /\ run[w].pc # "idle" /\ run[w].attached /\ run[w].op = o
        /\ run'[w].pc = run[w].pc /\ ~run'[w].attached /\ run'[w].recorded = run[w].recorded
    BY <1>1, <1>7, ExpireFacts DEF RunMayStart
  <2>2. call' = call
    BY <1>7 DEF JobExpires
  <2>3. status'[o] \in Active => status[o] \in Active
    BY <1>1, <2>1, ActiveKept
  <2>4. Open(o)' => Open(o)
    BY <1>1, OpenKept
  <2> QED
    BY <2>1, <2>2, <2>3, <2>4 DEF RunMayStart
<1>8. CASE ReadOperation(w)
  <2>1. /\ run[w].pc = "read" /\ run'[w].pc = "start" /\ run[w].op = o
        /\ run'[w].recorded = recorded[o]
    BY <1>1, <1>8, ReadFacts DEF RunMayStart
  <2>2. status[o] \in Active /\ ~recorded[o].done
    BY <1>1, <2>1, ActiveKept DEF RunMayStart
  <2> QED
    BY <2>1, <2>2 DEF RunMayStart, Open, Active, Past
<1>9. CASE StartOperation(w)
  <2>1. /\ run[w].pc = "start" /\ status[run[w].op] \in Active
        /\ (Goto(w, "follow") /\ run[w].recorded.done) \/ (Goto(w, "site") /\ ~run[w].recorded.done)
    BY <1>9 DEF StartOperation
  <2>2. run'[w].op = run[w].op /\ run'[w].pc \in {"follow", "site"} /\ (run'[w].pc = "site" => ~run[w].recorded.done)
    BY <1>1, <2>1, GotoFacts
  <2> QED
    BY <2>1, <2>2 DEF RunMayStart
<1>10. CASE ReadSite(w)
  <2>1. run[w].pc = "site" /\ (Goto(w, "trigger") \/ Leave(w, "fail", "nothingDeployed"))
    BY <1>10 DEF ReadSite
  <2>2. run'[w].op = run[w].op
    BY <1>1, <2>1, GotoFacts, LeaveFacts
  <2> QED
    BY <2>1, <2>2 DEF RunMayStart
<1>11. CASE NotTriggered(w)
  <2>1. /\ run[w].pc = "trigger" /\ call[w].build = 0
        /\ \E m : \E pc \in {"catch", "fail"} : Leave(w, pc, m)
    BY <1>11 DEF NotTriggered
  <2>2. run'[w].op = run[w].op
    BY <1>1, <2>1, LeaveFacts
  <2> QED
    BY <2>1, <2>2 DEF RunMayStart
<1> QED
  BY <1>1, <1>2, <1>3, <1>4, <1>5, <1>6, <1>7, <1>8, <1>9, <1>10, <1>11, RunCases


\* Where a new deployment and a new job come from.
LEMMA BuildClaims ==
    ASSUME TypeOK, SourceInv, [Next]_vars, NEW o, NEW n \in StartedBy(o)', n \notin StartedBy(o)
    PROVE  \E c \in Callers : (HostingAccepts(c) \/ AnswerLost(c)) /\ OpOf(c) = o /\ n = Len(builds) + 1
<1>0. n \in DOMAIN builds' /\ builds'[n].by = o
  BY DEF StartedBy
<1>1. CASE UNCHANGED builds
  BY <1>0, <1>1 DEF StartedBy
<1>2. ASSUME NEW m \in DOMAIN builds, BuildStarts(m) \/ BuildEnds(m) PROVE FALSE
  <2>1. DOMAIN builds' = DOMAIN builds /\ \A k \in DOMAIN builds : builds'[k].by = builds[k].by
    <3>1. CASE BuildStarts(m)
      <4>1. builds' = [builds EXCEPT ![m].state = "building", ![m].commit = head[builds[m].app]]
        BY <3>1 DEF BuildStarts
      <4> QED
        BY <4>1, CommitSet
    <3>2. CASE BuildEnds(m)
      <4>1. PICK end : builds' = [builds EXCEPT ![m].state = end]
        BY <3>2 DEF BuildEnds
      <4> QED
        BY <4>1, StateSet
    <3> QED
      BY <1>2, <3>1, <3>2
  <2> QED
    BY <1>0, <2>1 DEF StartedBy
<1>3. ASSUME NEW m \in DOMAIN builds, NEW row, builds' = [builds EXCEPT ![m].row = row] PROVE FALSE
  BY <1>0, <1>3, RowSet DEF StartedBy
<1>4. ASSUME NEW c \in Callers, HostingAccepts(c) \/ AnswerLost(c), NewBuild(c) \in BuildType,
             builds' = Append(builds, NewBuild(c))
      PROVE  OpOf(c) = o /\ n = Len(builds) + 1
  <2>1. n \in DOMAIN builds \/ n = Len(builds) + 1
    BY <1>0, <1>4, AddBuild
  <2>2. n \notin DOMAIN builds
    BY <1>0, <1>4, AddBuild DEF StartedBy
  <2>3. NewBuild(c).by = OpOf(c)
    BY DEF NewBuild
  <2> QED
    BY <1>0, <1>4, <2>1, <2>2, <2>3, AddBuild
<1> QED
  BY BuildStep, <1>1, <1>2, <1>3, <1>4

\* A job that failed stays waiting if it was; one that was answered gets no retry.
LEMMA AnswerJob ==
    ASSUME TypeOK, NEW w \in Runners, run[w].op \in Requests, NEW o \in Requests,
           (\E ok \in BOOLEAN : Answer(w, ok)) \/ JobExpires(w)
    PROVE  /\ job'[o].waiting = job[o].waiting
           /\ job'[o].retry # 0 => job[o].retry # 0 \/ (run[w].op = o /\ run[w].attached)
<1>1. job[o] \in JobType /\ job[run[w].op] \in JobType
  BY DEF TypeOK
<1>2. JobFailed(job[o]).waiting = job[o].waiting
  BY <1>1 DEF JobFailed, JobType
<1>3. /\ [job[o] EXCEPT !.active = 0].waiting = job[o].waiting
      /\ [job[o] EXCEPT !.active = 0].retry = job[o].retry
  BY <1>1 DEF JobType
<1>4. ASSUME NEW j, job' = [job EXCEPT ![run[w].op] = j], run[w].attached,
             run[w].op = o => j.waiting = job[o].waiting
      PROVE  /\ job'[o].waiting = job[o].waiting
             /\ job'[o].retry # 0 => job[o].retry # 0 \/ (run[w].op = o /\ run[w].attached)
  BY <1>1, <1>4 DEF TypeOK
<1>5. CASE JobExpires(w)
  <2>1. job' = [job EXCEPT ![run[w].op] = JobFailed(job[run[w].op])] /\ run[w].attached
    BY <1>5 DEF JobExpires
  <2> QED
    BY <1>2, <1>4, <2>1
<1>6. ASSUME NEW ok \in BOOLEAN, Answer(w, ok)
      PROVE  /\ job'[o].waiting = job[o].waiting
             /\ job'[o].retry # 0 => job[o].retry # 0 \/ (run[w].op = o /\ run[w].attached)
  <2>1. CASE ~run[w].attached
    BY <1>6, <2>1 DEF Answer
  <2>2. CASE run[w].attached /\ ok
    <3>1. job' = [job EXCEPT ![run[w].op] = [job[run[w].op] EXCEPT !.active = 0]]
      BY <1>6, <2>2 DEF Answer
    <3> QED
      BY <1>3, <1>4, <2>2, <3>1
  <2>3. CASE run[w].attached /\ ~ok
    <3>1. job' = [job EXCEPT ![run[w].op] = JobFailed(job[run[w].op])]
      BY <1>6, <2>3 DEF Answer
    <3> QED
      BY <1>2, <1>4, <2>3, <3>1
  <2> QED
    BY <2>1, <2>2, <2>3
<1> QED
  BY <1>5, <1>6

LEMMA JobClaims ==
    ASSUME TypeOK, [Next]_vars, NEW o \in Requests
    PROVE  /\ job'[o].waiting => \/ job[o].waiting
                                 \/ EnqueueFirstRun(o)
                                 \/ \E w \in Runners : Requeue(w) /\ run[w].op = o
           /\ job'[o].retry # 0 => \/ job[o].retry # 0
                                   \/ \E w \in Runners : /\ JobExpires(w) \/ CatchError(w) \/ RunCrash(w)
                                                         /\ run[w].op = o /\ run[w].attached
<1>0. job[o] \in JobType
  BY DEF TypeOK
<1>1. CASE job' = job
  BY <1>1
<1>2. ASSUME NEW p \in Requests, job' = [job EXCEPT ![p].waiting = TRUE] PROVE job'[o].retry = job[o].retry /\ (p # o => job'[o].waiting = job[o].waiting)
  BY <1>0, <1>2 DEF TypeOK, JobType
<1>3. ASSUME NEW r \in Requests, EnqueueFirstRun(r)
      PROVE  /\ job'[o].waiting => job[o].waiting \/ EnqueueFirstRun(o)
             /\ job'[o].retry # 0 => job[o].retry # 0
  <2>1. job' = [job EXCEPT ![r].waiting = TRUE]
    BY <1>3 DEF EnqueueFirstRun, EnqueueOperationRun
  <2> QED
    BY <1>2, <1>3, <2>1
<1>4. ASSUME NEW w \in Runners, Requeue(w)
      PROVE  /\ job'[o].waiting => job[o].waiting \/ (Requeue(w) /\ run[w].op = o)
             /\ job'[o].retry # 0 => job[o].retry # 0
  <2>1. job' = [job EXCEPT ![run[w].op].waiting = TRUE] /\ run[w].op \in Requests
    BY <1>4 DEF Requeue, EnqueueOperationRun, TypeOK, RunnersBusy
  <2> QED
    BY <1>2, <1>4, <2>1
<1>5. ASSUME NEW w \in Runners, NEW p \in Requests, FetchJob(w, p)
      PROVE  (job'[o].waiting => job[o].waiting) /\ (job'[o].retry # 0 => job[o].retry # 0)
  <2>1. \/ job' = [job EXCEPT ![p].waiting = FALSE, ![p].active = 1]
        \/ job' = [job EXCEPT ![p].retry = 0, ![p].active = job[p].retry]
    BY <1>5 DEF FetchJob
  <2>2. ASSUME NEW n, job' = [job EXCEPT ![p] = [job[p] EXCEPT !.waiting = FALSE, !.active = n]]
        PROVE  (job'[o].waiting => job[o].waiting) /\ job'[o].retry = job[o].retry
    BY <1>0, <2>2 DEF TypeOK, JobType
  <2>3. ASSUME NEW n, job' = [job EXCEPT ![p] = [job[p] EXCEPT !.retry = 0, !.active = n]]
        PROVE  job'[o].waiting = job[o].waiting /\ (job'[o].retry # 0 => job[o].retry # 0)
    BY <1>0, <2>3 DEF TypeOK, JobType
  <2> QED
    BY <2>1, <2>2, <2>3
<1>6. ASSUME NEW w \in Runners, Respond(w) PROVE job'[o].waiting = job[o].waiting /\ (job'[o].retry # 0 => job[o].retry # 0)
  <2>1. Answer(w, TRUE) /\ run[w].op \in Requests
    BY <1>6 DEF Respond, TypeOK, RunnersBusy
  <2>2. job'[o].waiting = job[o].waiting
    BY <2>1, AnswerJob
  <2>3. job'[o].retry = job[o].retry
    <3>1. job' = job \/ job' = [job EXCEPT ![run[w].op] = [job[run[w].op] EXCEPT !.active = 0]]
      BY <2>1 DEF Answer
    <3>2. [job[o] EXCEPT !.active = 0].retry = job[o].retry
      BY <1>0 DEF JobType
    <3> QED
      BY <2>1, <3>1, <3>2 DEF TypeOK
  <2> QED
    BY <2>2, <2>3
<1>7. ASSUME NEW w \in Runners, JobExpires(w) \/ CatchError(w) \/ RunCrash(w)
      PROVE  /\ job'[o].waiting = job[o].waiting
             /\ job'[o].retry # 0 => job[o].retry # 0 \/ (run[w].op = o /\ run[w].attached)
  <2>1. run[w].op \in Requests /\ ((\E ok \in BOOLEAN : Answer(w, ok)) \/ JobExpires(w))
    BY <1>7 DEF CatchError, RunCrash, JobExpires, TypeOK, RunnersBusy
  <2> QED
    BY <2>1, AnswerJob
<1>8. ASSUME \/ \E r \in Requests : \/ Arrive(r) \/ LockApp(r) \/ JoinActive(r) \/ FindNone(r) \/ InsertOperation(r)
                                    \/ EnqueueFails(r) \/ DirectDeployAnswered(r) \/ RequestCrash(r) \/ HourPasses(r)
             \/ \E c \in Callers : HostingAccepts(c) \/ HostingRefuses(c) \/ AnswerLost(c)
             \/ \E n \in DOMAIN builds : BuildStarts(n) \/ BuildEnds(n)
             \/ UNCHANGED vars
      PROVE  job' = job
  BY <1>8 DEF Arrive, LockApp, JoinActive, FindNone, InsertOperation, EnqueueFails, DirectDeployAnswered,
     RequestCrash, HourPasses, HostingAccepts, HostingRefuses, AnswerLost, BuildStarts, BuildEnds, vars
<1>9. ASSUME \E w \in Runners : \/ ReadOperation(w) \/ StartOperation(w) \/ AlreadyFinished(w) \/ ReadSite(w) \/ Triggered(w)
                                \/ NotTriggered(w) \/ RecordStart(w) \/ FollowBuild(w) \/ Succeed(w) \/ MergeMessage(w)
                                \/ Fail(w) \/ RunThrows(w)
      PROVE  job' = job
  BY <1>9 DEF ReadOperation, StartOperation, AlreadyFinished, ReadSite, Triggered, NotTriggered, RecordStart,
     FollowBuild, Succeed, MergeMessage, Fail, RunThrows
<1> QED
  BY NextCases, <1>1, <1>3, <1>4, <1>5, <1>6, <1>7, <1>8, <1>9


\* A fault that can make a step run again, or leaves a deployment nobody knows of.
Harm == faults' = faults + 1 /\ ~(FaultKinds \subseteq Harmless)

LEMMA HarmFacts ==
    ASSUME \/ \E c \in Callers : AnswerLost(c)
           \/ \E w \in Runners : JobExpires(w) \/ RunThrows(w) \/ RunCrash(w)
    PROVE  Harm
<1>1. \E k \in {"lostAnswer", "lateOriginal", "runThrows", "runCrash"} : Fault(k)
  BY DEF AnswerLost, JobExpires, RunThrows, RunCrash
<1> QED
  BY <1>1 DEF Fault, Harm, Harmless

LEMMA FaultsKept == ASSUME TypeOK, [Next]_vars PROVE faults \in Nat /\ (faults' = faults \/ faults' = faults + 1)
<1>1. faults \in Nat
  BY DeployAssumption DEF TypeOK
<1>2. ASSUME \/ \E r \in Requests : EnqueueFails(r) \/ RequestCrash(r)
             \/ \E c \in Callers : AnswerLost(c)
             \/ \E w \in Runners : JobExpires(w) \/ RunThrows(w) \/ RunCrash(w) \/ CatchError(w)
      PROVE  faults' = faults \/ faults' = faults + 1
  BY <1>2 DEF EnqueueFails, RequestCrash, AnswerLost, JobExpires, RunThrows, RunCrash, CatchError, Fault
<1>3. ASSUME \/ \E r \in Requests : \/ Arrive(r) \/ LockApp(r) \/ JoinActive(r) \/ FindNone(r) \/ InsertOperation(r)
                                    \/ EnqueueFirstRun(r) \/ DirectDeployAnswered(r) \/ HourPasses(r)
             \/ \E w \in Runners, o \in Requests : FetchJob(w, o)
             \/ \E c \in Callers : HostingAccepts(c) \/ HostingRefuses(c)
             \/ \E n \in DOMAIN builds : BuildStarts(n) \/ BuildEnds(n)
             \/ UNCHANGED vars
      PROVE  faults' = faults
  BY <1>3 DEF Arrive, LockApp, JoinActive, FindNone, InsertOperation, EnqueueFirstRun, DirectDeployAnswered,
     HourPasses, FetchJob, HostingAccepts, HostingRefuses, BuildStarts, BuildEnds, vars
<1>4. ASSUME NEW w \in Runners,
             \/ ReadOperation(w) \/ StartOperation(w) \/ AlreadyFinished(w) \/ ReadSite(w) \/ Triggered(w)
             \/ NotTriggered(w) \/ RecordStart(w) \/ FollowBuild(w) \/ Succeed(w) \/ MergeMessage(w)
             \/ Fail(w) \/ Requeue(w) \/ Respond(w)
      PROVE  faults' = faults
  BY <1>4 DEF ReadOperation, StartOperation, AlreadyFinished, ReadSite, Triggered, NotTriggered, RecordStart,
     FollowBuild, Succeed, MergeMessage, Fail, Requeue, Respond
<1> QED
  BY NextCases, <1>1, <1>2, <1>3, <1>4

\* What a step does to the claims of o: it drops some, hands one on, or adds one by a harmful fault.
Keeps(o)   == Claims(o)' \subseteq Claims(o)
HandsOn(o) == \E x \in Claims(o) : x \notin Claims(o)' /\ \E y : Near(o, y)
Counted(o) == Keeps(o) \/ HandsOn(o) \/ (Harm /\ \E y : Near(o, y))

LEMMA KeepsBy ==
    ASSUME NEW o,
           StartedBy(o)' \subseteq StartedBy(o),
           \A w \in Runners : RunMayStart(w, o)' => RunMayStart(w, o),
           job'[o].waiting /\ Open(o)' => job[o].waiting /\ Open(o),
           job'[o].retry # 0 /\ Open(o)' => job[o].retry # 0 /\ Open(o),
           RequestMayStart(o)' => RequestMayStart(o)
    PROVE  Keeps(o)
<1>1. Near(o, 1) /\ Near(o, 2)
  BY NearBy
<1> QED
  BY <1>1 DEF Near, Keeps

\* The first run is queued: the request's claim is the job's.
LEMMA CountedEnqueue ==
    ASSUME IInv, SourceInv, [Next]_vars, NEW o \in Requests, EnqueueFirstRun(o)
    PROVE  HandsOn(o)
<1>1. TypeOK /\ Forward /\ (Open(o)' => Open(o)) /\ (RequestMayStart(o)' => RequestMayStart(o))
  BY ForwardStep, OpenKept, RequestKept DEF IInv
<1>2. run' = run /\ builds' = builds /\ request[o].pc = "enqueue" /\ request'[o].pc = "done"
  BY <1>1, SetRequestAlone DEF EnqueueFirstRun
<1>3. job'[o].retry # 0 => job[o].retry # 0
  <2>1. job' = [job EXCEPT ![o].waiting = TRUE] /\ job[o] \in JobType
    BY <1>1 DEF EnqueueFirstRun, EnqueueOperationRun, TypeOK
  <2> QED
    BY <2>1 DEF TypeOK, JobType
<1>4. StartedBy(o)' = StartedBy(o)
  BY <1>2 DEF StartedBy
<1>5. \A w \in Runners : RunMayStart(w, o)' => RunMayStart(w, o)
  BY <1>1, <1>2, RunStays
<1>6. Near(o, <<"waiting", o>>)
  BY <1>1, <1>3, <1>4, <1>5, NearBy
<1>7. <<"request", o>> \in Claims(o) /\ <<"request", o>> \notin Claims(o)'
  BY <1>2, ClaimIn, ClaimInNext DEF RequestMayStart
<1> QED
  BY <1>6, <1>7 DEF HandsOn

\* The worker takes a job: its claim is the handler's.
LEMMA CountedFetch ==
    ASSUME IInv, SourceInv, [Next]_vars, NEW o \in Requests, NEW w \in Runners, FetchJob(w, o)
    PROVE  Keeps(o) \/ HandsOn(o)
<1>1. TypeOK /\ Forward /\ (Open(o)' => Open(o)) /\ (RequestMayStart(o)' => RequestMayStart(o))
  BY ForwardStep, OpenKept, RequestKept DEF IInv
<1>2. /\ run'[w].pc = "read" /\ run[w].pc = "idle"
      /\ \A v \in Runners : v # w => run'[v] = run[v]
  BY <1>1, FetchFacts
<1>3. StartedBy(o)' = StartedBy(o)
  BY DEF StartedBy, FetchJob
<1>4. /\ job'[o].waiting => job[o].waiting
      /\ job'[o].retry # 0 => job[o].retry # 0
      /\ (job[o].waiting /\ ~job'[o].waiting) \/ (job[o].retry # 0 /\ job'[o].retry = 0)
  <2>1. \/ job[o].waiting /\ job' = [job EXCEPT ![o] = [job[o] EXCEPT !.waiting = FALSE, !.active = 1]]
        \/ job[o].retry # 0 /\ job' = [job EXCEPT ![o] = [job[o] EXCEPT !.retry = 0, !.active = job[o].retry]]
    BY DEF FetchJob
  <2>2. job[o] \in JobType /\ job \in [Requests -> JobType]
    BY <1>1 DEF TypeOK
  <2>3. ASSUME NEW n
        PROVE  /\ [job[o] EXCEPT !.waiting = FALSE, !.active = n].waiting = FALSE
               /\ [job[o] EXCEPT !.waiting = FALSE, !.active = n].retry = job[o].retry
               /\ [job[o] EXCEPT !.retry = 0, !.active = n].waiting = job[o].waiting
               /\ [job[o] EXCEPT !.retry = 0, !.active = n].retry = 0
    BY <2>2 DEF JobType
  <2>4. CASE job[o].waiting /\ job' = [job EXCEPT ![o] = [job[o] EXCEPT !.waiting = FALSE, !.active = 1]]
    BY <2>2, <2>3, <2>4
  <2>5. CASE job[o].retry # 0 /\ job' = [job EXCEPT ![o] = [job[o] EXCEPT !.retry = 0, !.active = job[o].retry]]
    BY <2>2, <2>3, <2>5
  <2> QED
    BY <2>1, <2>4, <2>5
<1>5. \A v \in Runners : v # w => (RunMayStart(v, o)' => RunMayStart(v, o))
  BY <1>1, <1>2, RunStays
<1>6. Near(o, <<"run", w>>)
  BY <1>1, <1>3, <1>4, <1>5, NearBy
<1>7. CASE ~RunMayStart(w, o)'
  BY <1>1, <1>3, <1>4, <1>5, <1>7, KeepsBy
<1>8. CASE RunMayStart(w, o)'
  <2>1. Open(o)
    BY <1>1, <1>2, <1>8 DEF RunMayStart
  <2>2. \/ <<"waiting", o>> \in Claims(o) /\ <<"waiting", o>> \notin Claims(o)'
        \/ <<"retry", o>> \in Claims(o) /\ <<"retry", o>> \notin Claims(o)'
    BY <1>4, <2>1, ClaimIn, ClaimInNext
  <2> QED
    BY <1>6, <2>2 DEF HandsOn
<1> QED
  BY <1>7, <1>8


\* Hosting accepts: the claim of whoever asked is the deployment's.
LEMMA CountedAccept ==
    ASSUME IInv, SourceInv, [Next]_vars, NEW o \in Requests, NEW c \in Callers, HostingAccepts(c), OpOf(c) = o
    PROVE  HandsOn(o)
<1>1. TypeOK /\ Forward /\ (Open(o)' => Open(o)) /\ (RequestMayStart(o)' => RequestMayStart(o))
  BY ForwardStep, OpenKept, RequestKept DEF IInv
<1>2. run' = run /\ job' = job /\ request' = request
  BY DEF HostingAccepts, askVars
<1>3. call[c].entry # 0 /\ call[c].build = 0 /\ call'[c].build # 0
  <2>1. Len(builds) \in Nat
    BY <1>1, BuildFacts
  <2> QED
    BY <1>1, <2>1, HostingCall
<1>4. \A w \in Runners : RunMayStart(w, o)' => RunMayStart(w, o)
  BY <1>1, <1>2, RunStays
<1>5. builds' = Append(builds, NewBuild(c)) /\ NewBuild(c) \in BuildType
  BY <1>1, NewBuildType DEF HostingAccepts
<1>6. \A n \in StartedBy(o)' : n \in StartedBy(o) \/ n = Len(builds) + 1
  BY <1>1, <1>5, AddBuild DEF StartedBy
<1>7. Near(o, <<"build", Len(builds) + 1>>)
  BY <1>1, <1>2, <1>4, <1>6, NearBy
<1>8. CASE c \in Requests
  <2>1. c = o /\ request[o].pc = "direct"
    BY <1>3, <1>8 DEF OpOf, SourceInv, CallOK
  <2>2. <<"request", o>> \in Claims(o) /\ <<"request", o>> \notin Claims(o)'
    BY <1>2, <1>3, <2>1, ClaimIn, ClaimInNext DEF RequestMayStart
  <2> QED
    BY <1>7, <2>2 DEF HandsOn
<1>9. CASE c \notin Requests
  <2>1. c \in Runners /\ run[c].op = o /\ run[c].pc = "trigger"
    BY <1>3, <1>9 DEF OpOf, Callers, SourceInv, CallOK
  <2>2. <<"run", c>> \in Claims(o) /\ <<"run", c>> \notin Claims(o)'
    BY <1>2, <1>3, <2>1, ClaimIn, ClaimInNext DEF RunMayStart
  <2> QED
    BY <1>7, <2>2 DEF HandsOn
<1> QED
  BY <1>8, <1>9

\* An answer is lost: hosting may have taken the request, and the caller goes on asking.
LEMMA CountedLost ==
    ASSUME IInv, SourceInv, [Next]_vars, NEW o \in Requests, NEW c \in Callers, AnswerLost(c)
    PROVE  \E y : Near(o, y)
<1>1. TypeOK /\ Forward /\ (Open(o)' => Open(o)) /\ (RequestMayStart(o)' => RequestMayStart(o))
  BY ForwardStep, OpenKept, RequestKept DEF IInv
<1>2. run' = run /\ job' = job
  BY DEF AnswerLost
<1>3. \A w \in Runners : RunMayStart(w, o)' => RunMayStart(w, o)
  BY <1>1, <1>2, RunStays
<1>4. \A n \in StartedBy(o)' : n \in StartedBy(o) \/ n = Len(builds) + 1
  BY <1>1, BuildClaims
<1> QED
  BY <1>1, <1>2, <1>3, <1>4, NearBy

\* A handler is given up or dies: its job may be retried.
LEMMA CountedLeft ==
    ASSUME IInv, SourceInv, [Next]_vars, NEW o \in Requests, NEW w \in Runners,
           JobExpires(w) \/ RunCrash(w) \/ CatchError(w)
    PROVE  /\ Near(o, <<"retry", o>>)
           /\ job'[o].retry # 0 => job[o].retry # 0 \/ (run[w].op = o /\ run[w].attached)
<1>1. TypeOK /\ Forward /\ (Open(o)' => Open(o)) /\ (RequestMayStart(o)' => RequestMayStart(o))
  BY ForwardStep, OpenKept, RequestKept DEF IInv
<1>2. builds' = builds /\ run[w].pc # "idle" /\ run[w].op \in Requests
  BY <1>1 DEF JobExpires, RunCrash, CatchError, TypeOK, RunnersBusy
<1>3. StartedBy(o)' = StartedBy(o)
  BY <1>2 DEF StartedBy
<1>4. (\E ok \in BOOLEAN : Answer(w, ok)) \/ JobExpires(w)
  BY DEF JobExpires, RunCrash, CatchError
<1>5. /\ job'[o].waiting = job[o].waiting
      /\ job'[o].retry # 0 => job[o].retry # 0 \/ (run[w].op = o /\ run[w].attached)
  BY <1>1, <1>2, <1>4, AnswerJob
<1>6. \A v \in Runners : v # w => run'[v] = run[v]
  BY <1>1, <1>4, AnswerFacts, ExpireFacts
<1>7. \A v \in Runners : v # w => (RunMayStart(v, o)' => RunMayStart(v, o))
  BY <1>1, <1>6, RunStays
<1>8. RunMayStart(w, o)' => RunMayStart(w, o)
  <2>1. CASE \E ok \in BOOLEAN : Answer(w, ok)
    <3>1. run'[w].pc = "idle"
      BY <1>1, <2>1, AnswerFacts DEF IdleRun
    <3> QED
      BY <3>1 DEF RunMayStart
  <2>2. CASE JobExpires(w)
    <3>1. run'[w].pc = run[w].pc
      BY <1>1, <2>2, ExpireFacts
    <3>2. ~FetchJob(w, o)
      BY <1>2 DEF FetchJob
    <3>3. ASSUME RunThrows(w) PROVE FALSE
      <4>1. run[w].pc # "catch" /\ Leave(w, "catch", "none")
        BY <3>3 DEF RunThrows
      <4>2. run'[w].pc = "catch"
        BY <1>1, <4>1, LeaveFacts
      <4> QED
        BY <3>1, <4>1, <4>2
    <3> QED
      BY <3>2, <3>3, RunClaims
  <2> QED
    BY <1>4, <2>1, <2>2
<1>9. Near(o, <<"retry", o>>)
  BY <1>1, <1>3, <1>5, <1>7, <1>8, NearBy
<1> QED
  BY <1>5, <1>9

\* A step throws: the handler may ask for a retry of what it had done.
LEMMA CountedThrow ==
    ASSUME IInv, SourceInv, [Next]_vars, NEW o \in Requests, NEW w \in Runners, RunThrows(w)
    PROVE  Near(o, <<"run", w>>)
<1>1. TypeOK /\ Forward /\ (Open(o)' => Open(o)) /\ (RequestMayStart(o)' => RequestMayStart(o))
  BY ForwardStep, OpenKept, RequestKept DEF IInv
<1>2. builds' = builds /\ job' = job /\ Leave(w, "catch", "none")
  BY DEF RunThrows
<1>3. StartedBy(o)' = StartedBy(o)
  BY <1>2 DEF StartedBy
<1>4. \A v \in Runners : v # w => run'[v] = run[v]
  BY <1>1, <1>2, LeaveFacts
<1>5. \A v \in Runners : v # w => (RunMayStart(v, o)' => RunMayStart(v, o))
  BY <1>1, <1>4, RunStays
<1> QED
  BY <1>1, <1>2, <1>3, <1>5, NearBy

\* The catch asks for a retry: the handler's claim is the job's.
LEMMA CountedCatch ==
    ASSUME IInv, SourceInv, [Next]_vars, NEW o \in Requests, NEW w \in Runners, CatchError(w)
    PROVE  Keeps(o) \/ HandsOn(o)
<1>1. TypeOK /\ (Open(o)' => Open(o)) /\ run[w].pc = "catch" /\ run[w].op \in Requests
  BY ForwardStep, OpenKept DEF IInv, CatchError, TypeOK, RunnersBusy
<1>2. Near(o, <<"retry", o>>)
  BY CountedLeft
<1>3. CASE <<"retry", o>> \in Claims(o)' /\ <<"retry", o>> \notin Claims(o)
  <2>1. Open(o) /\ run[w].op = o /\ run[w].attached
    BY <1>1, <1>3, ClaimIn, ClaimInNext, CountedLeft
  <2>2. run'[w].pc = "idle"
    <3>1. \E ok \in BOOLEAN : Answer(w, ok)
      BY DEF CatchError
    <3> QED
      BY <1>1, <3>1, AnswerFacts DEF IdleRun
  <2>3. <<"run", w>> \in Claims(o) /\ <<"run", w>> \notin Claims(o)'
    BY <1>1, <2>1, <2>2, ClaimIn, ClaimInNext DEF RunMayStart
  <2> QED
    BY <1>2, <2>3 DEF HandsOn
<1>4. CASE ~(<<"retry", o>> \in Claims(o)' /\ <<"retry", o>> \notin Claims(o))
  BY <1>2, <1>4 DEF Near, Keeps
<1> QED
  BY <1>3, <1>4

LEMMA CountedStep == ASSUME IInv, SourceInv, [Next]_vars, NEW o \in Requests PROVE Counted(o)
<1>1. TypeOK /\ Forward /\ (Open(o)' => Open(o)) /\ (RequestMayStart(o)' => RequestMayStart(o))
  BY ForwardStep, OpenKept, RequestKept DEF IInv
<1>2. CASE \/ EnqueueFirstRun(o)
           \/ \E w \in Runners : FetchJob(w, o) \/ CatchError(w)
           \/ \E c \in Callers : HostingAccepts(c) /\ OpOf(c) = o
  BY <1>2, CountedEnqueue, CountedFetch, CountedCatch, CountedAccept DEF Counted
<1>3. CASE \/ \E c \in Callers : AnswerLost(c)
           \/ \E w \in Runners : JobExpires(w) \/ RunThrows(w) \/ RunCrash(w)
  <2>1. Harm
    BY <1>3, HarmFacts
  <2>2. \E y : Near(o, y)
    BY <1>3, CountedLost, CountedLeft, CountedThrow
  <2> QED
    BY <2>1, <2>2 DEF Counted
<1>4. CASE ~EnqueueFirstRun(o)
           /\ (\A w \in Runners : ~FetchJob(w, o) /\ ~CatchError(w) /\ ~JobExpires(w) /\ ~RunThrows(w) /\ ~RunCrash(w))
           /\ (\A c \in Callers : ~AnswerLost(c) /\ (HostingAccepts(c) => OpOf(c) # o))
  <2>1. StartedBy(o)' \subseteq StartedBy(o)
    BY <1>1, <1>4, BuildClaims
  <2>2. \A w \in Runners : RunMayStart(w, o)' => RunMayStart(w, o)
    BY <1>4, RunClaims
  <2>3. job'[o].waiting /\ Open(o)' => job[o].waiting /\ Open(o)
    <3>1. ASSUME NEW w \in Runners, Requeue(w), run[w].op = o PROVE ~Open(o)
      BY <3>1 DEF Requeue, SourceInv, RunOK
    <3> QED
      BY <1>1, <1>4, <3>1, JobClaims
  <2>4. job'[o].retry # 0 /\ Open(o)' => job[o].retry # 0 /\ Open(o)
    BY <1>1, <1>4, JobClaims
  <2> QED
    BY <1>1, <2>1, <2>2, <2>3, <2>4, KeepsBy DEF Counted
<1> QED
  BY <1>2, <1>3, <1>4


-----------------------------------------------------------------------------
(* Counting: the bound *)

\* A set that loses an element for each it may gain, and one that only gains.
LEMMA LosesOne ==
    ASSUME NEW S, IsFiniteSet(S), NEW T, NEW x \in S, x \notin T, NEW y, T \subseteq S \cup {y}
    PROVE  IsFiniteSet(T) /\ Cardinality(T) <= Cardinality(S)
<1> DEFINE R == S \ {x}
<1>1. IsFiniteSet(R) /\ Cardinality(R) = Cardinality(S) - 1
  BY FS_RemoveElement
<1>2. /\ IsFiniteSet(R \cup {y})
      /\ Cardinality(R \cup {y}) = Cardinality(R) \/ Cardinality(R \cup {y}) = Cardinality(R) + 1
  BY <1>1, FS_AddElement
<1>3. T \subseteq R \cup {y}
  OBVIOUS
<1>4. Cardinality(S) \in Nat /\ Cardinality(R) \in Nat
  BY <1>1, FS_CardinalityType
<1>5. IsFiniteSet(T) /\ Cardinality(T) <= Cardinality(R \cup {y}) /\ Cardinality(T) \in Nat
  BY <1>2, <1>3, FS_Subset, FS_CardinalityType
<1> HIDE DEF R
<1> QED
  BY <1>1, <1>2, <1>4, <1>5

LEMMA GainsOne ==
    ASSUME NEW S, IsFiniteSet(S), NEW T, NEW y, T \subseteq S \cup {y}
    PROVE  IsFiniteSet(T) /\ Cardinality(T) <= Cardinality(S) + 1
<1>1. /\ IsFiniteSet(S \cup {y}) /\ Cardinality(S) \in Nat
      /\ Cardinality(S \cup {y}) = Cardinality(S) \/ Cardinality(S \cup {y}) = Cardinality(S) + 1
  BY FS_AddElement, FS_CardinalityType
<1>2. IsFiniteSet(T) /\ Cardinality(T) <= Cardinality(S \cup {y}) /\ Cardinality(T) \in Nat
  BY <1>1, FS_Subset, FS_CardinalityType
<1> QED
  BY <1>1, <1>2

LEMMA CountInit == Init => CountInv
<1> SUFFICES ASSUME Init, NEW o \in Requests PROVE IsFiniteSet(Claims(o)) /\ Cardinality(Claims(o)) <= Allowed
  BY DEF CountInv
<1>1. Claims(o) \subseteq {<<"request", o>>}
  BY DEF Init, Claims, StartedBy, RunMayStart, IdleRun, NoJob
<1>2. IsFiniteSet({<<"request", o>>}) /\ Cardinality({<<"request", o>>}) = 1
  BY FS_Singleton
<1>3. IsFiniteSet(Claims(o)) /\ Cardinality(Claims(o)) <= 1
  BY <1>1, <1>2, FS_Subset
<1> QED
  BY <1>3 DEF Init, Allowed

LEMMA CountStep == IInv /\ SourceInv /\ CountInv /\ [Next]_vars => CountInv'
<1> SUFFICES ASSUME IInv, SourceInv, CountInv, [Next]_vars, NEW o \in Requests
             PROVE  IsFiniteSet(Claims(o)') /\ Cardinality(Claims(o)') <= Allowed'
  BY DEF CountInv
<1> DEFINE S == Claims(o)
           T == Claims(o)'
<1>1. faults \in Nat /\ (faults' = faults \/ faults' = faults + 1)
  BY FaultsKept DEF IInv
<1>2. IsFiniteSet(S) /\ Cardinality(S) \in Nat /\ Cardinality(S) <= Allowed
  BY FS_CardinalityType DEF CountInv
<1>3. Allowed \in Nat /\ Allowed' \in Nat /\ Allowed <= Allowed' /\ (Harm => Allowed' = Allowed + 1)
  BY <1>1 DEF Allowed, Harm
<1>4. CASE Keeps(o) \/ HandsOn(o)
  <2>1. IsFiniteSet(T) /\ Cardinality(T) <= Cardinality(S)
    BY <1>2, <1>4, LosesOne, FS_Subset DEF Keeps, HandsOn, Near
  <2>2. Cardinality(T) \in Nat
    BY <2>1, FS_CardinalityType
  <2> HIDE DEF S, T
  <2>3. Cardinality(T) <= Allowed'
    BY <1>2, <1>3, <2>1, <2>2
  <2> QED
    BY <2>1, <2>3 DEF T
<1>5. CASE Harm /\ \E y : Near(o, y)
  <2>1. IsFiniteSet(T) /\ Cardinality(T) <= Cardinality(S) + 1
    BY <1>2, <1>5, GainsOne DEF Near
  <2>2. Cardinality(T) \in Nat
    BY <2>1, FS_CardinalityType
  <2> HIDE DEF S, T
  <2>3. Cardinality(T) <= Allowed'
    BY <1>2, <1>3, <1>5, <2>1, <2>2
  <2> QED
    BY <2>1, <2>3 DEF T
<1> QED
  BY <1>4, <1>5, CountedStep DEF Counted

LEMMA CountAlways == Spec => [](IInv /\ SourceInv /\ CountInv)
<1>1. Spec => [](IInv /\ SourceInv)
  BY SourceAlways
<1>2. Init => CountInv
  BY CountInit
<1>3. IInv /\ SourceInv /\ CountInv /\ [Next]_vars => CountInv'
  BY CountStep
<1> QED
  BY <1>1, <1>2, <1>3, PTL DEF Spec

\* The deployments an operation started are among its claims.
LEMMA StartedFew ==
    ASSUME IInv, CountInv, NEW o \in Requests
    PROVE  Cardinality(StartedBy(o)) \in Nat /\ Cardinality(StartedBy(o)) <= Allowed
<1> DEFINE f == [n \in StartedBy(o) |-> <<"build", n>>]
<1>1. f \in Injection(StartedBy(o), Claims(o))
  BY DEF Claims, Injection, IsInjective
<1>2. IsFiniteSet(Claims(o)) /\ Cardinality(Claims(o)) <= Allowed
  BY DEF CountInv
<1>3. IsFiniteSet(StartedBy(o)) /\ Cardinality(StartedBy(o)) <= Cardinality(Claims(o))
  BY <1>1, <1>2, FS_Injection
<1>4. Cardinality(StartedBy(o)) \in Nat /\ Cardinality(Claims(o)) \in Nat
  BY <1>2, <1>3, FS_CardinalityType
<1>5. Allowed \in Nat
  BY DeployAssumption DEF Allowed, IInv, TypeOK
<1> QED
  BY <1>2, <1>3, <1>4, <1>5

\* Every deployment of an operation after its first needs a crash, an error, a late original or a lost answer
\* of its own (runSiteDeployStep, triggerCoolifyDeploy and the queue's retries together).
THEOREM ExtraDeploys == Spec => []ExtraDeploysNeedFaults
<1>1. IInv /\ CountInv => ExtraDeploysNeedFaults
  <2> SUFFICES ASSUME IInv, CountInv, NEW o \in Requests PROVE Cardinality(StartedBy(o)) <= 1 + faults
    BY DEF ExtraDeploysNeedFaults
  <2>1. faults \in Nat
    BY DeployAssumption DEF IInv, TypeOK
  <2> QED
    BY <2>1, StartedFew DEF Allowed
<1> QED
  BY CountAlways, <1>1, PTL

\* When only a web process dies between a request's steps or the queue refuses its first run, an operation starts
\* one deployment, ever.
THEOREM OnceEver == ASSUME FaultKinds \subseteq Harmless PROVE Spec => []DeployedOnce
<1>1. IInv /\ CountInv => DeployedOnce
  BY StartedFew DEF DeployedOnce, Allowed
<1> QED
  BY CountAlways, <1>1, PTL


-----------------------------------------------------------------------------
(* Refusals: who says that nothing was started gives up the one claim there was *)

Drops(o) == Keeps(o) /\ \E x \in Claims(o) : x \notin Claims(o)'

\* A request whose first run cannot be queued gives up its claim.
LEMMA DropsEnqueue ==
    ASSUME IInv, SourceInv, [Next]_vars, NEW o \in Requests, EnqueueFails(o)
    PROVE  Drops(o)
<1>1. TypeOK /\ Forward /\ (Open(o)' => Open(o)) /\ (RequestMayStart(o)' => RequestMayStart(o))
  BY ForwardStep, OpenKept, RequestKept DEF IInv
<1>2. /\ run' = run /\ builds' = builds /\ job' = job
      /\ request[o].pc = "enqueue" /\ request'[o].pc = "done"
  BY <1>1, SetRequestAlone DEF EnqueueFails
<1>3. StartedBy(o)' = StartedBy(o) /\ \A w \in Runners : RunMayStart(w, o)' => RunMayStart(w, o)
  BY <1>1, <1>2, RunStays DEF StartedBy
<1>4. <<"request", o>> \in Claims(o) /\ <<"request", o>> \notin Claims(o)'
  BY <1>2, ClaimIn, ClaimInNext DEF RequestMayStart
<1> QED
  BY <1>1, <1>2, <1>3, <1>4, KeepsBy DEF Drops

\* A handler that has not got a deployment and fails gives up its claim.
LEMMA DropsFail ==
    ASSUME IInv, SourceInv, [Next]_vars, NEW w \in Runners, ReadSite(w) \/ NotTriggered(w), NEW o, o = run[w].op,
           run'[w].pc = "fail"
    PROVE  o \in Requests /\ Drops(o)
<1>1. /\ TypeOK /\ Forward
      /\ run[w].pc = "site" \/ (run[w].pc = "trigger" /\ call[w].build = 0)
      /\ builds' = builds /\ job' = job
  BY ForwardStep DEF IInv, ReadSite, NotTriggered
<1>2. o \in Requests
  BY <1>1 DEF TypeOK, RunnersBusy
<1>3. (Open(o)' => Open(o)) /\ (RequestMayStart(o)' => RequestMayStart(o))
  BY <1>1, <1>2, OpenKept, RequestKept
<1>4. \A v \in Runners : v # w => run'[v] = run[v]
  BY <1>1, GotoFacts, LeaveFacts DEF ReadSite, NotTriggered
<1>5. ~RunMayStart(w, o)' /\ RunMayStart(w, o)
  BY <1>1 DEF RunMayStart
<1>6. StartedBy(o)' = StartedBy(o) /\ \A v \in Runners : RunMayStart(v, o)' => RunMayStart(v, o)
  BY <1>1, <1>2, <1>4, <1>5, RunStays DEF StartedBy
<1>7. <<"run", w>> \in Claims(o) /\ <<"run", w>> \notin Claims(o)'
  BY <1>5, ClaimIn, ClaimInNext
<1> QED
  BY <1>1, <1>2, <1>3, <1>6, <1>7, KeepsBy DEF Drops

\* Who comes to say that nothing was started.
LEMMA RunRefuses ==
    ASSUME IInv, SourceInv, [Next]_vars, NEW o \in Requests, NEW w \in Runners,
           run'[w].op = o, run'[w].message \in Refusals
    PROVE  (run[w].op = o /\ run[w].message \in Refusals) \/ Drops(o)
<1>1. TypeOK
  BY DEF IInv
<1>2. CASE run'[w] = run[w]
  BY <1>2
<1>3. CASE JobExpires(w)
  BY <1>1, <1>3, ExpireFacts
<1>4. CASE ReadOperation(w)
  BY <1>1, <1>4, ReadFacts
<1>5. CASE \E p \in Requests : FetchJob(w, p)
  BY <1>1, <1>5, FetchFacts DEF Refusals
<1>6. CASE Respond(w) \/ CatchError(w) \/ RunCrash(w)
  <2>1. \E ok \in BOOLEAN : Answer(w, ok)
    BY <1>6 DEF Respond, CatchError, RunCrash
  <2>2. run'[w].message = "none"
    BY <1>1, <2>1, AnswerFacts DEF IdleRun
  <2> QED
    BY <2>2 DEF Refusals
<1>7. CASE StartOperation(w) \/ Triggered(w)
  <2>1. \E pc : Goto(w, pc)
    BY <1>7 DEF StartOperation, Triggered
  <2> QED
    BY <1>1, <2>1, GotoFacts
<1>8. CASE Succeed(w)
  <2>1. Goto(w, "message") \/ Leave(w, "respond", "none")
    BY <1>8 DEF Succeed
  <2> QED
    BY <1>1, <2>1, GotoFacts, LeaveFacts DEF Refusals
<1>9. CASE \/ AlreadyFinished(w) \/ RecordStart(w) \/ FollowBuild(w) \/ MergeMessage(w) \/ Fail(w) \/ Requeue(w)
           \/ RunThrows(w)
  <2>1. \E m \in {"none", "restarted", "started", "live", "unchanged", "gaveUp"} : \E pc : Leave(w, pc, m)
    BY <1>9 DEF AlreadyFinished, RecordStart, FollowBuild, MergeMessage, Fail, Requeue, RunThrows
  <2>2. run'[w].message \in {"none", "restarted", "started", "live", "unchanged", "gaveUp"}
    BY <1>1, <2>1, LeaveFacts
  <2> QED
    BY <2>2 DEF Refusals
<1>10. CASE ReadSite(w) \/ NotTriggered(w)
  <2>1. \/ Goto(w, "trigger") \/ Leave(w, "fail", "nothingDeployed") \/ Leave(w, "catch", "none")
        \/ Leave(w, "fail", "mayHaveStarted") \/ Leave(w, "fail", "couldNotStart")
    BY <1>10 DEF ReadSite, NotTriggered
  <2>2. /\ run'[w].op = run[w].op
        /\ run'[w].message = run[w].message \/ run'[w].message = "none" \/ run'[w].pc = "fail"
    BY <1>1, <2>1, GotoFacts, LeaveFacts
  <2> QED
    BY <1>10, <2>2, DropsFail DEF Refusals
<1> QED
  BY <1>1, <1>2, <1>3, <1>4, <1>5, <1>6, <1>7, <1>8, <1>9, <1>10, RunCases

LEMMA RefusesStep ==
    ASSUME IInv, SourceInv, [Next]_vars, NEW o \in Requests, Refuses(o)'
    PROVE  Refuses(o) \/ Drops(o)
<1>1. LogMoves(o)
  BY LogStep
<1>2. ASSUME NEW w \in Runners, run'[w].op = o, run'[w].message \in Refusals PROVE Refuses(o) \/ Drops(o)
  BY <1>2, RunRefuses DEF Refuses
<1>3. CASE told'[o] \in Refusals
  <2>1. "wentWrong" \notin Refusals
    BY DEF Refusals
  <2> QED
    BY <1>1, <1>3, <2>1, DropsEnqueue DEF LogMoves, Refuses
<1> QED
  BY <1>2, <1>3 DEF Refuses

\* A set of one element that loses it is empty.
LEMMA LosesAll ==
    ASSUME NEW S, IsFiniteSet(S), Cardinality(S) <= 1, NEW x \in S, NEW T, T \subseteq S, x \notin T
    PROVE  T = {}
<1>1. Cardinality(S) \in Nat /\ Cardinality(S) # 0
  BY FS_CardinalityType, FS_EmptySet
<1>2. Cardinality(S) = 1
  BY <1>1
<1>3. \E y : S = {y}
  BY <1>2, FS_Singleton
<1> QED
  BY <1>3

LEMMA RefusedInit == Init => RefusedAlone
  BY DEF Init, RefusedAlone, Refuses, Refusals, IdleRun

LEMMA RefusedStep == IInv /\ SourceInv /\ CountInv /\ RefusedAlone /\ [Next]_vars => RefusedAlone'
<1> SUFFICES ASSUME IInv, SourceInv, CountInv, RefusedAlone, [Next]_vars, FaultKinds \subseteq Harmless,
                    NEW o \in Requests, Refuses(o)'
             PROVE  Claims(o)' = {}
  BY DEF RefusedAlone
<1>1. CASE Refuses(o)
  <2>1. Claims(o) = {} /\ ~Harm
    BY <1>1 DEF RefusedAlone, Harm
  <2> QED
    BY <2>1, CountedStep DEF Counted, Keeps, HandsOn
<1>2. CASE Drops(o)
  <2>1. IsFiniteSet(Claims(o)) /\ Cardinality(Claims(o)) <= 1
    BY DEF CountInv, Allowed
  <2> QED
    BY <1>2, <2>1, LosesAll DEF Drops, Keeps
<1> QED
  BY <1>1, <1>2, RefusesStep

\* When only a web process dies between a request's steps or the queue refuses its first run, an operation that
\* says it started nothing has started nothing (startDeploy, the deploy route).
THEOREM RefusalsTrue == ASSUME FaultKinds \subseteq Harmless PROVE Spec => []TruthfulRefusal
<1>1. RefusedAlone => TruthfulRefusal
  <2> SUFFICES ASSUME RefusedAlone, NEW o \in Requests, told[o] \in Refusals PROVE StartedBy(o) = {}
    BY DEF TruthfulRefusal, Refusals
  <2>1. Claims(o) = {}
    BY DEF RefusedAlone, Refuses
  <2> QED
    BY <2>1, ClaimIn
<1>2. Init => RefusedAlone
  BY RefusedInit
<1>3. IInv /\ SourceInv /\ CountInv /\ RefusedAlone /\ [Next]_vars => RefusedAlone'
  BY RefusedStep
<1> QED
  BY CountAlways, <1>1, <1>2, <1>3, PTL DEF Spec
=============================================================================
