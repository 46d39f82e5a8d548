---------------------------- MODULE SiteBackups ----------------------------
(***************************************************************************)
(* Backups and restores of one site: the catalogue (SiteBackup rows), the   *)
(* detached children that do the work over ssh, their reports to the app,   *)
(* the hourly pass that starts scheduled runs and gives up dead ones, and   *)
(* the restic repository with its retention.                                *)
(*                                                                          *)
(* A snapshot is named by the run or the restore that took it.  Time is not *)
(* counted: a run that is in flight may turn out to be six hours old and    *)
(* the site to be due; "late" is a site without a success for the deferral  *)
(* limit (JONGO_MAX_DEFERRAL_HOURS).                                        *)
(***************************************************************************)
EXTENDS Naturals, FiniteSets, SequencesExt

CONSTANTS Backups,    \* rows of the catalogue, 1..n, created in this order
          Requests,   \* "Back up now" clicks and promotes that take a backup
          Restores,   \* restores that are asked for
          Addresses,  \* how many addresses a report is tried at
          MaxFaults   \* bound on lost reports, dead children and cut sessions

ASSUME BackupsAssumption ==
    /\ Backups # {} /\ IsFiniteSet(Backups) /\ Backups = 1..Cardinality(Backups)
    /\ IsFiniteSet(Restores)
    /\ {Addresses, MaxFaults} \subseteq Nat

VARIABLES
    row,       \* SiteBackup.status, "none": there is no such row
    restored,  \* SiteBackup.restoreStatus
    late,      \* no success for the deferral limit
    starter,   \* where each request is
    pass,      \* the hourly pass: its step and the dead runs it has listed
    job,       \* each run's child: its step, the addresses it has tried and what it has to report
    posts,     \* reports the app is handling
    restorer,  \* each restore: its step and the row it restores
    repo,      \* the site's snapshots, oldest first, per restic host
    faults, overlapped, misjudged, told  \* history: faults so far, two runs at once, a successful run given up, team alerted

rowVars == <<row, restored, late>>
jobVars == <<job, posts>>
history == <<faults, overlapped, misjudged, told>>
vars == <<rowVars, starter, pass, jobVars, restorer, repo, history>>

Runs == {"backup"} \X Backups
RestoreRuns == {"restore"} \X Backups
Says(run) == (IF run[1] = "backup" THEN row ELSE restored)[run[2]]
Payload == [verdict: {"none", "success", "failed", "deferred"}, forgotten: SUBSET Backups]
NoPayload == [verdict |-> "none", forgotten |-> {}]

TypeOK ==
    /\ row \in [Backups -> {"none", "running", "success", "failed", "pruned"}]
    /\ restored \in [Backups -> {"none", "running", "success", "failed"}]
    /\ {late, overlapped, misjudged, told} \subseteq BOOLEAN
    /\ starter \in [Requests -> {"idle", "checked", "done"}]
    /\ pass \in [at: {"idle", "sweeping", "checked"}, dead: SUBSET (Runs \union RestoreRuns)]
    /\ job \in [Backups -> [at: {"none", "spawned", "saved", "report", "waiting"}, tries: 0..Addresses, says: Payload]]
    /\ posts \subseteq [of: Backups, try: 1..Addresses, says: Payload,
                        at: {"received", "failing", "removing", "withdrawing"}]
    /\ restorer \in [Restores -> [at: {"idle", "checked", "spawned", "guarded", "success", "failed", "done"},
                                  of: Backups]]
    /\ repo \in [site: BoundedSeq(Backups, Cardinality(Backups)), host: BoundedSeq(Restores, Cardinality(Restores))]
    /\ faults \in 0..MaxFaults

NoJob == [at |-> "none", tries |-> 0, says |-> NoPayload]

Init ==
    /\ row = [b \in Backups |-> "none"] /\ restored = [b \in Backups |-> "none"]
    /\ late = FALSE
    /\ starter = [q \in Requests |-> "idle"]
    /\ pass = [at |-> "idle", dead |-> {}]
    /\ job = [b \in Backups |-> NoJob] /\ posts = {}
    /\ restorer = [r \in Restores |-> [at |-> "idle", of |-> 1]]
    /\ repo = [site |-> <<>>, host |-> <<>>]
    /\ faults = 0 /\ overlapped = FALSE /\ misjudged = FALSE /\ told = FALSE

-----------------------------------------------------------------------------
(* Starting a run *)

Running == \E b \in Backups : row[b] = "running"
PostsOf(b) == {p \in posts : p.of = b}
\* The name of a removed row is taken again only when nothing refers to the row any more.
Unused == {b \in Backups : row[b] = "none" /\ job[b] = NoJob /\ PostsOf(b) = {} /\ <<"backup", b>> \notin pass.dead}
\* The run may still change what the repository or its row says.
Live(b) == job[b] # NoJob \/ \E p \in PostsOf(b) : p.at = "received"

\* The next row is inserted with status running and its child is spawned, unless the app dies in between.
Create(spawned) ==
    \E b \in Unused :
        /\ \A c \in Unused : b <= c
        /\ row' = [row EXCEPT ![b] = "running"]
        /\ job' = [job EXCEPT ![b] = [NoJob EXCEPT !.at = IF spawned THEN "spawned" ELSE "none"]]
        /\ overlapped' = (overlapped \/ \E c \in Backups : Live(c))
        /\ \/ spawned /\ faults' = faults
           \/ ~spawned /\ faults < MaxFaults /\ faults' = faults + 1

\* startSiteBackup looks for a running row of the site ...
FindRunning(q) ==
    /\ starter[q] = "idle" /\ ~Running
    /\ starter' = [starter EXCEPT ![q] = "checked"]
    /\ UNCHANGED <<rowVars, pass, jobVars, restorer, repo, history>>

\* ... and creates one later, whatever was created in between.
StartRun(q) ==
    /\ starter[q] = "checked"
    /\ starter' = [starter EXCEPT ![q] = "done"]
    /\ \E spawned \in BOOLEAN : Create(spawned)
    /\ UNCHANGED <<restored, late, pass, posts, restorer, repo, misjudged, told>>

(* The hourly pass *)

InFlight == {run \in Runs \union RestoreRuns : Says(run) = "running"}

\* The rows that say running are read once; those of six hours and more will be given up.
List(dead) ==
    /\ pass.at = "idle" /\ dead # {}
    /\ pass' = [at |-> "sweeping", dead |-> dead]
    /\ UNCHANGED <<rowVars, starter, jobVars, restorer, repo, history>>
ReadInFlight == \E dead \in SUBSET InFlight : List(dead)

\* What is left of the list after this run: nothing when its row is gone, since the update then throws.
Rest(run) == IF row[run[2]] = "none" THEN {} ELSE pass.dead \ {run}
\* Fault: a dead restore is taken off the list and its row is left alone.
AbandonBackupsOnly(run) ==
    /\ pass.at = "sweeping" /\ run \in pass.dead
    /\ pass' = [at |-> IF Rest(run) = {} THEN "idle" ELSE "sweeping", dead |-> Rest(run)]
    /\ row' = IF run[1] = "backup" /\ row[run[2]] # "none" THEN [row EXCEPT ![run[2]] = "failed"] ELSE row
    /\ restored' = restored
    /\ misjudged' = (misjudged \/ (run[1] = "backup" /\ row[run[2]] = "success"))
    /\ UNCHANGED <<late, starter, jobVars, restorer, repo, faults, overlapped, told>>

\* Each is marked failed without looking at it again, unless a deferral has removed its row meanwhile.
Abandon(run) ==
    /\ pass.at = "sweeping" /\ run \in pass.dead
    /\ pass' = [at |-> IF Rest(run) = {} THEN "idle" ELSE "sweeping", dead |-> Rest(run)]
    /\ row' = IF run[1] = "backup" /\ row[run[2]] # "none" THEN [row EXCEPT ![run[2]] = "failed"] ELSE row
    /\ restored' = IF run[1] = "restore" /\ row[run[2]] # "none" THEN [restored EXCEPT ![run[2]] = "failed"] ELSE restored
    /\ misjudged' = (misjudged \/ (run[1] = "backup" /\ row[run[2]] = "success"))
    /\ UNCHANGED <<late, starter, jobVars, restorer, repo, faults, overlapped, told>>

\* A site that is due is backed up when no row of it says running (a sweep that finds nothing is not a step).
FindDue ==
    /\ pass.at = "idle" /\ ~Running
    /\ pass' = [pass EXCEPT !.at = "checked"]
    /\ UNCHANGED <<rowVars, starter, jobVars, restorer, repo, history>>

\* The row is created and the schedule stamped before the child is spawned.
StartScheduled ==
    /\ pass.at = "checked"
    /\ pass' = [pass EXCEPT !.at = "idle"]
    /\ \/ (\E spawned \in BOOLEAN : Create(spawned))
       \/ Unused = {} /\ UNCHANGED <<row, job, overlapped, faults>>
    /\ UNCHANGED <<restored, late, starter, posts, restorer, repo, misjudged, told>>

-----------------------------------------------------------------------------
(* The child: scripts/site-backup.mjs and the shell it runs over ssh *)

Fault == faults < MaxFaults /\ faults' = faults + 1
Report(b, verdict, forgotten) ==
    job' = [job EXCEPT ![b].at = "report", ![b].says = [verdict |-> verdict, forgotten |-> forgotten]]

\* What restic forget may leave of a group of snapshots, none of which is in it twice.  Which older ones
\* the daily, weekly and monthly rules keep is abstracted; the newest is always kept.
Kept(group) ==
    {left \in BoundedSeq(ToSet(group), Len(group)) :
        /\ \A i, j \in DOMAIN left : i < j =>
              \E k, l \in DOMAIN group : k < l /\ group[k] = left[i] /\ group[l] = left[j]
        /\ group # <<>> => Last(group) \in ToSet(left)}
AfterForget == {[site |-> site, host |-> host] : site \in Kept(repo.site), host \in Kept(repo.host)}

\* The shell yields: another run of the host holds the lock, a deploy is on, nothing of the app is
\* running, or, after the dumps, the repository is locked.
Defer(b) ==
    /\ job[b].at = "spawned"
    /\ Report(b, "deferred", {})
    /\ UNCHANGED <<rowVars, starter, pass, posts, restorer, repo, history>>

\* Nothing to back up, no credentials, or restic made no snapshot.
FailRun(b) ==
    /\ job[b].at = "spawned"
    /\ Report(b, "failed", {})
    /\ UNCHANGED <<rowVars, starter, pass, posts, restorer, repo, history>>

HostFree == \A c \in Backups : job[c].at # "saved"

\* The shell holds the host's lock while it saves a snapshot and forgets old ones.
Save(b) ==
    /\ job[b].at = "spawned" /\ HostFree
    /\ job' = [job EXCEPT ![b].at = "saved"]
    /\ repo' = [repo EXCEPT !.site = Append(@, b)]
    /\ UNCHANGED <<rowVars, starter, pass, posts, restorer, history>>

\* Fault: the snapshots restic lists as kept are taken for removed ones too.
ForgetListed(b) ==
    /\ job[b].at = "saved"
    /\ repo' \in AfterForget
    /\ Report(b, "success", ToSet(repo.site))
    /\ UNCHANGED <<rowVars, starter, pass, posts, restorer, history>>

\* Retention in every host group of the site; it removes nothing while the repository is locked.
\* The ids of the safety snapshots it removed match no row.
Forget(b) ==
    /\ job[b].at = "saved"
    /\ repo' \in AfterForget
    /\ Report(b, "success", ToSet(repo.site) \ ToSet(repo'.site))
    /\ UNCHANGED <<rowVars, starter, pass, posts, restorer, history>>

\* The session is cut after the snapshot was saved, before or after retention ran: what it printed last is lost.
SessionCut(b) ==
    /\ job[b].at = "saved" /\ Fault
    /\ repo' \in AfterForget
    /\ Report(b, "failed", {})
    /\ UNCHANGED <<rowVars, starter, pass, posts, restorer, overlapped, misjudged, told>>

\* A deploy of the app or the host's memory ends the child; it never reports.  The command its shell
\* is at still runs to its end.
ChildDies(b) ==
    /\ job[b].at \in {"spawned", "saved", "report", "waiting"} /\ Fault
    /\ job' = [job EXCEPT ![b] = NoJob]
    /\ repo' \in CASE job[b].at = "spawned" /\ HostFree -> {repo, [repo EXCEPT !.site = Append(@, b)]}
                   [] job[b].at = "saved" -> AfterForget
                   [] OTHER -> {repo}
    /\ UNCHANGED <<rowVars, starter, pass, posts, restorer, overlapped, misjudged, told>>

(* The report: postToApp tries the app's addresses in order *)

AfterTry(b) == [job EXCEPT ![b] = IF job[b].tries < Addresses THEN [@ EXCEPT !.at = "report"] ELSE NoJob]

Send(b) ==
    /\ job[b].at = "report" /\ job[b].tries < Addresses
    /\ job' = [job EXCEPT ![b].at = "waiting", ![b].tries = @ + 1]
    /\ posts' = posts \union {[of |-> b, try |-> job[b].tries + 1, says |-> job[b].says, at |-> "received"]}
    /\ UNCHANGED <<rowVars, starter, pass, restorer, repo, history>>

\* No answer at this address: unreachable, or it takes longer than fifteen seconds and goes on.
NoAnswer(b) ==
    /\ job[b].at = "waiting" /\ Fault
    /\ \E p \in PostsOf(b) :
        /\ p.try = job[b].tries
        /\ posts' \in {posts, IF p.at = "received" THEN posts \ {p} ELSE posts}
    /\ job' = AfterTry(b)
    /\ UNCHANGED <<rowVars, starter, pass, restorer, repo, overlapped, misjudged, told>>

-----------------------------------------------------------------------------
(* api/ops/site-backup-record *)

Goto(p, at) == posts' = (posts \ {p}) \union {[p EXCEPT !.at = at]} /\ job' = job
Waiting(p) == job[p.of].at = "waiting" /\ job[p.of].tries = p.try
Answer(p) ==
    /\ posts' = posts \ {p}
    /\ job' = IF Waiting(p) THEN [job EXCEPT ![p.of] = NoJob] ELSE job
\* A 5xx: the child goes on to its next address.
ServerError(p) ==
    /\ posts' = posts \ {p}
    /\ job' = IF Waiting(p) THEN AfterTry(p.of) ELSE job

\* Fault: only a site without any success is not passed over.
EscalatesFirst == \A b \in Backups : row[b] # "success"

\* A deferral is escalated to a failure when the last success is too long ago, or there is none.
Escalates == late \/ \A b \in Backups : row[b] # "success"
DecideDeferral(p) ==
    /\ p.at = "received" /\ p.says.verdict = "deferred"
    /\ Goto(p, IF Escalates THEN "failing" ELSE "removing")
    /\ UNCHANGED <<rowVars, starter, pass, restorer, repo, history>>

\* The placeholder row is removed if it still says running, and the site's schedule goes back to its last success.
RemoveRun(p) ==
    /\ p.at = "removing"
    /\ row' = IF row[p.of] = "running" THEN [row EXCEPT ![p.of] = "none"] ELSE row
    /\ Answer(p)
    /\ UNCHANGED <<restored, late, starter, pass, restorer, repo, history>>

\* Fault: a deferral is recorded as if it were an outcome.
RecordAnything(p) ==
    LET verdict == IF p.at = "failing" THEN "failed" ELSE p.says.verdict IN
    /\ p.at \in {"failing", "received"}
    /\ IF row[p.of] = "none"
       THEN ServerError(p) /\ UNCHANGED <<row, late, told>>
       ELSE /\ row' = [row EXCEPT ![p.of] = verdict]
            /\ late' = (late /\ verdict # "success")
            /\ told' = (late' /\ verdict = "failed")
            /\ IF p.says.forgotten # {} THEN Goto(p, "withdrawing") ELSE Answer(p)
    /\ UNCHANGED <<restored, starter, pass, restorer, repo, faults, overlapped, misjudged>>

\* The row takes the outcome whatever it says by now; a missing row is an error.
\* The team is told of each outcome.
RecordOutcome(p) ==
    LET verdict == IF p.at = "failing" THEN "failed" ELSE p.says.verdict IN
    /\ p.at = "failing" \/ (p.at = "received" /\ p.says.verdict # "deferred")
    /\ IF row[p.of] = "none"
       THEN ServerError(p) /\ UNCHANGED <<row, late, told>>
       ELSE /\ row' = [row EXCEPT ![p.of] = verdict]
            /\ late' = (late /\ verdict # "success")
            /\ told' = (late' /\ verdict = "failed")
            /\ IF p.says.forgotten # {} THEN Goto(p, "withdrawing") ELSE Answer(p)
    /\ UNCHANGED <<restored, starter, pass, restorer, repo, faults, overlapped, misjudged>>

\* Fault: rows that are still running are withdrawn, those that offer a restore are not.
WithdrawRunning(p) ==
    /\ p.at = "withdrawing"
    /\ row' = [b \in Backups |-> IF b \in p.says.forgotten /\ row[b] = "running" THEN "pruned" ELSE row[b]]
    /\ Answer(p)
    /\ UNCHANGED <<restored, late, starter, pass, restorer, repo, history>>

\* Rows whose snapshot retention removed stop offering a restore.
Withdraw(p) ==
    /\ p.at = "withdrawing"
    /\ row' = [b \in Backups |-> IF b \in p.says.forgotten /\ row[b] = "success" THEN "pruned" ELSE row[b]]
    /\ Answer(p)
    /\ UNCHANGED <<restored, late, starter, pass, restorer, repo, history>>

\* The app dies or its database does not answer.
RecordFails(p) ==
    /\ Fault /\ ServerError(p)
    /\ UNCHANGED <<rowVars, starter, pass, restorer, repo, overlapped, misjudged, told>>

-----------------------------------------------------------------------------
(* Restores: the restore route, scripts/site-restore.mjs, api/ops/site-restore-record *)

Move(r, at) == restorer' = [restorer EXCEPT ![r].at = at]

\* describeRestorability, at the start of the request.
CheckRestorable(r, b) ==
    /\ restorer[r].at = "idle" /\ row[b] = "success"
    /\ restorer' = [restorer EXCEPT ![r] = [at |-> "checked", of |-> b]]
    /\ UNCHANGED <<rowVars, starter, pass, jobVars, repo, history>>

\* After the shared-database check the row says that it is being restored, and the child is spawned.
StartRestore(r) ==
    /\ restorer[r].at = "checked"
    /\ restored' = [restored EXCEPT ![restorer[r].of] = "running"]
    /\ Move(r, "spawned")
    /\ UNCHANGED <<row, late, starter, pass, jobVars, repo, history>>

\* The current state is saved first, under the name of the machine and not of the site.
SafetySnapshot(r) ==
    /\ restorer[r].at = "spawned"
    /\ \/ Move(r, "guarded") /\ repo' = [repo EXCEPT !.host = Append(@, r)]
       \/ Move(r, "failed") /\ repo' = repo
    /\ UNCHANGED <<rowVars, starter, pass, jobVars, history>>

\* The snapshot is fetched whole before anything is overwritten.  Files and databases are then put back:
\* it is a failure when nothing was, and a success when some of it was; the repository is not needed any more.
FetchAndApply(r) ==
    /\ restorer[r].at = "guarded"
    /\ Move(r, "failed") \/ (restorer[r].of \in ToSet(repo.site) /\ Move(r, "success"))
    /\ UNCHANGED <<rowVars, starter, pass, jobVars, repo, history>>

RecordRestore(r) ==
    /\ restorer[r].at \in {"success", "failed"}
    /\ restored' = [restored EXCEPT ![restorer[r].of] = restorer[r].at]
    /\ Move(r, "done")
    /\ UNCHANGED <<row, late, starter, pass, jobVars, repo, history>>

RestoreDies(r) ==
    /\ restorer[r].at \in {"spawned", "guarded", "success", "failed"} /\ Fault
    /\ Move(r, "done")
    /\ UNCHANGED <<rowVars, starter, pass, jobVars, repo, overlapped, misjudged, told>>

-----------------------------------------------------------------------------
(* Time *)

\* Only while rows are left for the runs that must follow (a bound of the instance).
LimitPasses ==
    /\ ~late /\ Cardinality({b \in Backups : row[b] = "none"}) > MaxFaults - faults
    /\ late' = TRUE /\ told' = FALSE
    /\ UNCHANGED <<row, restored, starter, pass, jobVars, restorer, repo, faults, overlapped, misjudged>>

Sweep == ReadInFlight \/ \E run \in Runs \union RestoreRuns : Abandon(run)
Schedule == FindDue \/ StartScheduled
Start == \E q \in Requests : FindRunning(q) \/ StartRun(q)
Child(b) == Defer(b) \/ FailRun(b) \/ Save(b) \/ Forget(b) \/ Send(b)
Record == \E p \in posts : DecideDeferral(p) \/ RemoveRun(p) \/ RecordOutcome(p) \/ Withdraw(p)
Restore(r) == SafetySnapshot(r) \/ FetchAndApply(r) \/ RecordRestore(r)
AskRestore(r) == (\E b \in Backups : CheckRestorable(r, b)) \/ StartRestore(r)
Failure ==
    \/ \E b \in Backups : SessionCut(b) \/ ChildDies(b) \/ NoAnswer(b)
    \/ \E p \in posts : RecordFails(p)
    \/ \E r \in Restores : RestoreDies(r)
Work == \E b \in Backups : Child(b)

Next ==
    \/ Sweep \/ Schedule \/ Start \/ Record \/ Work \/ Failure \/ LimitPasses
    \/ \E r \in Restores : AskRestore(r) \/ Restore(r)

\* Hourly passes go on and the site comes due; some pass finds all that is in flight six hours old, and not every
\* list is cut short by a row that was removed; the app's handlers go on and children come to an end.
Marks(run) == Abandon(run) /\ row[run[2]] # "none"
Fairness ==
    /\ SF_vars(List(InFlight))
    /\ SF_vars(\E run \in Runs \union RestoreRuns : Marks(run))
    /\ WF_vars(Sweep \/ Schedule) /\ WF_vars(Record) /\ WF_vars(Work)
Spec == Init /\ [][Next]_vars /\ Fairness

-----------------------------------------------------------------------------
(* Properties *)

\* A row that offers a restore has its snapshot, or the report that withdraws it is on its way
\* (site-backup-record: rows "must stop offering a restore that would fail"), as long as runs of the
\* site do not overlap and no report is lost.
Withdrawing(b) ==
    \/ \E c \in Backups : b \in job[c].says.forgotten /\ job[c].at = "report"
    \/ \E p \in posts : b \in p.says.forgotten
OfferedIsRestorable ==
    faults = 0 /\ ~overlapped =>
        \A b \in Backups : row[b] = "success" /\ b \notin ToSet(repo.site) => Withdrawing(b)

\* A site that offers a restore goes on offering one, whatever retention removes and in whatever order
\* reports arrive, until the pass gives up a run that has just succeeded.
Offered == {b \in Backups : row[b] = "success"}
StaysProtected ==
    [][Offered # {} /\ ~misjudged' => Offered' # {}]_vars

\* However often children die, the site always comes back to a state where no row of it says running:
\* one that stayed would end its backups for ever (stale-run.ts).
Blocked == \E run \in Runs \union RestoreRuns : Says(run) = "running"
RunsEnd == []<>~Blocked

\* A site without a success past the limit is not passed over in silence: its team is told of a
\* failure or a backup succeeds (backup-deferral.ts: "Politeness has a deadline").
SilenceEnds == []<>(~late \/ told)
=============================================================================
