--------------------------- MODULE StagingCopies ---------------------------
(***************************************************************************)
(* The staging copies of the apps of one hosting project: turning staging   *)
(* on and off (one change per app at a time), the copies hosting has, which *)
(* copy Jongo recorded as whose, and the hourly pass that repairs the       *)
(* records and removes copies that were to be removed.                      *)
(*                                                                          *)
(* Copies are numbered in the order they are created.  Settings, databases, *)
(* addresses, builds and content of a copy are left out.                    *)
(***************************************************************************)
EXTENDS Naturals, FiniteSets, FiniteSetsExt

CONSTANTS Apps,      \* the production apps of the project
          Names,     \* what the copies of each app may be called: a name is the apps whose own name it
                     \* reduces to ("same") and those it resembles, or that cannot be told apart ("near")
          Requests,  \* clicks on the staging switch, 1..n in the order they are made
          Kinds,     \* what they ask for
          MaxCopies, \* bound on the copies that are ever created
          Take,      \* the switched off apps a pass lists, 50 in the code
          Limit,     \* the removals it retries, 3 in the code
          MaxFaults  \* bound on crashes, lost answers and writes, refusals, failed reads, overruns

ASSUME StagingAssumption ==
    /\ Apps # {} /\ IsFiniteSet(Requests) /\ Requests = 1..Cardinality(Requests)
    /\ MaxCopies \in Nat /\ MaxFaults \in Nat /\ Take \in Nat \ {0} /\ Limit \in Nat \ {0}
    /\ Names \in [Apps -> (SUBSET [same : SUBSET Apps, near : SUBSET Apps]) \ {{}}]
    /\ \A a \in Apps : \A name \in Names[a] : name.same \subseteq name.near
    /\ Kinds \subseteq {"on", "replace", "off", "burn"}

Copies == 1..MaxCopies
NoCopy == 0
Found == Copies \union {NoCopy}
Retry == 0                     \* the pass's own request to remove a copy
Handlers == Requests \union {Retry}
Nobody == Cardinality(Requests) + 1

VARIABLES
    enabled,   \* Site.stagingEnabled
    pin,       \* Site.stagingTargetUuid
    recorded,  \* audit log: the newest copy turned on since the last removal
    last,      \* audit log: the last switch; "asked" is off, to be removed, and not removed
    op,        \* the active Operation of each app, named by the handler that created it
    handler,   \* each request: its step, app, kind and the copy it works on
    copy,      \* hosting: the state of each copy, its name and the app it was made for (which nobody can see)
    lost,      \* copies that no answer or record told Jongo of
    pass,      \* the hourly pass: its step, the copies it listed, what it will write, apps to clean up and
               \* how many it has retried
    faults, overran, misread  \* history: faults so far; two changes of one app ran side by side; the pass
                              \* overwrote the record of a copy it had not seen

records == <<enabled, pin, recorded, last>>
hosting == <<copy, lost>>
history == <<faults, overran, misread>>
vars == <<records, op, handler, hosting, pass, history>>

Steps == {"idle", "retake", "evidence", "claim", "look", "residue", "remove", "enable", "current", "attach",
          "check", "create", "pin", "provisioned", "auditOn", "disable", "find", "destroy", "probe", "forget",
          "auditGone", "auditOff", "finish", "done", "crashed"}

TypeOK ==
    /\ enabled \in [Apps -> BOOLEAN]
    /\ pin \in [Apps -> Found] /\ recorded \in [Apps -> Found]
    /\ last \in [Apps -> {"none", "on", "off", "asked"}]
    /\ op \in [Apps -> Handlers \union {Nobody}]
    /\ handler \in [Handlers -> [at: Steps, app: Apps, kind: Kinds \union {"burn"}, on: BOOLEAN,
                                 copy: Found, removed: BOOLEAN]]
    /\ copy \in [Copies -> [is: {"none", "live", "going", "gone"}, of: Apps,
                           name: [same: SUBSET Apps, near: SUBSET Apps]]]
    /\ lost \subseteq Copies
    /\ pass \in [at: {"idle", "listed", "applying", "cleaning", "posting"}, seen: SUBSET Copies,
                 plan: SUBSET ({"clear", "set"} \X Apps \X Copies), todo: SUBSET Apps, tried: 0..Limit]
    /\ faults \in 0..MaxFaults /\ {overran, misread} \subseteq BOOLEAN

Blank == [at |-> "idle", app |-> CHOOSE a \in Apps : TRUE, kind |-> "burn", on |-> FALSE, copy |-> NoCopy,
          removed |-> FALSE]

Init ==
    /\ enabled = [a \in Apps |-> FALSE]
    /\ pin = [a \in Apps |-> NoCopy] /\ recorded = [a \in Apps |-> NoCopy]
    /\ last = [a \in Apps |-> "none"] /\ op = [a \in Apps |-> Nobody]
    /\ handler = [h \in Handlers |-> Blank]
    /\ copy = [c \in Copies |-> [is |-> "none", of |-> CHOOSE a \in Apps : TRUE, name |-> [same |-> {}, near |-> {}]]]
    /\ lost = {}
    /\ pass = [at |-> "idle", seen |-> {}, plan |-> {}, todo |-> {}, tried |-> 0]
    /\ faults = 0 /\ overran = FALSE /\ misread = FALSE

Fault == faults < MaxFaults /\ faults' = faults + 1 /\ UNCHANGED <<overran, misread>>
NoFault == UNCHANGED history

-----------------------------------------------------------------------------
(* Which copy is whose: staging-target-match.ts and staging-target-plan.ts *)

Visible == {c \in Copies : copy[c].is \in {"live", "going"}}
NamedFor(a, some) == {c \in some : a \in copy[c].name.same}
\* Fault: the app's own recorded copy is taken for somebody else's.
CandidatesUnrecorded(a) == Visible \ {pin[b] : b \in Apps}
\* Copies recorded for other apps are never candidates.
Candidates(a) == Visible \ ({pin[b] : b \in Apps \ {a}} \ {pin[a]})

\* pickStagingTarget: the recorded copy, or else the first that matches.
PickTarget(own, some, matched) == IF own \in some THEN own ELSE IF matched # {} THEN Min(matched) ELSE NoCopy

\* Fault: any single candidate is taken.
StrictOrLone(a) ==
    PickTarget(pin[a], Candidates(a),
               IF Cardinality(Candidates(a)) = 1 THEN Candidates(a) ELSE NamedFor(a, Candidates(a)))
\* Strict: a match has the very name.
Strict(a) == PickTarget(pin[a], Candidates(a), NamedFor(a, Candidates(a)))

\* Relaxed: one that resembles it will do, and a single candidate whatever its name.
Resembling(a, some) ==
    LET near == {c \in some : a \in copy[c].name.near} IN
    IF near = {} /\ Cardinality(some) = 1 THEN some ELSE near
Relaxed(a) == PickTarget(pin[a], Candidates(a), Resembling(a, Candidates(a)))

\* getCoolifyAppStagingCapability: when hosting cannot be read there seems to be no copy, and when the records
\* cannot be read there seem to be none.
Answers(there, blind, found) == (found = there /\ NoFault) \/ (found \in {NoCopy, blind} \ {there} /\ Fault)
Look(a, found) == Answers(Strict(a), PickTarget(NoCopy, Visible, NamedFor(a, Visible)), found)
LookRelaxed(a, found) == Answers(Relaxed(a), PickTarget(NoCopy, Visible, Resembling(a, Visible)), found)

\* planStagingPins over the copies that were seen: history, then the only copy of the name, then the only
\* copy of the only app; a copy that two apps claim is given to neither.
Unclaimed(seen) == seen \ {pin[a] : a \in Apps}
Pick(a, seen) ==
    LET free == Unclaimed(seen) IN
    IF recorded[a] \in free THEN recorded[a]
    ELSE IF Cardinality(NamedFor(a, free)) = 1 THEN Min(NamedFor(a, free))
    ELSE IF Apps = {a} /\ Cardinality(free) = 1 THEN Min(free) ELSE NoCopy
Claimed(a, c, seen) ==
    /\ pin[a] \notin seen /\ Pick(a, seen) = c
    /\ \A b \in Apps \ {a} : pin[b] \in seen \/ Pick(b, seen) # c
Claims(seen) == {claim \in Apps \X seen : Claimed(claim[1], claim[2], seen)}
Plan(seen) ==
    {<<"clear", a, pin[a]>> : a \in {b \in Apps : pin[b] \notin seen /\ pin[b] # NoCopy}}
        \union {<<"set", entry[1], entry[2]>> : entry \in Claims(seen)}

-----------------------------------------------------------------------------
(* One change per app at a time: toggleStagingOnce *)

Goto(h, at) == handler' = [handler EXCEPT ![h].at = at]
GotoWith(h, at, c) == handler' = [handler EXCEPT ![h].at = at, ![h].copy = c]
At(h, at) == handler[h].at = at
App(h) == handler[h].app
Started(kind) == IF kind \in {"on", "replace"} THEN "evidence" ELSE "disable"
Dead(h) == handler[h].at \in {"idle", "done", "crashed"}

\* createOrJoinActiveOperation: nobody else's change of the app is active.
Lock(h, a, kind) ==
    /\ op[a] = Nobody
    /\ op' = [op EXCEPT ![a] = h]
    /\ handler' = [handler EXCEPT ![h] = [Blank EXCEPT !.at = Started(kind), !.app = a, !.kind = kind]]
    /\ overran' = (overran \/ \E g \in Handlers \ {h} : ~Dead(g) /\ App(g) = a /\ ~At(g, "retake"))

\* After half an hour a change no longer blocks: its handler is dead, or takes that long.
GiveUp(h, a, kind) ==
    /\ op[a] # Nobody
    /\ IF Dead(op[a]) THEN faults' = faults ELSE faults < MaxFaults /\ faults' = faults + 1
    /\ op' = [op EXCEPT ![a] = Nobody]
    /\ handler' = [handler EXCEPT ![h] = [@ EXCEPT !.at = "retake", !.app = a, !.kind = kind]]
    /\ overran' = overran

\* A click that finds a change in progress is answered so, and changes nothing (no step).
Click(q, a, kind) ==
    /\ At(q, "idle") /\ \A earlier \in 1..(q - 1) : ~At(earlier, "idle")
    /\ (Lock(q, a, kind) /\ faults' = faults) \/ GiveUp(q, a, kind)
    /\ UNCHANGED <<records, hosting, pass, misread>>

End(h, at) == handler' = [handler EXCEPT ![h] = [Blank EXCEPT !.at = IF h = Retry THEN "idle" ELSE at]]
Leave(h) == End(h, "done")
Cleaned(h) == IF h = Retry THEN [pass EXCEPT !.at = "cleaning", !.todo = @ \ {App(h)}] ELSE pass

Retake(h) ==
    /\ At(h, "retake")
    /\ \/ Lock(h, App(h), handler[h].kind) /\ faults' = faults /\ pass' = pass
       \/ op[App(h)] # Nobody /\ Leave(h) /\ op' = op /\ UNCHANGED <<faults, overran>> /\ pass' = Cleaned(h)
    /\ UNCHANGED <<records, hosting, misread>>

\* succeedOperation or failOperation, unless it was given up.
Finish(h) ==
    /\ At(h, "finish")
    /\ op' = [op EXCEPT ![App(h)] = IF @ = h THEN Nobody ELSE @]
    /\ Leave(h) /\ pass' = Cleaned(h)
    /\ UNCHANGED <<records, hosting, history>>

-----------------------------------------------------------------------------
(* Turning staging on *)

\* claimStagingCopyForSite: an app without a record looks for evidence of a copy, or fails to.
ReadEvidence(h) ==
    /\ At(h, "evidence")
    /\ LET found == {c \in Visible : <<App(h), c>> \in Claims(Visible)}
           mine == IF pin[App(h)] = NoCopy /\ found # {} THEN Min(found) ELSE NoCopy IN
        handler' = [handler EXCEPT ![h].at = "claim", ![h].on = enabled[App(h)], ![h].copy = mine]
    /\ UNCHANGED <<records, op, hosting, pass, history>>

RecordClaim(h) ==
    /\ At(h, "claim")
    /\ \/ pin' = [pin EXCEPT ![App(h)] = IF handler[h].copy = NoCopy THEN @ ELSE handler[h].copy] /\ NoFault
       \/ handler[h].copy # NoCopy /\ pin' = pin /\ Fault
    /\ GotoWith(h, IF handler[h].on THEN "enable" ELSE "look", NoCopy)
    /\ UNCHANGED <<enabled, recorded, last, op, hosting, pass>>

\* The app's recorded copy is attached again.  One of its name that is not recorded may be one whose removal is
\* still running; a look that failed never finds a recorded copy.
FirstLook(h) ==
    /\ At(h, "look")
    /\ \/ /\ NoFault
          /\ Goto(h, IF pin[App(h)] # NoCopy /\ Strict(App(h)) = pin[App(h)] THEN "enable" ELSE "residue")
       \/ Goto(h, "residue") /\ Fault
    /\ UNCHANGED <<records, op, hosting, pass>>

\* What is found now is waited for, recorded or not; when it stays, it is removed if the click says so,
\* otherwise the click is refused.
ResidueClears(h) ==
    /\ At(h, "residue") /\ Look(App(h), NoCopy)
    /\ Goto(h, "enable")
    /\ UNCHANGED <<records, op, hosting, pass>>

ResidueStays(h) ==
    /\ At(h, "residue")
    /\ \E found \in Copies :
        /\ Look(App(h), found)
        /\ IF handler[h].kind = "replace" /\ ~handler[h].removed
           THEN GotoWith(h, "remove", found) ELSE Goto(h, "finish")
    /\ UNCHANGED <<records, op, hosting, pass>>

Vanishing(c) == [copy EXCEPT ![c].is = IF @ = "live" THEN "going" ELSE @]
\* destroyCoolifyApplication: hosting refuses, or its answer is lost whether or not it accepted.
Remove(h, next, otherwise) ==
    \/ /\ copy' = Vanishing(handler[h].copy) /\ NoFault
       /\ handler' = [handler EXCEPT ![h].at = next, ![h].removed = TRUE]
    \/ copy' \in {copy, Vanishing(handler[h].copy)} /\ Goto(h, otherwise) /\ Fault

RemoveResidue(h) ==
    /\ At(h, "remove") /\ Remove(h, "residue", "finish")
    /\ UNCHANGED <<records, op, lost, pass>>

\* The switch itself; when its write fails the change ends there.
Switch(h, on, next) ==
    \/ enabled' = [enabled EXCEPT ![App(h)] = on] /\ Goto(h, next) /\ NoFault
    \/ enabled' = enabled /\ Goto(h, "finish") /\ Fault

Enable(h) ==
    /\ At(h, "enable")
    /\ Switch(h, TRUE, "current")
    /\ UNCHANGED <<pin, recorded, last, op, hosting, pass>>

\* Only this app's own copy counts as already there.
LookForCopy(h) ==
    /\ At(h, "current")
    /\ \E found \in Found :
        Look(App(h), found) /\ GotoWith(h, IF found = NoCopy THEN "check" ELSE "attach", found)
    /\ UNCHANGED <<records, op, hosting, pass>>

\* writeStagingTargetPin is best-effort: the write may be lost.
WritePin(a, c) == (pin' = [pin EXCEPT ![a] = c] /\ NoFault) \/ (pin' = pin /\ Fault)

Attach(h) ==
    /\ At(h, "attach")
    /\ WritePin(App(h), handler[h].copy)
    /\ Goto(h, "auditOn")
    /\ UNCHANGED <<enabled, recorded, last, op, hosting, pass>>

\* provisionCoolifyStagingFromProduction: nothing is created when the copy is there by now.
CheckAgain(h) ==
    /\ At(h, "check")
    /\ \E found \in Found :
        Look(App(h), found) /\ Goto(h, IF found = NoCopy THEN "create" ELSE "provisioned")
    /\ UNCHANGED <<records, op, hosting, pass>>

NextCopy == Min({c \in Copies : copy[c].is = "none"})
Create(h) ==
    /\ At(h, "create")
    /\ \E c \in Copies : copy[c].is = "none"
    /\ \E name \in Names[App(h)] : copy' = [copy EXCEPT ![NextCopy] = [is |-> "live", of |-> App(h), name |-> name]]
    /\ \/ GotoWith(h, "pin", NextCopy) /\ lost' = lost /\ NoFault
       \/ \* The answer is lost or does not name the copy: the next way is tried, or none is left.
          /\ Goto(h, "create") \/ Goto(h, "provisioned")
          /\ lost' = lost \union {NextCopy} /\ Fault
    /\ UNCHANGED <<records, op, pass>>

Refused(h) ==
    /\ At(h, "create")
    /\ Goto(h, "provisioned")
    /\ UNCHANGED <<records, op, hosting, pass, history>>

PinCreated(h) ==
    /\ At(h, "pin")
    /\ WritePin(App(h), handler[h].copy)
    /\ Goto(h, "provisioned")
    /\ UNCHANGED <<enabled, recorded, last, op, hosting, pass>>

\* The copy is looked for again, and one that was created is recorded a second time.
LookAgain(h) ==
    /\ At(h, "provisioned")
    /\ IF handler[h].copy = NoCopy
       THEN \E found \in Found : Look(App(h), found) /\ GotoWith(h, "auditOn", found) /\ pin' = pin
       ELSE \E found \in Found :
                /\ \/ Look(App(h), found) /\ pin' = [pin EXCEPT ![App(h)] = handler[h].copy]
                   \/ found = Strict(App(h)) /\ pin' = pin /\ Fault
                /\ GotoWith(h, "auditOn", IF found = NoCopy THEN handler[h].copy ELSE found)
    /\ UNCHANGED <<enabled, recorded, last, op, hosting, pass>>

\* tryRecordStagingAuditLog: the entry may be lost.
Audit(h, newest, said) ==
    /\ \/ /\ recorded' = [recorded EXCEPT ![App(h)] = newest]
          /\ last' = [last EXCEPT ![App(h)] = said] /\ NoFault
       \/ UNCHANGED <<recorded, last>> /\ Fault
    /\ Goto(h, "finish")
    /\ UNCHANGED <<enabled, pin, op, hosting, pass>>

AuditOn(h) ==
    /\ At(h, "auditOn")
    /\ Audit(h, IF handler[h].copy = NoCopy THEN recorded[App(h)] ELSE handler[h].copy, "on")

-----------------------------------------------------------------------------
(* Turning staging off *)

Disable(h) ==
    /\ At(h, "disable")
    /\ Switch(h, FALSE, "find")
    /\ UNCHANGED <<pin, recorded, last, op, hosting, pass>>

\* Fault: the relaxed match picks what is removed.
FindRelaxed(h) ==
    /\ At(h, "find")
    /\ GotoWith(h, IF handler[h].kind = "burn" /\ Relaxed(App(h)) # NoCopy THEN "destroy" ELSE "auditOff", Relaxed(App(h)))
    /\ UNCHANGED <<records, op, hosting, pass, history>>
\* Strict, since this picks what is removed.
Find(h) ==
    /\ At(h, "find")
    /\ \E found \in Found :
        /\ Look(App(h), found)
        /\ GotoWith(h, IF handler[h].kind = "burn" /\ found # NoCopy THEN "destroy" ELSE "auditOff", found)
    /\ UNCHANGED <<records, op, hosting, pass>>

Destroy(h) ==
    /\ At(h, "destroy") /\ Remove(h, "probe", "probe")
    /\ UNCHANGED <<records, op, lost, pass>>

\* Relaxed: a copy that survived must not be reported as gone.  The probe may also fail.
Probe(h) ==
    /\ At(h, "probe")
    /\ \/ \E found \in Found :
            LookRelaxed(App(h), found) /\ Goto(h, IF found = NoCopy THEN "forget" ELSE "auditOff")
       \/ Goto(h, "auditOff") /\ Fault
    /\ UNCHANGED <<records, op, hosting, pass>>

Forget(h) ==
    /\ At(h, "forget")
    /\ WritePin(App(h), NoCopy)
    /\ Goto(h, "auditGone")
    /\ UNCHANGED <<enabled, recorded, last, op, hosting, pass>>

AuditGone(h) == At(h, "auditGone") /\ Audit(h, NoCopy, "off")

\* Fault: the switch is recorded as it was asked for.
AuditOffAsAsked(h) == At(h, "auditOff") /\ Audit(h, recorded[App(h)], handler[h].kind)
AuditOff(h) ==
    /\ At(h, "auditOff")
    /\ Audit(h, IF handler[h].removed THEN NoCopy ELSE recorded[App(h)],
             IF handler[h].kind = "burn" THEN "asked" ELSE "off")

-----------------------------------------------------------------------------
(* The hourly pass *)

\* reconcileStagingTargets: hosting's copies were listed before the records are read.
ListCopies ==
    /\ pass.at = "idle"
    /\ pass' = [pass EXCEPT !.at = "listed", !.seen = Visible]
    /\ UNCHANGED <<records, op, handler, hosting, history>>

ReadRecords ==
    /\ pass.at = "listed"
    /\ pass' = [pass EXCEPT !.at = "applying", !.plan = Plan(pass.seen), !.seen = {}]
    /\ UNCHANGED <<records, op, handler, hosting, history>>

\* First the records of copies that are gone, if they are still the same; then the new ones, whatever is there.
Apply(entry) ==
    /\ pass.at = "applying" /\ entry \in pass.plan
    /\ entry[1] = "set" => \A other \in pass.plan : other[1] = "set"
    /\ pin' = [pin EXCEPT ![entry[2]] = IF entry[1] = "set" THEN entry[3] ELSE IF @ = entry[3] THEN NoCopy ELSE @]
    /\ pass' = [pass EXCEPT !.plan = @ \ {entry}]
    /\ misread' = (misread \/ (pin[entry[2]] \in Visible /\ pin'[entry[2]] # pin[entry[2]]))
    /\ UNCHANGED <<enabled, recorded, last, op, handler, hosting, faults, overran>>

\* retryFailedStagingCleanups: switched off apps with a recorded copy, some of them when they are many ...
ListCleanups ==
    /\ pass.at = "applying" /\ pass.plan = {}
    /\ LET off == {a \in Apps : ~enabled[a] /\ pin[a] # NoCopy} IN
        \E some \in SUBSET off :
            /\ some = off \/ Cardinality(some) = Take
            /\ pass' = [pass EXCEPT !.at = "cleaning", !.todo = some, !.tried = 0]
    /\ UNCHANGED <<records, op, handler, hosting, history>>

\* Fault: those that were not to be removed are switched off again.
CheckCleanupKept(a) ==
    /\ pass.at = "cleaning" /\ a \in pass.todo /\ pass.tried < Limit
    /\ pass' = IF last[a] = "off" THEN [pass EXCEPT !.at = "posting", !.tried = @ + 1]
               ELSE [pass EXCEPT !.todo = @ \ {a}]
    /\ handler' = [handler EXCEPT ![Retry].app = IF last[a] = "off" THEN a ELSE @]
    /\ UNCHANGED <<records, op, hosting, history>>
\* ... whose last switch asked for its removal are switched off again.
CheckCleanup(a) ==
    /\ pass.at = "cleaning" /\ a \in pass.todo /\ pass.tried < Limit
    /\ pass' = IF last[a] = "asked" THEN [pass EXCEPT !.at = "posting", !.tried = @ + 1]
               ELSE [pass EXCEPT !.todo = @ \ {a}]
    /\ handler' = [handler EXCEPT ![Retry].app = IF last[a] = "asked" THEN a ELSE @]
    /\ UNCHANGED <<records, op, hosting, history>>

PostCleanup ==
    /\ pass.at = "posting" /\ At(Retry, "idle")
    /\ \/ Lock(Retry, App(Retry), "burn") /\ faults' = faults /\ pass' = pass
       \/ GiveUp(Retry, App(Retry), "burn") /\ pass' = pass
       \/ /\ op[App(Retry)] # Nobody /\ ~Dead(op[App(Retry)])
          /\ pass' = Cleaned(Retry) /\ UNCHANGED <<op, handler, faults, overran>>
    /\ UNCHANGED <<records, hosting, misread>>

EndPass ==
    /\ pass.at = "cleaning" /\ (pass.todo = {} \/ pass.tried = Limit)
    /\ pass' = [pass EXCEPT !.at = "idle", !.todo = {}, !.tried = 0]
    /\ UNCHANGED <<records, op, handler, hosting, history>>

-----------------------------------------------------------------------------
(* Hosting and crashes *)

Vanish(c) ==
    /\ copy[c].is = "going"
    /\ copy' = [copy EXCEPT ![c].is = "gone"]
    /\ UNCHANGED <<records, op, handler, lost, pass, history>>

\* The process dies: its Operation stays, and a copy it has just created is known to nobody.
Crash(h) ==
    /\ ~Dead(h) /\ Fault
    /\ End(h, "crashed")
    /\ lost' = IF At(h, "pin") THEN lost \union {handler[h].copy} ELSE lost
    /\ pass' = IF h = Retry THEN [pass EXCEPT !.at = "idle", !.plan = {}, !.todo = {}, !.tried = 0] ELSE pass
    /\ UNCHANGED <<records, op, copy>>

TurnOn(h) ==
    \/ ReadEvidence(h) \/ RecordClaim(h) \/ FirstLook(h) \/ ResidueClears(h) \/ ResidueStays(h) \/ RemoveResidue(h)
    \/ Enable(h) \/ LookForCopy(h) \/ Attach(h) \/ CheckAgain(h) \/ Create(h) \/ Refused(h) \/ PinCreated(h)
    \/ LookAgain(h) \/ AuditOn(h)
TurnOff(h) == Disable(h) \/ Find(h) \/ Destroy(h) \/ Probe(h) \/ Forget(h) \/ AuditGone(h) \/ AuditOff(h)
Work(h) == ~Dead(h) /\ (TurnOn(h) \/ TurnOff(h) \/ Retake(h) \/ Finish(h))
Hourly ==
    \/ ListCopies \/ ReadRecords \/ ListCleanups \/ PostCleanup \/ EndPass
    \/ (\E entry \in pass.plan : Apply(entry)) \/ (\E a \in Apps : CheckCleanup(a))

Next ==
    \/ \E q \in Requests, a \in Apps, kind \in Kinds : Click(q, a, kind)
    \/ \E h \in Handlers : Work(h) \/ Crash(h)
    \/ Hourly
    \/ \E c \in Copies : Vanish(c)

\* Handlers go on, the pass comes every hour, and hosting removes what it accepted to remove.
Fairness ==
    /\ \A h \in Handlers : WF_vars(Work(h))
    /\ WF_vars(Hourly)
    /\ WF_vars(\E c \in Copies : Vanish(c))
Spec == Init /\ [][Next]_vars /\ Fairness

-----------------------------------------------------------------------------
(* Properties *)

\* What a copy is to an app: its own, or one of its very name.
Belongs(a, c) == copy[c].of = a \/ a \in copy[c].name.same

\* Whatever was lost or raced, the records never give an app a copy that was neither made for it nor bears
\* exactly its name: not by being the only one, nor by resembling it, nor from a record of another app
\* (staging-target-plan: "never from a guess that could hand one client's copy to another").
OwnCopies ==
    \A a \in Apps : /\ pin[a] # NoCopy => Belongs(a, pin[a])
                    /\ recorded[a] # NoCopy => Belongs(a, recorded[a])

\* What starts to go is removed by the change that takes this step, which asks for a removal, and is a copy
\* made for that change's app or of exactly its name, although it looked before it removed (route: "Strict:
\* this picks what gets DELETED").
Removing(h) == handler[h].at \in {"destroy", "remove"} /\ handler'[h].at # handler[h].at
RemovedByItsOwn ==
    [][\A c \in Copies : copy[c].is = "live" /\ copy'[c].is = "going" =>
        \E h \in Handlers : /\ Removing(h) /\ handler[h].copy = c /\ handler[h].kind \in {"burn", "replace"}
                           /\ Belongs(App(h), c)]_vars

\* An app has one copy at most, not counting copies Jongo never heard of, while no app's copy bears the name of
\* another: no single loss, failed read, crash or race with the pass makes the next switch build a second one,
\* unless two changes ran side by side or the pass misread (route: "a second click ... instead of building a
\* second copy").
Apart(a) ==
    \A c \in Copies : copy[c].is # "none" =>
        (copy[c].of = a \/ a \notin copy[c].name.same) /\ (copy[c].of = a => copy[c].name.same \subseteq {a})
OneCopy ==
    faults <= 1 /\ ~overran /\ ~misread =>
        \A a \in Apps : Apart(a) =>
            Cardinality({c \in Copies \ lost : copy[c].of = a /\ copy[c].is = "live"}) <= 1

\* A copy that was to be removed and was not goes away by itself, unless staging is turned on again, the pass
\* lost its record by misreading, or copies bear the name of more than one app (staging-cleanup-retry: "a
\* leftover staging copy clears itself").
Left(a) == {c \in Visible \ lost : copy[c].of = a}
CleanupEnds ==
    \A a \in Apps :
        []<>(last[a] = "asked" => Left(a) = {} \/ enabled[a] \/ misread \/ ~Apart(a))
=============================================================================
