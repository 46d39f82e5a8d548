------------------------- MODULE SiteBackupsProofs -------------------------
(* Theorems about SiteBackups, for every number of rows, requests, restores,     *)
(* addresses and faults: types, what a row that offers a restore can rely on,    *)
(* and that a site once protected stays so.                                      *)
EXTENDS SiteBackups, FiniteSetTheorems, SequenceTheorems, TLAPS

-----------------------------------------------------------------------------
(* Sequences in which nothing is twice *)

Distinct(s) == \A i, j \in DOMAIN s : i # j => s[i] # s[j]
Rising(s, ord) == \A i, j \in DOMAIN s : i < j => ord[s[i]] < ord[s[j]]

LEMMA BoundedIsSeq ==
    ASSUME NEW S, NEW n \in Nat, NEW s \in BoundedSeq(S, n)
    PROVE  s \in Seq(S) /\ Len(s) <= n
<1>1. PICK m \in 0..n : s \in [1..m -> S]
  BY DEF BoundedSeq, SeqOf
<1>2. m \in Nat /\ m <= n
  BY <1>1
<1>3. s \in Seq(S) /\ Len(s) = m
  BY <1>1, <1>2
<1> QED
  BY <1>2, <1>3

LEMMA SeqIsBounded ==
    ASSUME NEW S, NEW n \in Nat, NEW s \in Seq(S), Len(s) <= n
    PROVE  s \in BoundedSeq(S, n)
<1>1. Len(s) \in 0..n /\ s \in [1..Len(s) -> S]
  BY LenProperties
<1> QED
  BY <1>1 DEF BoundedSeq, SeqOf

LEMMA DistinctIsShort ==
    ASSUME NEW S, IsFiniteSet(S), NEW s \in Seq(S), Distinct(s)
    PROVE  s \in BoundedSeq(S, Cardinality(S))
<1>1. Len(s) \in Nat /\ s \in [1..Len(s) -> S] /\ DOMAIN s = 1..Len(s)
  BY LenProperties
<1>2. s \in Injection(1..Len(s), S)
  BY <1>1 DEF Distinct, Injection, IsInjective
<1>3. Cardinality(1..Len(s)) = Len(s)
  BY <1>1, FS_Interval
<1>4. Cardinality(S) \in Nat /\ Cardinality(1..Len(s)) <= Cardinality(S)
  BY <1>2, FS_Injection, FS_CardinalityType
<1> QED
  BY <1>1, <1>3, <1>4, SeqIsBounded

\* What retention leaves of a group: nothing else, nothing twice, in the same order, and the newest.
LEMMA KeptIs ==
    ASSUME NEW S, NEW group \in Seq(S), Distinct(group), NEW left \in Kept(group)
    PROVE  /\ left \in Seq(S) /\ Distinct(left) /\ ToSet(left) \subseteq ToSet(group)
           /\ group # <<>> => Last(group) \in ToSet(left)
           /\ \A ord : Rising(group, ord) => Rising(left, ord)
<1>1. left \in BoundedSeq(ToSet(group), Len(group)) /\ Len(group) \in Nat
  BY LenProperties DEF Kept
<1>2. left \in Seq(ToSet(group))
  BY <1>1, BoundedIsSeq
<1>3. ToSet(group) \subseteq S
  BY LenProperties DEF ToSet
<1>4. left \in Seq(S)
  BY <1>2, <1>3, SeqMonotonic
<1>5. ToSet(left) \subseteq ToSet(group)
  <2>1. left \in [1..Len(left) -> ToSet(group)] /\ DOMAIN left = 1..Len(left)
    BY <1>2, LenProperties
  <2> QED
    BY <2>1 DEF ToSet
<1>6. \A i, j \in DOMAIN left : i < j =>
         \E k, l \in DOMAIN group : k < l /\ group[k] = left[i] /\ group[l] = left[j]
  BY DEF Kept
<1>7. DOMAIN left \subseteq Int /\ DOMAIN group \subseteq Int
  BY <1>4, LenProperties
<1>8. Distinct(left)
  <2> SUFFICES ASSUME NEW i \in DOMAIN left, NEW j \in DOMAIN left, i < j PROVE left[i] # left[j]
    BY <1>7 DEF Distinct
  <2>1. PICK k \in DOMAIN group, l \in DOMAIN group : k < l /\ group[k] = left[i] /\ group[l] = left[j]
    BY <1>6
  <2> QED
    BY <1>7, <2>1 DEF Distinct
<1>9. ASSUME NEW ord, Rising(group, ord) PROVE Rising(left, ord)
  BY <1>6, <1>9 DEF Rising
<1>10. group # <<>> => Last(group) \in ToSet(left)
  BY DEF Kept
<1> QED
  BY <1>4, <1>5, <1>8, <1>9, <1>10

LEMMA AppendNew ==
    ASSUME NEW S, NEW s \in Seq(S), Distinct(s), NEW e \in S, e \notin ToSet(s)
    PROVE  /\ Append(s, e) \in Seq(S) /\ Append(s, e) # <<>> /\ Distinct(Append(s, e))
           /\ ToSet(Append(s, e)) = ToSet(s) \union {e} /\ Last(Append(s, e)) = e
<1> DEFINE t == Append(s, e)
<1>1. /\ t \in Seq(S) /\ t # <<>> /\ Len(t) = Len(s) + 1 /\ t[Len(s) + 1] = e
      /\ \A i \in 1..Len(s) : t[i] = s[i]
  BY AppendProperties
<1>2. Len(s) \in Nat /\ DOMAIN s = 1..Len(s) /\ DOMAIN t = 1..(Len(s) + 1)
  BY <1>1, LenProperties
<1> HIDE DEF t
<1>3. ToSet(t) = ToSet(s) \union {e}
  <2>1. ASSUME NEW x \in ToSet(t) PROVE x \in ToSet(s) \union {e}
    <3>1. PICK i \in 1..(Len(s) + 1) : x = t[i]
      BY <1>2 DEF ToSet
    <3>2. i \in 1..Len(s) \/ i = Len(s) + 1
      BY <1>2
    <3> QED
      BY <1>1, <1>2, <3>1, <3>2 DEF ToSet
  <2>2. ASSUME NEW x \in ToSet(s) \union {e} PROVE x \in ToSet(t)
    <3>1. CASE x = e
      <4>1. Len(s) + 1 \in DOMAIN t
        BY <1>2
      <4> QED
        BY <1>1, <3>1, <4>1 DEF ToSet
    <3>2. CASE x \in ToSet(s)
      <4>1. PICK i \in 1..Len(s) : x = s[i]
        BY <1>2, <3>2 DEF ToSet
      <4>2. i \in DOMAIN t /\ t[i] = x
        BY <1>1, <1>2, <4>1
      <4> QED
        BY <4>2 DEF ToSet
    <3> QED
      BY <2>2, <3>1, <3>2
  <2> QED
    BY <2>1, <2>2
<1>4. Distinct(t)
  <2> SUFFICES ASSUME NEW i \in DOMAIN t, NEW j \in DOMAIN t, i < j PROVE t[i] # t[j]
    BY <1>2 DEF Distinct
  <2>1. i \in 1..Len(s) /\ t[i] = s[i]
    BY <1>1, <1>2
  <2>2. CASE j = Len(s) + 1
    BY <1>1, <1>2, <2>1, <2>2 DEF ToSet
  <2>3. CASE j # Len(s) + 1
    BY <1>1, <1>2, <2>1, <2>3 DEF Distinct
  <2> QED
    BY <2>2, <2>3
<1>5. Last(t) = e
  BY <1>1 DEF Last
<1> QED
  BY <1>1, <1>3, <1>4, <1>5 DEF t

-----------------------------------------------------------------------------
(* What the proofs rest on *)

JobType == [at: {"none", "spawned", "saved", "report", "waiting"}, tries: 0..Addresses, says: Payload]
PostType == [of: Backups, try: 1..Addresses, says: Payload, at: {"received", "failing", "removing", "withdrawing"}]
RestorerType == [at: {"idle", "checked", "spawned", "guarded", "success", "failed", "done"}, of: Backups]

RowsTyped ==
    /\ row \in [Backups -> {"none", "running", "success", "failed", "pruned"}]
    /\ restored \in [Backups -> {"none", "running", "success", "failed"}]
FlagsTyped == late \in BOOLEAN /\ overlapped \in BOOLEAN /\ misjudged \in BOOLEAN /\ told \in BOOLEAN
StartersTyped ==
    /\ starter \in [Requests -> {"idle", "checked", "done"}]
    /\ pass \in [at: {"idle", "sweeping", "checked"}, dead: SUBSET (Runs \union RestoreRuns)]
RunsTyped == job \in [Backups -> JobType] /\ posts \subseteq PostType
RestorersTyped == restorer \in [Restores -> RestorerType]
RepoTyped ==
    /\ repo \in [site: Seq(Backups), host: Seq(Restores)]
    /\ Distinct(repo.site) /\ Distinct(repo.host)
FaultsTyped == faults \in 0..MaxFaults

OnSite == ToSet(repo.site)
Recorded(b) == row[b] \in {"success", "pruned"}

\* What the run of row b reports, and has reported in what is not handled yet.
Payloads(b) == {p.says : p \in PostsOf(b)} \union {s \in {job[b].says} : job[b].at \in {"report", "waiting"}}

\* The run of row b has saved a snapshot.
Snapped(b) == b \in OnSite \/ \E c \in Backups : \E s \in Payloads(c) : b \in s.forgotten

\* A child that has not reported yet.
Jobs == \A b \in Backups :
    /\ job[b].at \in {"spawned", "saved"} => PostsOf(b) = {} /\ row[b] \in {"running", "failed"}
    /\ job[b].at = "saved" => repo.site # <<>> /\ Last(repo.site) = b
    /\ job[b].at = "spawned" => ~Snapped(b)

\* A run always reports the same; what it says fits its snapshot and its row.
Reports == \A b \in Backups :
    /\ \A s, t \in Payloads(b) : s = t
    /\ \A s \in Payloads(b) : /\ s.verdict # "none"
                              /\ s.forgotten # {} => s.verdict = "success"
                              /\ s.verdict = "success" => row[b] # "none"
                              /\ s.verdict = "deferred" => ~Snapped(b)
                              /\ Recorded(b) => s.verdict = "success"
Handled == \A p \in posts :
    /\ p.at \in {"failing", "removing"} => p.says.verdict = "deferred"
    /\ p.at = "withdrawing" => p.says.verdict = "success"
SnappedRows == \A b \in Backups : Snapped(b) => row[b] # "none"

\* A restore saves the state it will overwrite once.
Guards == \A r \in Restores : restorer[r].at \in {"idle", "checked", "spawned"} => r \notin ToSet(repo.host)

Typed == RowsTyped /\ FlagsTyped /\ StartersTyped /\ RunsTyped /\ RestorersTyped /\ RepoTyped /\ FaultsTyped
Sound == Jobs /\ Reports /\ Handled /\ SnappedRows
BaseInv == Typed /\ Sound /\ Guards

-----------------------------------------------------------------------------
(* Lemmas about rows, reports and snapshots *)

LEMMA Constants ==
    /\ Addresses \in Nat /\ MaxFaults \in Nat /\ IsFiniteSet(Backups) /\ IsFiniteSet(Restores)
    /\ Cardinality(Backups) \in Nat /\ Cardinality(Restores) \in Nat
    /\ Backups \subseteq Nat /\ 1 \in Backups
<1>1. Cardinality(Backups) \in Nat /\ Cardinality(Restores) \in Nat
  BY BackupsAssumption, FS_CardinalityType
<1>2. Backups \subseteq Nat /\ 1 \in Backups
  BY <1>1, BackupsAssumption
<1> QED
  BY <1>1, <1>2, BackupsAssumption

LEMMA NoJobTyped ==
    /\ NoJob \in JobType /\ NoJob.at = "none" /\ NoJob.says = NoPayload /\ NoJob.tries = 0
    /\ NoPayload \in Payload /\ NoPayload.forgotten = {}
<1>1. NoPayload \in Payload /\ NoPayload.forgotten = {}
  BY DEF NoPayload, Payload
<1>2. 0 \in 0..Addresses
  BY Constants
<1> QED
  BY <1>1, <1>2 DEF NoJob, JobType

LEMMA InvTypes == BaseInv => TypeOK
<1> SUFFICES ASSUME BaseInv PROVE TypeOK
  OBVIOUS
<1>1. repo \in [site: BoundedSeq(Backups, Cardinality(Backups)), host: BoundedSeq(Restores, Cardinality(Restores))]
  BY Constants, DistinctIsShort DEF BaseInv, Typed, RepoTyped
<1>2. {late, overlapped, misjudged, told} \subseteq BOOLEAN
  BY DEF BaseInv, Typed, FlagsTyped
<1> QED
  BY <1>1, <1>2 DEF BaseInv, Typed, RowsTyped, StartersTyped, RunsTyped, RestorersTyped, FaultsTyped, TypeOK,
     JobType, PostType, RestorerType

\* Nothing new is reported: children keep what they report or stop, and reports are passed on or handled.
Fewer ==
    /\ \A b \in Backups :
        \/ job'[b].at \notin {"report", "waiting"}
        \/ job[b].at \in {"report", "waiting"} /\ job'[b].says = job[b].says
    /\ \A q \in posts' : \E s \in Payloads(q.of) : q.says = s

LEMMA PayloadIs ==
    /\ \A p \in posts : p.says \in Payloads(p.of)
    /\ \A b \in Backups : job[b].at \in {"report", "waiting"} => job[b].says \in Payloads(b)
  BY DEF Payloads, PostsOf

LEMMA PayloadTyped ==
    ASSUME RunsTyped, NEW b \in Backups, NEW s \in Payloads(b)
    PROVE  s \in Payload
<1>1. \/ \E p \in posts : s = p.says
      \/ s = job[b].says
  BY DEF Payloads, PostsOf
<1>2. (\A p \in posts : p.says \in Payload) /\ job[b].says \in Payload
  BY DEF RunsTyped, JobType, PostType
<1> QED
  BY <1>1, <1>2

LEMMA FewerPayloads ==
    ASSUME Fewer
    PROVE  \A b \in Backups : Payloads(b)' \subseteq Payloads(b)
<1> SUFFICES ASSUME NEW b \in Backups, NEW s \in Payloads(b)' PROVE s \in Payloads(b)
  OBVIOUS
<1>1. \/ \E q \in posts' : q.of = b /\ s = q.says
      \/ job'[b].at \in {"report", "waiting"} /\ s = job'[b].says
  BY DEF Payloads, PostsOf
<1>2. CASE \E q \in posts' : q.of = b /\ s = q.says
  BY <1>2 DEF Fewer
<1>3. CASE job'[b].at \in {"report", "waiting"} /\ s = job'[b].says
  BY <1>3, PayloadIs DEF Fewer
<1> QED
  BY <1>1, <1>2, <1>3

LEMMA FewerSnapped ==
    ASSUME Fewer, OnSite' \subseteq OnSite
    PROVE  \A b \in Backups : Snapped(b)' => Snapped(b)
<1>1. \A c \in Backups : Payloads(c)' \subseteq Payloads(c)
  BY FewerPayloads
<1> QED
  BY <1>1 DEF Snapped

\* When nothing new is reported, only a report of its run takes a row away or records it.
LEMMA FewerReports ==
    ASSUME Sound, Fewer, OnSite' \subseteq OnSite,
           \A b \in Backups : row[b] # "none" /\ row'[b] = "none" => \E s \in Payloads(b) : s.verdict = "deferred",
           \A b \in Backups : row'[b] \in {"success", "pruned"} =>
              Recorded(b) \/ \E s \in Payloads(b) : s.verdict = "success"
    PROVE  Reports' /\ SnappedRows'
<1>1. \A b \in Backups : Payloads(b)' \subseteq Payloads(b) /\ (Snapped(b)' => Snapped(b))
  BY FewerPayloads, FewerSnapped
<1>2. \A b \in Backups : (\A s, t \in Payloads(b) : s = t) /\ (Snapped(b) => row[b] # "none")
  BY DEF Sound, Reports, SnappedRows
<1>3. ASSUME NEW b \in Backups, NEW s \in Payloads(b)
      PROVE  /\ s.verdict # "none" /\ (s.forgotten # {} => s.verdict = "success")
             /\ s.verdict = "success" => row[b] # "none"
             /\ s.verdict = "deferred" => ~Snapped(b)
             /\ Recorded(b) => s.verdict = "success"
  BY <1>3 DEF Sound, Reports
<1>4. SnappedRows'
  BY <1>1, <1>2, <1>3 DEF SnappedRows
<1>5. ASSUME NEW b \in Backups, NEW s \in Payloads(b)'
      PROVE  /\ s.verdict # "none" /\ (s.forgotten # {} => s.verdict = "success")
             /\ s.verdict = "success" => row'[b] # "none"
             /\ s.verdict = "deferred" => ~(Snapped(b)')
             /\ row'[b] \in {"success", "pruned"} => s.verdict = "success"
  BY <1>1, <1>2, <1>3, <1>5
<1>6. ASSUME NEW b \in Backups, NEW s \in Payloads(b)', NEW t \in Payloads(b)' PROVE s = t
  BY <1>1, <1>2, <1>6
<1>7. Reports'
  BY <1>5, <1>6 DEF Reports, Recorded
<1> QED
  BY <1>4, <1>7

\* Children that have not reported are left alone, or end.
LEMMA SameJobs ==
    ASSUME Sound, Fewer, OnSite' \subseteq OnSite,
           \A b \in Backups : job'[b].at \in {"spawned", "saved"} =>
              /\ job[b].at = job'[b].at /\ row'[b] \in {"running", "failed"}
              /\ (\E q \in posts' : q.of = b) => PostsOf(b) # {}
              /\ job[b].at = "saved" => repo'.site = repo.site
    PROVE  Jobs'
<1>1. \A b \in Backups : Snapped(b)' => Snapped(b)
  BY FewerSnapped
<1>2. ASSUME NEW b \in Backups, job'[b].at \in {"spawned", "saved"}
      PROVE  /\ PostsOf(b)' = {} /\ row'[b] \in {"running", "failed"}
             /\ job'[b].at = "saved" => repo'.site # <<>> /\ Last(repo'.site) = b
             /\ job'[b].at = "spawned" => ~(Snapped(b)')
  <2>1. PostsOf(b) = {} /\ (job[b].at = "saved" => repo.site # <<>> /\ Last(repo.site) = b) /\ (job[b].at = "spawned" => ~Snapped(b))
    BY <1>2 DEF Sound, Jobs
  <2>2. PostsOf(b)' = {}
    BY <1>2, <2>1 DEF PostsOf
  <2> QED
    BY <1>1, <1>2, <2>1, <2>2
<1> QED
  BY <1>2 DEF Jobs

LEMMA SoundSame ==
    ASSUME BaseInv, row' = row, job' = job, posts' = posts, repo'.site = repo.site
    PROVE  Sound'
<1>1. \A b \in Backups : Payloads(b)' = Payloads(b)
  BY DEF Payloads, PostsOf
<1>2. \A b \in Backups : Snapped(b)' = Snapped(b) /\ Recorded(b)' = Recorded(b)
  BY <1>1 DEF Snapped, OnSite, Recorded
<1>3. Jobs'
  BY <1>2 DEF BaseInv, Sound, Jobs, PostsOf
<1>4. Reports'
  BY <1>1, <1>2 DEF BaseInv, Sound, Reports
<1>5. Handled' /\ SnappedRows'
  BY <1>2 DEF BaseInv, Sound, Handled, SnappedRows
<1> QED
  BY <1>3, <1>4, <1>5 DEF Sound

LEMMA AfterTryIs ==
    ASSUME RunsTyped, NEW b \in Backups
    PROVE  /\ AfterTry(b) \in [Backups -> JobType]
           /\ \A c \in Backups \ {b} : AfterTry(b)[c] = job[c]
           /\ \/ AfterTry(b)[b] = NoJob
              \/ /\ AfterTry(b)[b].at = "report" /\ AfterTry(b)[b].says = job[b].says
                 /\ AfterTry(b)[b].tries = job[b].tries /\ job[b].tries < Addresses
<1> DEFINE again == [job[b] EXCEPT !.at = "report"]
<1>1. job \in [Backups -> JobType]
  BY DEF RunsTyped
<1>2. again \in JobType /\ again.at = "report" /\ again.says = job[b].says /\ again.tries = job[b].tries
  BY <1>1 DEF JobType
<1>3. AfterTry(b) = [job EXCEPT ![b] = IF job[b].tries < Addresses THEN again ELSE NoJob]
  BY <1>1 DEF AfterTry
<1> HIDE DEF again
<1> QED
  BY <1>1, <1>2, <1>3, NoJobTyped

\* The child that waits for the answer to a report, and no other, hears of it.
Hears(p) ==
    \A b \in Backups : \/ job'[b] = job[b] /\ ~(b = p.of /\ Waiting(p))
                       \/ b = p.of /\ Waiting(p) /\ job'[b] = NoJob
                       \/ /\ b = p.of /\ Waiting(p) /\ job'[b].at = "report" /\ job'[b].says = job[b].says
                          /\ job'[b].tries = job[b].tries /\ job[b].tries < Addresses

LEMMA PostIs ==
    ASSUME RunsTyped, NEW p \in posts
    PROVE  p \in PostType /\ p.of \in Backups /\ p.says \in Payload /\ p.try \in 1..Addresses
  BY DEF RunsTyped, PostType

LEMMA AnswerIs ==
    ASSUME RunsTyped, NEW p \in posts, Answer(p)
    PROVE  posts' = posts \ {p} /\ Hears(p) /\ RunsTyped'
<1>1. p.of \in Backups /\ job \in [Backups -> JobType] /\ posts \subseteq PostType
  BY PostIs DEF RunsTyped
<1>2. posts' = posts \ {p} /\ job' = IF Waiting(p) THEN [job EXCEPT ![p.of] = NoJob] ELSE job
  BY DEF Answer
<1>3. job' \in [Backups -> JobType]
  BY <1>1, <1>2, NoJobTyped
<1>4. Hears(p)
  <2>1. CASE Waiting(p)
    BY <1>1, <1>2, <2>1 DEF Hears
  <2>2. CASE ~Waiting(p)
    BY <1>1, <1>2, <2>2 DEF Hears
  <2> QED
    BY <2>1, <2>2
<1> QED
  BY <1>1, <1>2, <1>3, <1>4 DEF RunsTyped

LEMMA ServerErrorIs ==
    ASSUME RunsTyped, NEW p \in posts, ServerError(p)
    PROVE  posts' = posts \ {p} /\ Hears(p) /\ RunsTyped'
<1>1. p.of \in Backups /\ job \in [Backups -> JobType] /\ posts \subseteq PostType
  BY PostIs DEF RunsTyped
<1>2. posts' = posts \ {p} /\ job' = IF Waiting(p) THEN AfterTry(p.of) ELSE job
  BY DEF ServerError
<1>3. job' \in [Backups -> JobType]
  BY <1>1, <1>2, AfterTryIs
<1>4. Hears(p)
  <2>1. CASE Waiting(p)
    BY <1>1, <1>2, <2>1, AfterTryIs DEF Hears
  <2>2. CASE ~Waiting(p)
    BY <1>1, <1>2, <2>2 DEF Hears
  <2> QED
    BY <2>1, <2>2
<1> QED
  BY <1>1, <1>2, <1>3, <1>4 DEF RunsTyped

LEMMA GotoIs ==
    ASSUME RunsTyped, NEW p \in posts, NEW at \in {"failing", "removing", "withdrawing"}, Goto(p, at)
    PROVE  LET q == [p EXCEPT !.at = at] IN
           /\ posts' = (posts \ {p}) \union {q} /\ job' = job /\ RunsTyped'
           /\ q.of = p.of /\ q.says = p.says /\ q.at = at /\ q.try = p.try
<1> DEFINE q == [p EXCEPT !.at = at]
<1>1. q \in PostType /\ q.of = p.of /\ q.says = p.says /\ q.at = at /\ q.try = p.try
  BY PostIs DEF PostType
<1>2. posts' = (posts \ {p}) \union {q} /\ job' = job
  BY DEF Goto
<1> HIDE DEF q
<1>3. RunsTyped'
  BY <1>1, <1>2 DEF RunsTyped
<1> QED
  BY <1>1, <1>2, <1>3 DEF q

\* A report is passed on or handled: nothing new is reported, and no child that has not reported is touched.
LEMMA HearsFewer ==
    ASSUME BaseInv, NEW p \in posts, Hears(p) \/ job' = job,
           \A q \in posts' : q \in posts \/ (q.of = p.of /\ q.says = p.says)
    PROVE  /\ Fewer
           /\ \A b \in Backups : job'[b].at \in {"spawned", "saved"} =>
                 job'[b] = job[b] /\ b # p.of /\ ((\E q \in posts' : q.of = b) => PostsOf(b) # {})
<1>1. p.of \in Backups /\ p.says \in Payloads(p.of)
  BY PostIs, PayloadIs DEF BaseInv, Typed
<1>2. \A q \in posts' : \E s \in Payloads(q.of) : q.says = s
  BY <1>1, PayloadIs
<1>3. \A b \in Backups : \/ job'[b] = job[b]
                         \/ job'[b].at = "none"
                         \/ job[b].at = "waiting" /\ job'[b].at = "report" /\ job'[b].says = job[b].says
  BY NoJobTyped DEF Hears, Waiting
<1>4. Fewer
  BY <1>2, <1>3 DEF Fewer
<1>5. ASSUME NEW b \in Backups, job'[b].at \in {"spawned", "saved"}
      PROVE  job'[b] = job[b] /\ b # p.of /\ ((\E q \in posts' : q.of = b) => PostsOf(b) # {})
  <2>1. job'[b] = job[b]
    BY <1>3, <1>5
  <2>2. PostsOf(b) = {}
    BY <1>5, <2>1 DEF BaseInv, Sound, Jobs
  <2>3. b # p.of
    BY <2>2 DEF PostsOf
  <2> QED
    BY <2>1, <2>2, <2>3 DEF PostsOf
<1> QED
  BY <1>4, <1>5

\* What a step on report p may do to a row.
RowHears(p, b) ==
    \/ row'[b] = row[b]
    \/ b = p.of /\ row[b] = "running" /\ row'[b] = "none" /\ p.says.verdict = "deferred"
    \/ b = p.of /\ row[b] # "none" /\ row'[b] = "failed" /\ p.says.verdict # "success"
    \/ b = p.of /\ row[b] # "none" /\ row'[b] = "success" /\ p.says.verdict = "success"
    \/ b \in p.says.forgotten /\ row[b] = "success" /\ row'[b] = "pruned"

LEMMA PostStep ==
    ASSUME BaseInv, NEW p \in posts, Hears(p) \/ job' = job,
           \A q \in posts' : \/ q \in posts
                             \/ /\ q.of = p.of /\ q.says = p.says
                                /\ q.at \in {"failing", "removing"} => p.says.verdict = "deferred"
                                /\ q.at = "withdrawing" => p.says.verdict = "success",
           repo'.site = repo.site,
           \A b \in Backups : RowHears(p, b)
    PROVE  Sound'
<1>1. Fewer
  BY HearsFewer
<1>2. OnSite' \subseteq OnSite
  BY DEF OnSite, ToSet
<1>3. p.of \in Backups /\ p.says \in Payloads(p.of)
  BY PostIs, PayloadIs DEF BaseInv, Typed
<1>4. Reports' /\ SnappedRows'
  BY <1>1, <1>2, <1>3, FewerReports DEF BaseInv, RowHears, Recorded
<1>5. Jobs'
  <2>1. ASSUME NEW b \in Backups, job'[b].at \in {"spawned", "saved"}
        PROVE  /\ job[b].at = job'[b].at /\ row'[b] \in {"running", "failed"}
               /\ (\E q \in posts' : q.of = b) => PostsOf(b) # {}
               /\ job[b].at = "saved" => repo'.site = repo.site
    <3>1. job'[b] = job[b] /\ b # p.of /\ ((\E q \in posts' : q.of = b) => PostsOf(b) # {})
      BY <2>1, HearsFewer
    <3>2. row[b] \in {"running", "failed"}
      BY <2>1, <3>1 DEF BaseInv, Sound, Jobs
    <3> QED
      BY <3>1, <3>2 DEF RowHears
  <2> QED
    BY <1>1, <1>2, <2>1, SameJobs DEF BaseInv
<1>6. Handled'
  BY DEF BaseInv, Sound, Handled
<1> QED
  BY <1>4, <1>5, <1>6 DEF Sound

LEMMA ReportIs ==
    ASSUME RunsTyped, NEW b \in Backups, job[b].at \in {"spawned", "saved"},
           NEW verdict \in {"success", "failed", "deferred"}, NEW forgotten \in SUBSET Backups,
           Report(b, verdict, forgotten)
    PROVE  /\ job' \in [Backups -> JobType] /\ job'[b].at = "report" /\ job'[b].tries = job[b].tries
           /\ job'[b].says.verdict = verdict /\ job'[b].says.forgotten = forgotten
           /\ \A c \in Backups \ {b} : job'[c] = job[c]
<1> DEFINE payload == [verdict |-> verdict, forgotten |-> forgotten]
           x == [job[b] EXCEPT !.at = "report", !.says = payload]
<1>1. payload \in Payload /\ payload.verdict = verdict /\ payload.forgotten = forgotten
  BY DEF Payload
<1>2. job \in [Backups -> JobType]
  BY DEF RunsTyped
<1> HIDE DEF payload
<1>3. x \in JobType /\ x.at = "report" /\ x.says = payload /\ x.tries = job[b].tries
  BY <1>1, <1>2 DEF JobType
<1>4. job' = [job EXCEPT ![b] = x]
  BY <1>2 DEF Report, payload
<1> HIDE DEF x
<1> QED
  BY <1>1, <1>2, <1>3, <1>4

\* At most one child holds the host.
LEMMA OneSaved ==
    ASSUME BaseInv, NEW b \in Backups, NEW c \in Backups, job[b].at = "saved", job[c].at = "saved"
    PROVE  b = c
  BY DEF BaseInv, Sound, Jobs

\* A child makes its report.
LEMMA ReportStep ==
    ASSUME BaseInv, NEW b \in Backups, job[b].at \in {"spawned", "saved"},
           NEW verdict \in {"success", "failed", "deferred"}, NEW forgotten \in SUBSET OnSite,
           Report(b, verdict, forgotten), forgotten # {} => verdict = "success",
           verdict = "deferred" => job[b].at = "spawned",
           posts' = posts, row' = row, OnSite' \subseteq OnSite, job[b].at = "spawned" => repo' = repo
    PROVE  Sound'
<1>1. /\ job'[b].at = "report" /\ job'[b].says.verdict = verdict /\ job'[b].says.forgotten = forgotten
      /\ \A c \in Backups \ {b} : job'[c] = job[c]
  <2>1. OnSite \subseteq Backups
    BY LenProperties DEF BaseInv, Typed, RepoTyped, OnSite, ToSet
  <2> QED
    BY <2>1, ReportIs DEF BaseInv, Typed
<1>2. PostsOf(b) = {} /\ row[b] \in {"running", "failed"}
  BY DEF BaseInv, Sound, Jobs
<1>3. \A c \in Backups \ {b} : Payloads(c)' = Payloads(c)
  BY <1>1 DEF Payloads, PostsOf
<1>4. Payloads(b)' = {job'[b].says}
  BY <1>1, <1>2 DEF Payloads, PostsOf
<1>5. \A c \in Backups : Snapped(c)' => Snapped(c)
  BY <1>1, <1>3, <1>4 DEF Snapped
<1>6. ASSUME NEW c \in Backups, job'[c].at \in {"spawned", "saved"}
      PROVE  /\ PostsOf(c)' = {} /\ row'[c] \in {"running", "failed"}
             /\ job'[c].at = "saved" => repo'.site # <<>> /\ Last(repo'.site) = c
             /\ job'[c].at = "spawned" => ~(Snapped(c)')
  <2>1. c # b /\ job'[c] = job[c]
    BY <1>1, <1>6
  <2>2. /\ PostsOf(c) = {} /\ row[c] \in {"running", "failed"}
        /\ job[c].at = "saved" => repo.site # <<>> /\ Last(repo.site) = c
        /\ job[c].at = "spawned" => ~Snapped(c)
    BY <1>6, <2>1 DEF BaseInv, Sound, Jobs
  <2>3. job[c].at = "saved" => repo' = repo
    BY <2>1, OneSaved
  <2> QED
    BY <1>5, <2>1, <2>2, <2>3 DEF PostsOf
<1>7. ASSUME NEW c \in Backups
      PROVE  /\ \A s, t \in Payloads(c)' : s = t
             /\ \A s \in Payloads(c)' :
                  /\ s.verdict # "none"
                  /\ s.forgotten # {} => s.verdict = "success"
                  /\ s.verdict = "success" => row'[c] # "none"
                  /\ s.verdict = "deferred" => ~(Snapped(c)')
                  /\ row'[c] \in {"success", "pruned"} => s.verdict = "success"
  <2>1. CASE c = b
    <3>1. verdict = "deferred" => ~Snapped(b)
      BY DEF BaseInv, Sound, Jobs
    <3> QED
      BY <1>1, <1>2, <1>4, <1>5, <2>1, <3>1
  <2>2. CASE c # b
    <3>1. Payloads(c)' = Payloads(c) /\ row'[c] = row[c]
      BY <1>3, <2>2
    <3> QED
      BY <1>5, <3>1 DEF BaseInv, Sound, Reports, Recorded
  <2> QED
    BY <2>1, <2>2
<1>8. Jobs' /\ Reports'
  BY <1>6, <1>7 DEF Jobs, Reports, Recorded
<1>9. Handled' /\ SnappedRows'
  BY <1>5 DEF BaseInv, Sound, Handled, SnappedRows
<1> QED
  BY <1>8, <1>9 DEF Sound

\* A snapshot of run b is saved; its child goes on or has died.
LEMMA SaveStep ==
    ASSUME BaseInv, NEW b \in Backups, job[b].at = "spawned", HostFree,
           job' \in [Backups -> JobType], job'[b].at \in {"saved", "none"}, \A c \in Backups \ {b} : job'[c] = job[c],
           repo'.site = Append(repo.site, b), posts' = posts, row' = row
    PROVE  Sound'
<1>1. PostsOf(b) = {} /\ row[b] \in {"running", "failed"} /\ ~Snapped(b)
  BY DEF BaseInv, Sound, Jobs
<1>2. /\ repo'.site # <<>> /\ Last(repo'.site) = b /\ OnSite' = OnSite \union {b}
  <2>1. repo.site \in Seq(Backups) /\ Distinct(repo.site) /\ b \notin ToSet(repo.site)
    BY <1>1 DEF BaseInv, Typed, RepoTyped, Snapped, OnSite
  <2> QED
    BY <2>1, AppendNew DEF OnSite
<1>3. \A c \in Backups : Payloads(c)' = Payloads(c)
  BY DEF Payloads, PostsOf
<1>4. \A c \in Backups : Snapped(c)' => Snapped(c) \/ c = b
  BY <1>2, <1>3 DEF Snapped
<1>5. Payloads(b) = {}
  BY <1>1 DEF Payloads
<1>6. ASSUME NEW c \in Backups, job'[c].at \in {"spawned", "saved"}
      PROVE  /\ PostsOf(c)' = {} /\ row'[c] \in {"running", "failed"}
             /\ job'[c].at = "saved" => repo'.site # <<>> /\ Last(repo'.site) = c
             /\ job'[c].at = "spawned" => ~(Snapped(c)')
  <2>1. CASE c = b
    BY <1>1, <1>2, <1>6, <2>1 DEF PostsOf
  <2>2. CASE c # b
    <3>1. job'[c] = job[c] /\ job[c].at # "saved"
      BY <2>2 DEF HostFree
    <3> QED
      BY <1>4, <1>6, <2>2, <3>1 DEF BaseInv, Sound, Jobs, PostsOf
  <2> QED
    BY <2>1, <2>2
<1>7. Jobs'
  BY <1>6 DEF Jobs
<1>8. Reports'
  <2>1. \A c \in Backups \ {b} : Snapped(c)' => Snapped(c)
    BY <1>4
  <2>2. \A c \in Backups : Recorded(c)' = Recorded(c)
    BY DEF Recorded
  <2> QED
    BY <1>3, <1>5, <2>1, <2>2 DEF BaseInv, Sound, Reports
<1>9. Handled' /\ SnappedRows'
  BY <1>1, <1>4 DEF BaseInv, Sound, Handled, SnappedRows
<1> QED
  BY <1>7, <1>8, <1>9 DEF Sound

-----------------------------------------------------------------------------
(* Types and reports: each action keeps BaseInv *)

LEMMA GuardsSame ==
    ASSUME BaseInv, restorer' = restorer, ToSet(repo'.host) \subseteq ToSet(repo.host)
    PROVE  Guards' /\ RestorersTyped'
  BY DEF BaseInv, Typed, Guards, RestorersTyped

\* Retention leaves the newest snapshot of a group, and the order of those it leaves.
LEMMA AfterForgetIs ==
    ASSUME RepoTyped, repo' \in AfterForget
    PROVE  /\ RepoTyped' /\ OnSite' \subseteq OnSite /\ ToSet(repo'.host) \subseteq ToSet(repo.host)
           /\ repo.site # <<>> => Last(repo.site) \in OnSite'
           /\ \A ord : Rising(repo.site, ord) => Rising(repo'.site, ord)
<1>1. PICK site \in Kept(repo.site), host \in Kept(repo.host) : repo' = [site |-> site, host |-> host]
  BY DEF AfterForget
<1>2. /\ repo.site \in Seq(Backups) /\ Distinct(repo.site) /\ repo.host \in Seq(Restores) /\ Distinct(repo.host)
  BY DEF RepoTyped
<1>3. /\ site \in Seq(Backups) /\ Distinct(site) /\ ToSet(site) \subseteq ToSet(repo.site)
      /\ repo.site # <<>> => Last(repo.site) \in ToSet(site)
      /\ \A ord : Rising(repo.site, ord) => Rising(site, ord)
  BY <1>2, KeptIs
<1>4. host \in Seq(Restores) /\ Distinct(host) /\ ToSet(host) \subseteq ToSet(repo.host)
  BY <1>2, KeptIs
<1>5. repo'.site = site /\ repo'.host = host /\ repo' \in [site: Seq(Backups), host: Seq(Restores)]
  BY <1>1, <1>3, <1>4
<1> QED
  BY <1>3, <1>4, <1>5 DEF RepoTyped, OnSite

\* The row and the child of a run that is created.
LEMMA CreateIs ==
    ASSUME BaseInv, NEW spawned \in BOOLEAN, Create(spawned)
    PROVE  \E b \in Backups :
              /\ row[b] = "none" /\ job[b] = NoJob /\ PostsOf(b) = {}
              /\ row' = [row EXCEPT ![b] = "running"]
              /\ job' \in [Backups -> JobType] /\ job'[b].at = (IF spawned THEN "spawned" ELSE "none")
              /\ \A c \in Backups \ {b} : job'[c] = job[c]
              /\ overlapped' \in BOOLEAN /\ ((\E c \in Backups : Live(c)) => overlapped') /\ (overlapped => overlapped')
              /\ faults' \in 0..MaxFaults /\ faults' >= faults /\ (~spawned => faults' > 0)
<1>1. PICK b \in Unused :
        /\ row' = [row EXCEPT ![b] = "running"]
        /\ job' = [job EXCEPT ![b] = [NoJob EXCEPT !.at = IF spawned THEN "spawned" ELSE "none"]]
        /\ overlapped' = (overlapped \/ \E c \in Backups : Live(c))
        /\ \/ spawned /\ faults' = faults
           \/ ~spawned /\ faults < MaxFaults /\ faults' = faults + 1
  BY DEF Create
<1>2. b \in Backups /\ row[b] = "none" /\ job[b] = NoJob /\ PostsOf(b) = {}
  BY DEF Unused
<1> DEFINE at == IF spawned THEN "spawned" ELSE "none"
           x == [NoJob EXCEPT !.at = at]
<1>3. at \in {"spawned", "none"}
  OBVIOUS
<1>4. job' = [job EXCEPT ![b] = x]
  BY <1>1
<1> HIDE DEF at
<1>5. x \in JobType /\ x.at = at
  BY <1>3, NoJobTyped DEF JobType
<1> HIDE DEF x
<1>6. /\ job' \in [Backups -> JobType] /\ job'[b].at = at
      /\ \A c \in Backups \ {b} : job'[c] = job[c]
  BY <1>2, <1>4, <1>5 DEF BaseInv, Typed, RunsTyped
<1>7. overlapped' \in BOOLEAN /\ ((\E c \in Backups : Live(c)) => overlapped') /\ (overlapped => overlapped')
  <2> DEFINE other == \E c \in Backups : Live(c)
  <2>1. overlapped' = (overlapped \/ other)
    BY <1>1
  <2> HIDE DEF other
  <2>2. overlapped' \in BOOLEAN /\ (other => overlapped') /\ (overlapped => overlapped')
    BY <2>1 DEF BaseInv, Typed, FlagsTyped
  <2> QED
    BY <2>2 DEF other
<1>8. faults' \in 0..MaxFaults /\ faults' >= faults /\ (~spawned => faults' > 0)
  BY <1>1, Constants DEF BaseInv, Typed, FaultsTyped
<1> QED
  BY <1>1, <1>2, <1>6, <1>7, <1>8 DEF at

LEMMA CreateStep ==
    ASSUME BaseInv, NEW spawned \in BOOLEAN, Create(spawned), posts' = posts, repo' = repo
    PROVE  Sound'
<1>1. PICK b \in Backups :
        /\ row[b] = "none" /\ job[b] = NoJob /\ PostsOf(b) = {}
        /\ row' = [row EXCEPT ![b] = "running"]
        /\ job'[b].at \in {"spawned", "none"}
        /\ \A c \in Backups \ {b} : job'[c] = job[c]
  BY CreateIs
<1>2. row'[b] = "running" /\ \A c \in Backups \ {b} : row'[c] = row[c]
  BY <1>1 DEF BaseInv, Typed, RowsTyped
<1>3. \A c \in Backups : Payloads(c)' = Payloads(c)
  BY <1>1, NoJobTyped DEF Payloads, PostsOf
<1>4. Payloads(b) = {}
  BY <1>1, NoJobTyped DEF Payloads
<1>5. \A c \in Backups : Snapped(c)' = Snapped(c)
  BY <1>3 DEF Snapped, OnSite
<1>6. ~Snapped(b)
  BY <1>1 DEF BaseInv, Sound, SnappedRows
<1>7. Jobs'
  <2> SUFFICES ASSUME NEW c \in Backups, job'[c].at \in {"spawned", "saved"}
               PROVE  /\ PostsOf(c)' = {} /\ row'[c] \in {"running", "failed"}
                      /\ job'[c].at = "saved" => repo'.site # <<>> /\ Last(repo'.site) = c
                      /\ job'[c].at = "spawned" => ~(Snapped(c)')
    BY DEF Jobs
  <2>1. CASE c = b
    BY <1>1, <1>2, <1>5, <1>6, <2>1 DEF PostsOf
  <2>2. CASE c # b
    BY <1>1, <1>2, <1>5, <2>2 DEF BaseInv, Sound, Jobs, PostsOf
  <2> QED
    BY <2>1, <2>2
<1>8. Reports'
  <2>1. \A c \in Backups \ {b} : Recorded(c)' = Recorded(c)
    BY <1>2 DEF Recorded
  <2> QED
    BY <1>2, <1>3, <1>4, <1>5, <2>1 DEF BaseInv, Sound, Reports
<1>9. Handled' /\ SnappedRows'
  BY <1>2, <1>5 DEF BaseInv, Sound, Handled, SnappedRows
<1> QED
  BY <1>7, <1>8, <1>9 DEF Sound

\* A new row is inserted by whoever starts a run.
LEMMA BaseCreate ==
    ASSUME BaseInv, NEW spawned \in BOOLEAN, Create(spawned), StartersTyped', posts' = posts, repo' = repo,
           restored' = restored, late' = late, misjudged' = misjudged, told' = told, restorer' = restorer
    PROVE  BaseInv'
<1>1. RowsTyped' /\ RunsTyped' /\ overlapped' \in BOOLEAN /\ FaultsTyped'
  <2>1. PICK b \in Backups : /\ row' = [row EXCEPT ![b] = "running"] /\ job' \in [Backups -> JobType]
                             /\ overlapped' \in BOOLEAN /\ faults' \in 0..MaxFaults
    BY CreateIs
  <2> QED
    BY <2>1 DEF BaseInv, Typed, RowsTyped, RunsTyped, FaultsTyped
<1>2. Sound' /\ Guards' /\ RestorersTyped'
  BY CreateStep, GuardsSame
<1> QED
  BY <1>1, <1>2 DEF BaseInv, Typed, FlagsTyped, RepoTyped

LEMMA BaseStartRun == ASSUME BaseInv, NEW q \in Requests, StartRun(q) PROVE BaseInv'
<1>1. /\ starter' = [starter EXCEPT ![q] = "done"] /\ pass' = pass /\ posts' = posts /\ repo' = repo
      /\ restored' = restored /\ late' = late /\ misjudged' = misjudged /\ told' = told /\ restorer' = restorer
      /\ \E spawned \in BOOLEAN : Create(spawned)
  BY DEF StartRun
<1>2. StartersTyped'
  BY <1>1 DEF BaseInv, Typed, StartersTyped
<1> QED
  BY <1>1, <1>2, BaseCreate

\* Steps that touch no row, run, snapshot or restore.
LEMMA BaseLooks ==
    ASSUME BaseInv, StartersTyped', row' = row, restored' = restored, job' = job, posts' = posts, restorer' = restorer,
           repo' = repo, late' \in BOOLEAN, told' \in BOOLEAN, faults' = faults, overlapped' = overlapped,
           misjudged' = misjudged
    PROVE  BaseInv'
<1>1. Sound' /\ Guards' /\ RestorersTyped'
  BY SoundSame, GuardsSame
<1> QED
  BY <1>1 DEF BaseInv, Typed, RowsTyped, RunsTyped, FlagsTyped, RepoTyped, FaultsTyped

LEMMA BaseFindRunning == ASSUME BaseInv, NEW q \in Requests, FindRunning(q) PROVE BaseInv'
<1>1. starter' = [starter EXCEPT ![q] = "checked"] /\ pass' = pass
  BY DEF FindRunning
<1>2. StartersTyped'
  BY <1>1 DEF BaseInv, Typed, StartersTyped
<1> QED
  BY <1>2, BaseLooks DEF FindRunning, rowVars, jobVars, history, BaseInv, Typed, FlagsTyped

LEMMA PassTyped ==
    ASSUME BaseInv, starter' = starter, NEW at \in {"idle", "sweeping", "checked"},
           NEW dead \in SUBSET (Runs \union RestoreRuns), pass' = [at |-> at, dead |-> dead]
    PROVE  StartersTyped'
  BY DEF BaseInv, Typed, StartersTyped

LEMMA BaseReadInFlight == ASSUME BaseInv, ReadInFlight PROVE BaseInv'
<1>1. PICK dead \in SUBSET InFlight : pass' = [at |-> "sweeping", dead |-> dead]
  BY DEF ReadInFlight, List
<1>2. dead \in SUBSET (Runs \union RestoreRuns) /\ starter' = starter
  BY DEF InFlight, ReadInFlight, List
<1>3. StartersTyped'
  BY <1>1, <1>2, PassTyped
<1> QED
  BY <1>3, BaseLooks DEF ReadInFlight, List, rowVars, jobVars, history, BaseInv, Typed, FlagsTyped

LEMMA PassGoes ==
    ASSUME BaseInv, starter' = starter, NEW at \in {"idle", "checked"}, pass' = [pass EXCEPT !.at = at]
    PROVE  StartersTyped'
  BY DEF BaseInv, Typed, StartersTyped

LEMMA BaseFindDue == ASSUME BaseInv, FindDue PROVE BaseInv'
<1>1. StartersTyped'
  BY PassGoes DEF FindDue
<1> QED
  BY <1>1, BaseLooks DEF FindDue, rowVars, jobVars, history, BaseInv, Typed, FlagsTyped

LEMMA BaseStartScheduled == ASSUME BaseInv, StartScheduled PROVE BaseInv'
<1>1. /\ pass' = [pass EXCEPT !.at = "idle"] /\ starter' = starter /\ posts' = posts /\ repo' = repo
      /\ restored' = restored /\ late' = late /\ misjudged' = misjudged /\ told' = told /\ restorer' = restorer
      /\ \/ (\E spawned \in BOOLEAN : Create(spawned))
         \/ row' = row /\ job' = job /\ overlapped' = overlapped /\ faults' = faults
  BY DEF StartScheduled
<1>2. StartersTyped'
  BY <1>1, PassGoes
<1> QED
  BY <1>1, <1>2, BaseCreate, BaseLooks DEF BaseInv, Typed, FlagsTyped

LEMMA BaseLimitPasses == ASSUME BaseInv, LimitPasses PROVE BaseInv'
<1>1. StartersTyped'
  BY DEF LimitPasses, BaseInv, Typed, StartersTyped
<1> QED
  BY <1>1, BaseLooks DEF LimitPasses, jobVars

\* Giving up a run or a restore.
LEMMA AbandonIs ==
    ASSUME BaseInv, NEW run \in Runs \union RestoreRuns, Abandon(run)
    PROVE  /\ StartersTyped' /\ RowsTyped' /\ misjudged' \in BOOLEAN /\ (misjudged => misjudged')
           /\ late' = late /\ job' = job /\ posts' = posts /\ restorer' = restorer /\ repo' = repo
           /\ faults' = faults /\ overlapped' = overlapped /\ told' = told
           /\ \A b \in Backups : row'[b] = row[b] \/ (row'[b] = "failed" /\ (row[b] = "success" => misjudged'))
<1> DEFINE there == row[run[2]] # "none"
<1>1. /\ pass' = [at |-> IF Rest(run) = {} THEN "idle" ELSE "sweeping", dead |-> Rest(run)]
      /\ row' = IF run[1] = "backup" /\ there THEN [row EXCEPT ![run[2]] = "failed"] ELSE row
      /\ restored' = IF run[1] = "restore" /\ there THEN [restored EXCEPT ![run[2]] = "failed"] ELSE restored
      /\ late' = late /\ starter' = starter /\ job' = job /\ posts' = posts /\ restorer' = restorer /\ repo' = repo
      /\ faults' = faults /\ overlapped' = overlapped /\ told' = told
  BY DEF Abandon, jobVars
<1>2. StartersTyped'
  <2>1. Rest(run) \in SUBSET (Runs \union RestoreRuns)
    BY DEF BaseInv, Typed, StartersTyped, Rest
  <2>2. PICK at \in {"idle", "sweeping"} : pass' = [at |-> at, dead |-> Rest(run)]
    BY <1>1
  <2> QED
    BY <1>1, <2>1, <2>2, PassTyped
<1>3. run[2] \in Backups
  BY DEF Runs, RestoreRuns
<1>4. RowsTyped'
  BY <1>1, <1>3 DEF BaseInv, Typed, RowsTyped
<1>5. misjudged' \in BOOLEAN /\ (misjudged => misjudged') /\ (run[1] = "backup" /\ row[run[2]] = "success" => misjudged')
  <2> DEFINE wrong == run[1] = "backup" /\ row[run[2]] = "success"
  <2>1. misjudged' = (misjudged \/ wrong)
    BY DEF Abandon
  <2> HIDE DEF wrong
  <2>2. misjudged' \in BOOLEAN /\ (misjudged => misjudged') /\ (wrong => misjudged')
    BY <2>1 DEF BaseInv, Typed, FlagsTyped
  <2> QED
    BY <2>2 DEF wrong
<1>6. \A b \in Backups : row'[b] = row[b] \/ (row'[b] = "failed" /\ (row[b] = "success" => misjudged'))
  <2>1. CASE run[1] = "backup" /\ there
    BY <1>1, <1>3, <1>5, <2>1 DEF BaseInv, Typed, RowsTyped
  <2>2. CASE ~(run[1] = "backup" /\ there)
    BY <1>1, <2>2
  <2> QED
    BY <2>1, <2>2
<1> QED
  BY <1>1, <1>2, <1>4, <1>5, <1>6

LEMMA BaseAbandon == ASSUME BaseInv, NEW run \in Runs \union RestoreRuns, Abandon(run) PROVE BaseInv'
<1>1. Fewer
  BY PayloadIs, AbandonIs, PostIs DEF Fewer, BaseInv, Typed
<1>2. OnSite' \subseteq OnSite
  BY AbandonIs DEF OnSite
<1>3. Reports' /\ SnappedRows'
  BY <1>1, <1>2, AbandonIs, FewerReports DEF BaseInv, Recorded
<1>4. Jobs'
  <2>1. ASSUME NEW b \in Backups, job'[b].at \in {"spawned", "saved"}
        PROVE  /\ job[b].at = job'[b].at /\ row'[b] \in {"running", "failed"}
               /\ (\E q \in posts' : q.of = b) => PostsOf(b) # {}
               /\ job[b].at = "saved" => repo'.site = repo.site
    BY <2>1, AbandonIs DEF BaseInv, Sound, Jobs, PostsOf
  <2> QED
    BY <1>1, <1>2, <2>1, SameJobs DEF BaseInv
<1>5. Handled'
  BY AbandonIs DEF BaseInv, Sound, Handled
<1>6. Guards' /\ RestorersTyped'
  BY AbandonIs, GuardsSame
<1> QED
  BY <1>3, <1>4, <1>5, <1>6, AbandonIs DEF BaseInv, Sound, Typed, FlagsTyped, RunsTyped, RepoTyped, FaultsTyped

\* Steps of children and reports.
LEMMA BaseRuns ==
    ASSUME BaseInv, Sound', RowsTyped', RunsTyped', RepoTyped', FaultsTyped', late' \in BOOLEAN, told' \in BOOLEAN,
           starter' = starter, pass' = pass, restorer' = restorer, overlapped' = overlapped, misjudged' = misjudged,
           ToSet(repo'.host) \subseteq ToSet(repo.host)
    PROVE  BaseInv'
<1>1. Guards' /\ RestorersTyped' /\ StartersTyped'
  BY GuardsSame DEF BaseInv, Typed, StartersTyped
<1> QED
  BY <1>1 DEF BaseInv, Typed, FlagsTyped

LEMMA FaultIs == ASSUME FaultsTyped, Fault PROVE FaultsTyped' /\ faults' > 0 /\ faults' = faults + 1
  BY Constants DEF FaultsTyped, Fault

LEMMA OnSiteIs == ASSUME RepoTyped PROVE OnSite \subseteq Backups
  BY LenProperties DEF RepoTyped, OnSite, ToSet

LEMMA BaseDefer == ASSUME BaseInv, NEW b \in Backups, Defer(b) PROVE BaseInv'
<1>1. /\ job[b].at = "spawned" /\ Report(b, "deferred", {}) /\ posts' = posts /\ repo' = repo /\ row' = row
      /\ restored' = restored /\ late' = late /\ told' = told /\ faults' = faults /\ starter' = starter /\ pass' = pass
      /\ restorer' = restorer /\ overlapped' = overlapped /\ misjudged' = misjudged
  BY DEF Defer, rowVars, history
<1>2. Sound'
  BY <1>1, ReportStep DEF OnSite
<1>3. RunsTyped'
  BY <1>1, ReportIs DEF BaseInv, Typed, RunsTyped
<1> QED
  BY <1>1, <1>2, <1>3, BaseRuns DEF BaseInv, Typed, RowsTyped, RepoTyped, FaultsTyped, FlagsTyped

LEMMA BaseFailRun == ASSUME BaseInv, NEW b \in Backups, FailRun(b) PROVE BaseInv'
<1>1. /\ job[b].at = "spawned" /\ Report(b, "failed", {}) /\ posts' = posts /\ repo' = repo /\ row' = row
      /\ restored' = restored /\ late' = late /\ told' = told /\ faults' = faults /\ starter' = starter /\ pass' = pass
      /\ restorer' = restorer /\ overlapped' = overlapped /\ misjudged' = misjudged
  BY DEF FailRun, rowVars, history
<1>2. Sound'
  BY <1>1, ReportStep DEF OnSite
<1>3. RunsTyped'
  BY <1>1, ReportIs DEF BaseInv, Typed, RunsTyped
<1> QED
  BY <1>1, <1>2, <1>3, BaseRuns DEF BaseInv, Typed, RowsTyped, RepoTyped, FaultsTyped, FlagsTyped

\* A snapshot of the site is appended.
LEMMA SavedIs ==
    ASSUME BaseInv, NEW b \in Backups, b \notin OnSite, repo' = [repo EXCEPT !.site = Append(@, b)]
    PROVE  /\ repo'.site = Append(repo.site, b) /\ repo'.host = repo.host /\ RepoTyped'
           /\ OnSite' = OnSite \union {b} /\ repo'.site # <<>> /\ Last(repo'.site) = b
<1>1. repo \in [site: Seq(Backups), host: Seq(Restores)] /\ Distinct(repo.site) /\ Distinct(repo.host)
  BY DEF BaseInv, Typed, RepoTyped
<1> DEFINE site == Append(repo.site, b)
<1>2. /\ site \in Seq(Backups) /\ site # <<>> /\ Distinct(site) /\ ToSet(site) = OnSite \union {b} /\ Last(site) = b
  BY <1>1, AppendNew DEF OnSite
<1>3. repo' = [repo EXCEPT !.site = site]
  BY <1>1
<1> HIDE DEF site
<1>4. repo' \in [site: Seq(Backups), host: Seq(Restores)] /\ repo'.site = site /\ repo'.host = repo.host
  BY <1>1, <1>2, <1>3
<1> QED
  BY <1>1, <1>2, <1>4 DEF RepoTyped, OnSite, site

LEMMA BaseSave == ASSUME BaseInv, NEW b \in Backups, Save(b) PROVE BaseInv'
<1>1. /\ job[b].at = "spawned" /\ HostFree /\ job' = [job EXCEPT ![b].at = "saved"]
      /\ repo' = [repo EXCEPT !.site = Append(@, b)] /\ posts' = posts /\ row' = row
      /\ restored' = restored /\ late' = late /\ told' = told /\ faults' = faults /\ starter' = starter /\ pass' = pass
      /\ restorer' = restorer /\ overlapped' = overlapped /\ misjudged' = misjudged
  BY DEF Save, rowVars, history
<1> DEFINE x == [job[b] EXCEPT !.at = "saved"]
<1>2. job[b] \in JobType /\ job \in [Backups -> JobType]
  BY DEF BaseInv, Typed, RunsTyped
<1>3. x \in JobType /\ x.at = "saved"
  BY <1>2 DEF JobType
<1>4. job' = [job EXCEPT ![b] = x]
  BY <1>1, <1>2
<1> HIDE DEF x
<1>5. job' \in [Backups -> JobType] /\ job'[b].at = "saved" /\ \A c \in Backups \ {b} : job'[c] = job[c]
  BY <1>2, <1>3, <1>4
<1>6. b \notin OnSite
  BY <1>1 DEF BaseInv, Sound, Jobs, Snapped
<1>7. repo'.site = Append(repo.site, b) /\ repo'.host = repo.host /\ RepoTyped'
  BY <1>1, <1>6, SavedIs
<1>8. Sound'
  BY <1>1, <1>5, <1>7, SaveStep
<1> QED
  BY <1>1, <1>5, <1>7, <1>8, BaseRuns DEF BaseInv, Typed, RowsTyped, RunsTyped, FaultsTyped, FlagsTyped

LEMMA BaseForget == ASSUME BaseInv, NEW b \in Backups, Forget(b) PROVE BaseInv'
<1> DEFINE forgotten == OnSite \ ToSet(repo'.site)
<1>1. /\ job[b].at = "saved" /\ Report(b, "success", forgotten) /\ repo' \in AfterForget /\ posts' = posts /\ row' = row
      /\ restored' = restored /\ late' = late /\ told' = told /\ faults' = faults /\ starter' = starter /\ pass' = pass
      /\ restorer' = restorer /\ overlapped' = overlapped /\ misjudged' = misjudged
  BY DEF Forget, rowVars, history, OnSite
<1>2. forgotten \in SUBSET OnSite
  OBVIOUS
<1> HIDE DEF forgotten
<1>3. RepoTyped' /\ OnSite' \subseteq OnSite /\ ToSet(repo'.host) \subseteq ToSet(repo.host)
  BY <1>1, AfterForgetIs DEF BaseInv, Typed
<1>4. OnSite \subseteq Backups
  BY OnSiteIs DEF BaseInv, Typed
<1>5. Sound'
  BY <1>1, <1>2, <1>3, ReportStep
<1>6. RunsTyped'
  BY <1>1, <1>2, <1>4, ReportIs DEF BaseInv, Typed, RunsTyped
<1> QED
  BY <1>1, <1>3, <1>5, <1>6, BaseRuns DEF BaseInv, Typed, RowsTyped, FaultsTyped, FlagsTyped

LEMMA BaseSessionCut == ASSUME BaseInv, NEW b \in Backups, SessionCut(b) PROVE BaseInv'
<1>1. /\ job[b].at = "saved" /\ Report(b, "failed", {}) /\ repo' \in AfterForget /\ posts' = posts /\ row' = row /\ Fault
      /\ restored' = restored /\ late' = late /\ told' = told /\ starter' = starter /\ pass' = pass
      /\ restorer' = restorer /\ overlapped' = overlapped /\ misjudged' = misjudged
  BY DEF SessionCut, rowVars
<1>2. RepoTyped' /\ OnSite' \subseteq OnSite /\ ToSet(repo'.host) \subseteq ToSet(repo.host)
  BY <1>1, AfterForgetIs DEF BaseInv, Typed
<1>3. Sound'
  BY <1>1, <1>2, ReportStep
<1>4. RunsTyped'
  BY <1>1, ReportIs DEF BaseInv, Typed, RunsTyped
<1>5. FaultsTyped'
  BY <1>1, FaultIs DEF BaseInv, Typed
<1> QED
  BY <1>1, <1>2, <1>3, <1>4, <1>5, BaseRuns DEF BaseInv, Typed, RowsTyped, FlagsTyped

\* A child that is gone says nothing any more.
LEMMA ChildEnds ==
    ASSUME BaseInv, NEW b \in Backups, job' = [job EXCEPT ![b] = NoJob], posts' = posts, row' = row,
           OnSite' \subseteq OnSite, job[b].at # "saved" => repo'.site = repo.site
    PROVE  Sound'
<1>1. job'[b].at = "none" /\ \A c \in Backups \ {b} : job'[c] = job[c]
  BY NoJobTyped DEF BaseInv, Typed, RunsTyped
<1>2. Fewer
  BY <1>1, PostIs, PayloadIs DEF Fewer, BaseInv, Typed
<1>3. Reports' /\ SnappedRows'
  BY <1>2, FewerReports DEF BaseInv, Recorded
<1>4. Jobs'
  <2>1. ASSUME NEW c \in Backups, job'[c].at \in {"spawned", "saved"}
        PROVE  /\ job[c].at = job'[c].at /\ row'[c] \in {"running", "failed"}
               /\ (\E q \in posts' : q.of = c) => PostsOf(c) # {}
               /\ job[c].at = "saved" => repo'.site = repo.site
    <3>1. c # b /\ job'[c] = job[c]
      BY <1>1, <2>1
    <3>2. row[c] \in {"running", "failed"}
      BY <2>1, <3>1 DEF BaseInv, Sound, Jobs
    <3>3. job[c].at = "saved" => job[b].at # "saved"
      BY <3>1, OneSaved
    <3> QED
      BY <3>1, <3>2, <3>3 DEF PostsOf
  <2> QED
    BY <1>2, <2>1, SameJobs DEF BaseInv
<1>5. Handled'
  BY DEF BaseInv, Sound, Handled
<1> QED
  BY <1>3, <1>4, <1>5 DEF Sound

LEMMA BaseChildDies == ASSUME BaseInv, NEW b \in Backups, ChildDies(b) PROVE BaseInv'
<1>1. /\ job' = [job EXCEPT ![b] = NoJob] /\ Fault /\ posts' = posts /\ row' = row
      /\ restored' = restored /\ late' = late /\ told' = told /\ starter' = starter /\ pass' = pass
      /\ restorer' = restorer /\ overlapped' = overlapped /\ misjudged' = misjudged
  BY DEF ChildDies, rowVars
<1>2. \/ repo' = repo
      \/ job[b].at = "spawned" /\ HostFree /\ repo' = [repo EXCEPT !.site = Append(@, b)]
      \/ job[b].at = "saved" /\ repo' \in AfterForget
  BY DEF ChildDies
<1>3. Sound' /\ RepoTyped' /\ ToSet(repo'.host) \subseteq ToSet(repo.host)
  <2>1. CASE repo' = repo
    <3>1. RepoTyped' /\ OnSite' = OnSite
      BY <2>1 DEF BaseInv, Typed, RepoTyped, OnSite
    <3> QED
      BY <1>1, <2>1, <3>1, ChildEnds
  <2>2. CASE job[b].at = "spawned" /\ HostFree /\ repo' = [repo EXCEPT !.site = Append(@, b)]
    <3>1. b \notin OnSite
      BY <2>2 DEF BaseInv, Sound, Jobs, Snapped
    <3>2. repo'.site = Append(repo.site, b) /\ repo'.host = repo.host /\ RepoTyped'
      BY <2>2, <3>1, SavedIs
    <3>3. job' \in [Backups -> JobType] /\ job'[b].at = "none" /\ \A c \in Backups \ {b} : job'[c] = job[c]
      BY <1>1, NoJobTyped DEF BaseInv, Typed, RunsTyped
    <3> QED
      BY <1>1, <2>2, <3>2, <3>3, SaveStep
  <2>3. CASE job[b].at = "saved" /\ repo' \in AfterForget
    <3>1. RepoTyped' /\ OnSite' \subseteq OnSite /\ ToSet(repo'.host) \subseteq ToSet(repo.host)
      BY <2>3, AfterForgetIs DEF BaseInv, Typed
    <3> QED
      BY <1>1, <2>3, <3>1, ChildEnds
  <2> QED
    BY <1>2, <2>1, <2>2, <2>3
<1>4. RunsTyped'
  BY <1>1, NoJobTyped DEF BaseInv, Typed, RunsTyped
<1>5. FaultsTyped'
  BY <1>1, FaultIs DEF BaseInv, Typed
<1> QED
  BY <1>1, <1>3, <1>4, <1>5, BaseRuns DEF BaseInv, Typed, RowsTyped, FlagsTyped

\* The report is sent to the next address.
LEMMA SendIs ==
    ASSUME RunsTyped, NEW b \in Backups, Send(b)
    PROVE  /\ RunsTyped' /\ job[b].at = "report"
           /\ job'[b].at = "waiting" /\ job'[b].says = job[b].says /\ \A c \in Backups \ {b} : job'[c] = job[c]
           /\ \E q : /\ posts' = posts \union {q} /\ q.of = b /\ q.says = job[b].says
                     /\ q.at = "received" /\ q.try = job'[b].tries
<1> DEFINE n == job[b].tries + 1
           x == [job[b] EXCEPT !.at = "waiting", !.tries = n]
           q == [of |-> b, try |-> n, says |-> job[b].says, at |-> "received"]
<1>1. job \in [Backups -> JobType] /\ posts \subseteq PostType /\ job[b] \in JobType
  BY DEF RunsTyped
<1>2. job[b].at = "report" /\ job[b].tries < Addresses
  BY DEF Send
<1>3. job[b].tries \in 0..Addresses /\ job[b].says \in Payload
  BY <1>1 DEF JobType
<1>4. n \in 0..Addresses /\ n \in 1..Addresses
  BY <1>2, <1>3, Constants
<1>5. job' = [job EXCEPT ![b] = x] /\ posts' = posts \union {q}
  BY <1>1 DEF Send
<1> HIDE DEF n
<1>6. x \in JobType /\ x.at = "waiting" /\ x.says = job[b].says /\ x.tries = n
  BY <1>1, <1>4 DEF JobType
<1>7. q \in PostType /\ q.of = b /\ q.says = job[b].says /\ q.at = "received" /\ q.try = n
  BY <1>3, <1>4 DEF PostType
<1> HIDE DEF x, q
<1>8. job' \in [Backups -> JobType] /\ job'[b] = x /\ \A c \in Backups \ {b} : job'[c] = job[c]
  BY <1>1, <1>5, <1>6
<1>9. posts' \subseteq PostType
  BY <1>1, <1>5, <1>7
<1> QED
  BY <1>2, <1>5, <1>6, <1>7, <1>8, <1>9 DEF RunsTyped

LEMMA BaseSend == ASSUME BaseInv, NEW b \in Backups, Send(b) PROVE BaseInv'
<1>1. /\ repo' = repo /\ row' = row
      /\ restored' = restored /\ late' = late /\ told' = told /\ faults' = faults /\ starter' = starter /\ pass' = pass
      /\ restorer' = restorer /\ overlapped' = overlapped /\ misjudged' = misjudged
  BY DEF Send, rowVars, history
<1>2. PICK q : /\ RunsTyped' /\ job[b].at = "report"
               /\ job'[b].at = "waiting" /\ job'[b].says = job[b].says /\ \A c \in Backups \ {b} : job'[c] = job[c]
               /\ posts' = posts \union {q} /\ q.of = b /\ q.says = job[b].says /\ q.at = "received"
  BY SendIs DEF BaseInv, Typed
<1>3. Fewer
  BY <1>2, PayloadIs DEF Fewer
<1>4. OnSite' \subseteq OnSite
  BY <1>1 DEF OnSite
<1>5. Reports' /\ SnappedRows'
  BY <1>1, <1>3, <1>4, FewerReports DEF BaseInv, Recorded
<1>6. Jobs'
  <2>1. ASSUME NEW c \in Backups, job'[c].at \in {"spawned", "saved"}
        PROVE  /\ job[c].at = job'[c].at /\ row'[c] \in {"running", "failed"}
               /\ (\E p \in posts' : p.of = c) => PostsOf(c) # {}
               /\ job[c].at = "saved" => repo'.site = repo.site
    <3>1. c # b /\ job'[c] = job[c]
      BY <1>2, <2>1
    <3> QED
      BY <1>1, <1>2, <2>1, <3>1 DEF BaseInv, Sound, Jobs, PostsOf
  <2> QED
    BY <1>3, <1>4, <2>1, SameJobs DEF BaseInv
<1>7. Handled'
  BY <1>2 DEF BaseInv, Sound, Handled
<1>8. Sound'
  BY <1>5, <1>6, <1>7 DEF Sound
<1> QED
  BY <1>1, <1>2, <1>8, BaseRuns DEF BaseInv, Typed, RowsTyped, RepoTyped, FaultsTyped, FlagsTyped

LEMMA BaseNoAnswer == ASSUME BaseInv, NEW b \in Backups, NoAnswer(b) PROVE BaseInv'
<1>1. /\ repo' = repo /\ row' = row /\ Fault /\ job[b].at = "waiting" /\ job' = AfterTry(b)
      /\ restored' = restored /\ late' = late /\ told' = told /\ starter' = starter /\ pass' = pass
      /\ restorer' = restorer /\ overlapped' = overlapped /\ misjudged' = misjudged
  BY DEF NoAnswer, rowVars
<1>2. PICK p \in PostsOf(b) : p.try = job[b].tries /\ posts' \in {posts, IF p.at = "received" THEN posts \ {p} ELSE posts}
  BY DEF NoAnswer
<1>3. p \in posts /\ p.of = b /\ Waiting(p)
  BY <1>1, <1>2 DEF PostsOf, Waiting
<1>4. Hears(p) /\ job' \in [Backups -> JobType]
  BY <1>1, <1>3, AfterTryIs DEF BaseInv, Typed, Hears
<1>5. posts' \subseteq posts
  BY <1>2
<1>6. RunsTyped' /\ RowsTyped' /\ RepoTyped'
  BY <1>1, <1>4, <1>5 DEF BaseInv, Typed, RunsTyped, RowsTyped, RepoTyped
<1>7. Sound'
  BY <1>1, <1>3, <1>4, <1>5, PostStep DEF RowHears
<1>8. FaultsTyped'
  BY <1>1, FaultIs DEF BaseInv, Typed
<1> QED
  BY <1>1, <1>6, <1>7, <1>8, BaseRuns DEF BaseInv, Typed, FlagsTyped

LEMMA SaysIs ==
    ASSUME BaseInv, NEW p \in posts
    PROVE  /\ p.says.verdict \in {"success", "failed", "deferred"}
           /\ p.says.forgotten # {} => p.says.verdict = "success"
           /\ p.says.verdict = "success" => row[p.of] # "none"
           /\ row[p.of] \in {"success", "pruned"} => p.says.verdict = "success"
<1>1. p.of \in Backups /\ p.says \in Payload /\ p.says \in Payloads(p.of)
  BY PostIs, PayloadIs DEF BaseInv, Typed
<1> QED
  BY <1>1 DEF BaseInv, Sound, Reports, Payload, Recorded

LEMMA BaseDecideDeferral == ASSUME BaseInv, NEW p \in posts, DecideDeferral(p) PROVE BaseInv'
<1>1. /\ repo' = repo /\ row' = row /\ p.says.verdict = "deferred" /\ faults' = faults
      /\ restored' = restored /\ late' = late /\ told' = told /\ starter' = starter /\ pass' = pass
      /\ restorer' = restorer /\ overlapped' = overlapped /\ misjudged' = misjudged
  BY DEF DecideDeferral, rowVars, history
<1>2. PICK at \in {"failing", "removing"} : Goto(p, at)
  BY DEF DecideDeferral
<1>3. RunsTyped
  BY DEF BaseInv, Typed
<1>4. \E q : /\ posts' = (posts \ {p}) \union {q} /\ job' = job /\ RunsTyped'
             /\ q.of = p.of /\ q.says = p.says /\ q.at = at
  <2> DEFINE q == [p EXCEPT !.at = at]
  <2>1. /\ posts' = (posts \ {p}) \union {q} /\ job' = job /\ RunsTyped'
        /\ q.of = p.of /\ q.says = p.says /\ q.at = at
    BY <1>3, <1>2, GotoIs
  <2> QED
    BY <2>1
<1>5. Sound'
  BY <1>1, <1>2, <1>4, PostStep DEF RowHears
<1> QED
  BY <1>1, <1>4, <1>5, BaseRuns DEF BaseInv, Typed, RowsTyped, RepoTyped, FaultsTyped, FlagsTyped

LEMMA BaseRemoveRun == ASSUME BaseInv, NEW p \in posts, RemoveRun(p) PROVE BaseInv'
<1>1. /\ p.at = "removing" /\ row' = IF row[p.of] = "running" THEN [row EXCEPT ![p.of] = "none"] ELSE row
      /\ Answer(p) /\ repo' = repo /\ faults' = faults
      /\ restored' = restored /\ late' = late /\ told' = told /\ starter' = starter /\ pass' = pass
      /\ restorer' = restorer /\ overlapped' = overlapped /\ misjudged' = misjudged
  BY DEF RemoveRun, history
<1>2. posts' = posts \ {p} /\ Hears(p) /\ RunsTyped'
  BY <1>1, AnswerIs DEF BaseInv, Typed
<1>3. p.says.verdict = "deferred" /\ p.of \in Backups
  BY <1>1, PostIs DEF BaseInv, Sound, Handled, Typed
<1>4. RowsTyped' /\ \A b \in Backups : RowHears(p, b)
  BY <1>1, <1>3 DEF BaseInv, Typed, RowsTyped, RowHears
<1>5. Sound'
  BY <1>1, <1>2, <1>4, PostStep
<1> QED
  BY <1>1, <1>2, <1>4, <1>5, BaseRuns DEF BaseInv, Typed, RepoTyped, FaultsTyped, FlagsTyped

\* A row that is there takes the outcome, and the report may go on to withdraw others.
LEMMA OutcomeIs ==
    ASSUME BaseInv, NEW p \in posts, RecordOutcome(p)
    PROVE  /\ late' \in BOOLEAN /\ told' \in BOOLEAN /\ RunsTyped' /\ (Hears(p) \/ job' = job)
           /\ \/ row[p.of] = "none" /\ row' = row /\ posts' = posts \ {p} /\ Hears(p)
              \/ \E verdict \in {"success", "failed"} :
                    /\ row[p.of] # "none" /\ row' = [row EXCEPT ![p.of] = verdict]
                    /\ verdict = "success" <=> p.says.verdict = "success"
                    /\ \/ p.says.forgotten = {} /\ posts' = posts \ {p} /\ Hears(p)
                       \/ /\ p.says.forgotten # {} /\ verdict = "success" /\ job' = job
                          /\ \E q : /\ posts' = (posts \ {p}) \union {q} /\ q.try = p.try
                                    /\ q.of = p.of /\ q.says = p.says /\ q.at = "withdrawing"
<1> DEFINE verdict == IF p.at = "failing" THEN "failed" ELSE p.says.verdict
<1>1. /\ p.at = "failing" \/ (p.at = "received" /\ p.says.verdict # "deferred")
      /\ IF row[p.of] = "none"
         THEN ServerError(p) /\ row' = row /\ late' = late /\ told' = told
         ELSE /\ row' = [row EXCEPT ![p.of] = verdict]
              /\ late' = (late /\ verdict # "success")
              /\ told' = (late' /\ verdict = "failed")
              /\ IF p.says.forgotten # {} THEN Goto(p, "withdrawing") ELSE Answer(p)
  BY DEF RecordOutcome
<1>2. p.at = "failing" => p.says.verdict = "deferred"
  BY DEF BaseInv, Sound, Handled
<1>3. verdict \in {"success", "failed"} /\ (verdict = "success" <=> p.says.verdict = "success")
  BY <1>1, <1>2, SaysIs
<1> HIDE DEF verdict
<1>4. RunsTyped
  BY DEF BaseInv, Typed
<1>5. late \in BOOLEAN /\ told \in BOOLEAN
  BY DEF BaseInv, Typed, FlagsTyped
<1>6. CASE row[p.of] = "none"
  <2>1. ServerError(p) /\ row' = row
    BY <1>1, <1>6
  <2>2. late' \in BOOLEAN /\ told' \in BOOLEAN
    BY <1>1, <1>5, <1>6
  <2> QED
    BY <1>4, <1>6, <2>1, <2>2, ServerErrorIs
<1>7. CASE row[p.of] # "none"
  <2>1. row' = [row EXCEPT ![p.of] = verdict] /\ IF p.says.forgotten # {} THEN Goto(p, "withdrawing") ELSE Answer(p)
    BY <1>1, <1>7
  <2>2. late' \in BOOLEAN /\ told' \in BOOLEAN
    <3> DEFINE good == verdict # "success"
               bad == verdict = "failed"
    <3>1. late' = (late /\ good) /\ told' = (late' /\ bad)
      BY <1>1, <1>7
    <3> HIDE DEF good, bad
    <3> QED
      BY <1>5, <3>1
  <2>3. CASE p.says.forgotten = {}
    <3>1. posts' = posts \ {p} /\ Hears(p) /\ RunsTyped'
      BY <1>4, <2>1, <2>3, AnswerIs
    <3> QED
      BY <1>3, <1>7, <2>1, <2>2, <2>3, <3>1
  <2>4. CASE p.says.forgotten # {}
    <3>1. Goto(p, "withdrawing")
      BY <2>1, <2>4
    <3>2. PICK q : /\ posts' = (posts \ {p}) \union {q} /\ job' = job /\ RunsTyped'
                   /\ q.of = p.of /\ q.says = p.says /\ q.at = "withdrawing" /\ q.try = p.try
      BY <1>4, <3>1, GotoIs, ZenonT(30)
    <3>3. verdict = "success"
      BY <1>3, <2>4, SaysIs
    <3> QED
      BY <1>3, <1>7, <2>1, <2>2, <2>4, <3>2, <3>3
  <2> QED
    BY <2>3, <2>4
<1> QED
  BY <1>6, <1>7

LEMMA BaseRecordOutcome == ASSUME BaseInv, NEW p \in posts, RecordOutcome(p) PROVE BaseInv'
<1>1. /\ repo' = repo /\ faults' = faults /\ restored' = restored /\ starter' = starter /\ pass' = pass
      /\ restorer' = restorer /\ overlapped' = overlapped /\ misjudged' = misjudged
  BY DEF RecordOutcome
<1>2. late' \in BOOLEAN /\ told' \in BOOLEAN /\ RunsTyped' /\ (Hears(p) \/ job' = job)
  BY OutcomeIs
<1>3. p.of \in Backups
  BY PostIs DEF BaseInv, Typed
<1>4. RowsTyped' /\ \A b \in Backups : RowHears(p, b)
  BY <1>1, <1>3, OutcomeIs DEF BaseInv, Typed, RowsTyped, RowHears
<1>5. \A q \in posts' : q \in posts \/ (q.of = p.of /\ q.says = p.says /\ q.at = "withdrawing" /\ p.says.verdict = "success")
  BY OutcomeIs
<1>6. Sound'
  BY <1>1, <1>2, <1>4, <1>5, PostStep
<1> QED
  BY <1>1, <1>2, <1>4, <1>6, BaseRuns DEF BaseInv, Typed, RepoTyped, FaultsTyped, FlagsTyped

LEMMA BaseWithdraw == ASSUME BaseInv, NEW p \in posts, Withdraw(p) PROVE BaseInv'
<1>1. /\ row' = [b \in Backups |-> IF b \in p.says.forgotten /\ row[b] = "success" THEN "pruned" ELSE row[b]]
      /\ Answer(p) /\ repo' = repo /\ faults' = faults
      /\ restored' = restored /\ late' = late /\ told' = told /\ starter' = starter /\ pass' = pass
      /\ restorer' = restorer /\ overlapped' = overlapped /\ misjudged' = misjudged
  BY DEF Withdraw, history
<1>2. posts' = posts \ {p} /\ Hears(p) /\ RunsTyped'
  BY <1>1, AnswerIs DEF BaseInv, Typed
<1>3. RowsTyped' /\ \A b \in Backups : RowHears(p, b)
  BY <1>1 DEF BaseInv, Typed, RowsTyped, RowHears
<1>4. Sound'
  BY <1>1, <1>2, <1>3, PostStep
<1> QED
  BY <1>1, <1>2, <1>3, <1>4, BaseRuns DEF BaseInv, Typed, RepoTyped, FaultsTyped, FlagsTyped

LEMMA BaseRecordFails == ASSUME BaseInv, NEW p \in posts, RecordFails(p) PROVE BaseInv'
<1>1. /\ row' = row /\ ServerError(p) /\ repo' = repo /\ Fault
      /\ restored' = restored /\ late' = late /\ told' = told /\ starter' = starter /\ pass' = pass
      /\ restorer' = restorer /\ overlapped' = overlapped /\ misjudged' = misjudged
  BY DEF RecordFails, rowVars
<1>2. posts' = posts \ {p} /\ Hears(p) /\ RunsTyped'
  BY <1>1, ServerErrorIs DEF BaseInv, Typed
<1>3. Sound'
  BY <1>1, <1>2, PostStep DEF RowHears
<1>4. FaultsTyped'
  BY <1>1, FaultIs DEF BaseInv, Typed
<1> QED
  BY <1>1, <1>2, <1>3, <1>4, BaseRuns DEF BaseInv, Typed, RowsTyped, RepoTyped, FlagsTyped

\* Steps of restores: no backup of the site, and no report, is touched.
LEMMA BaseRestores ==
    ASSUME BaseInv, row' = row, RowsTyped', RestorersTyped', Guards', RepoTyped', FaultsTyped', repo'.site = repo.site,
           late' = late, starter' = starter, pass' = pass, job' = job, posts' = posts,
           overlapped' = overlapped, misjudged' = misjudged, told' = told
    PROVE  BaseInv'
<1>1. Sound'
  BY SoundSame
<1> QED
  BY <1>1 DEF BaseInv, Typed, FlagsTyped, StartersTyped, RunsTyped

LEMMA RestorerMoves ==
    ASSUME RestorersTyped, NEW r \in Restores,
           NEW at \in {"spawned", "guarded", "success", "failed", "done"}, Move(r, at)
    PROVE  RestorersTyped' /\ restorer'[r].at = at /\ \A o \in Restores \ {r} : restorer'[o] = restorer[o]
<1> DEFINE x == [restorer[r] EXCEPT !.at = at]
<1>1. restorer \in [Restores -> RestorerType] /\ restorer[r] \in RestorerType
  BY DEF RestorersTyped
<1>2. x \in RestorerType /\ x.at = at
  BY <1>1 DEF RestorerType
<1>3. restorer' = [restorer EXCEPT ![r] = x]
  BY <1>1 DEF Move
<1> HIDE DEF x
<1> QED
  BY <1>1, <1>2, <1>3 DEF RestorersTyped

\* A restore that has its safety snapshot has been started.
LEMMA GuardsStay ==
    ASSUME Guards, NEW r \in Restores, repo'.host = repo.host, \A o \in Restores \ {r} : restorer'[o] = restorer[o],
           \/ restorer'[r].at \notin {"idle", "checked", "spawned"}
           \/ restorer[r].at \in {"idle", "checked", "spawned"}
    PROVE  Guards'
  BY DEF Guards

LEMMA BaseCheckRestorable ==
    ASSUME BaseInv, NEW r \in Restores, NEW b \in Backups, CheckRestorable(r, b) PROVE BaseInv'
<1>1. /\ restorer' = [restorer EXCEPT ![r] = [at |-> "checked", of |-> b]] /\ restorer[r].at = "idle"
      /\ row' = row /\ restored' = restored /\ late' = late /\ starter' = starter /\ pass' = pass /\ job' = job
      /\ posts' = posts /\ repo' = repo /\ faults' = faults /\ overlapped' = overlapped
      /\ misjudged' = misjudged /\ told' = told
  BY DEF CheckRestorable, rowVars, jobVars, history
<1>2. [at |-> "checked", of |-> b] \in RestorerType
  BY DEF RestorerType
<1>3. RestorersTyped' /\ \A o \in Restores \ {r} : restorer'[o] = restorer[o]
  BY <1>1, <1>2 DEF BaseInv, Typed, RestorersTyped
<1>4. Guards'
  BY <1>1, <1>3, GuardsStay DEF BaseInv
<1> QED
  BY <1>1, <1>3, <1>4, BaseRestores DEF BaseInv, Typed, RowsTyped, RepoTyped, FaultsTyped

LEMMA BaseStartRestore == ASSUME BaseInv, NEW r \in Restores, StartRestore(r) PROVE BaseInv'
<1>1. /\ restored' = [restored EXCEPT ![restorer[r].of] = "running"] /\ Move(r, "spawned") /\ restorer[r].at = "checked"
      /\ row' = row /\ late' = late /\ starter' = starter /\ pass' = pass /\ job' = job
      /\ posts' = posts /\ repo' = repo /\ faults' = faults /\ overlapped' = overlapped
      /\ misjudged' = misjudged /\ told' = told
  BY DEF StartRestore, jobVars, history
<1>2. RestorersTyped' /\ \A o \in Restores \ {r} : restorer'[o] = restorer[o]
  BY <1>1, RestorerMoves DEF BaseInv, Typed
<1>3. Guards'
  BY <1>1, <1>2, GuardsStay DEF BaseInv
<1>4. RowsTyped'
  BY <1>1 DEF BaseInv, Typed, RowsTyped
<1> QED
  BY <1>1, <1>2, <1>3, <1>4, BaseRestores DEF BaseInv, Typed, RepoTyped, FaultsTyped

LEMMA BaseSafetySnapshot == ASSUME BaseInv, NEW r \in Restores, SafetySnapshot(r) PROVE BaseInv'
<1>1. /\ restorer[r].at = "spawned" /\ row' = row /\ restored' = restored /\ late' = late /\ starter' = starter
      /\ pass' = pass /\ job' = job /\ posts' = posts /\ faults' = faults /\ overlapped' = overlapped
      /\ misjudged' = misjudged /\ told' = told
  BY DEF SafetySnapshot, rowVars, jobVars, history
<1>2. CASE Move(r, "failed") /\ repo' = repo
  <2>1. RestorersTyped' /\ \A o \in Restores \ {r} : restorer'[o] = restorer[o]
    BY <1>2, RestorerMoves DEF BaseInv, Typed
  <2>2. Guards'
    BY <1>1, <1>2, <2>1, GuardsStay DEF BaseInv
  <2> QED
    BY <1>1, <1>2, <2>1, <2>2, BaseRestores DEF BaseInv, Typed, RowsTyped, RepoTyped, FaultsTyped
<1>3. CASE Move(r, "guarded") /\ repo' = [repo EXCEPT !.host = Append(@, r)]
  <2> DEFINE host == Append(repo.host, r)
  <2>1. repo \in [site: Seq(Backups), host: Seq(Restores)] /\ Distinct(repo.site) /\ Distinct(repo.host)
    BY DEF BaseInv, Typed, RepoTyped
  <2>2. r \notin ToSet(repo.host)
    BY <1>1 DEF BaseInv, Guards
  <2>3. host \in Seq(Restores) /\ Distinct(host) /\ ToSet(host) = ToSet(repo.host) \union {r}
    BY <2>1, <2>2, AppendNew
  <2>4. repo' = [repo EXCEPT !.host = host]
    BY <1>3
  <2> HIDE DEF host
  <2>5. RepoTyped' /\ repo'.site = repo.site /\ ToSet(repo'.host) = ToSet(repo.host) \union {r}
    BY <2>1, <2>3, <2>4 DEF RepoTyped
  <2>6. RestorersTyped' /\ restorer'[r].at = "guarded" /\ \A o \in Restores \ {r} : restorer'[o] = restorer[o]
    BY <1>3, RestorerMoves DEF BaseInv, Typed
  <2>7. Guards'
    BY <2>5, <2>6 DEF BaseInv, Guards
  <2> QED
    BY <1>1, <2>5, <2>6, <2>7, BaseRestores DEF BaseInv, Typed, RowsTyped, FaultsTyped
<1> QED
  BY <1>2, <1>3 DEF SafetySnapshot

LEMMA BaseFetchAndApply == ASSUME BaseInv, NEW r \in Restores, FetchAndApply(r) PROVE BaseInv'
<1>1. /\ row' = row /\ restored' = restored /\ late' = late /\ starter' = starter
      /\ pass' = pass /\ job' = job /\ posts' = posts /\ repo' = repo /\ faults' = faults /\ overlapped' = overlapped
      /\ misjudged' = misjudged /\ told' = told
  BY DEF FetchAndApply, rowVars, jobVars, history
<1>2. PICK at \in {"success", "failed"} : Move(r, at)
  BY DEF FetchAndApply
<1>3. RestorersTyped' /\ restorer'[r].at = at /\ \A o \in Restores \ {r} : restorer'[o] = restorer[o]
  BY <1>2, RestorerMoves DEF BaseInv, Typed
<1>4. Guards'
  BY <1>1, <1>3, GuardsStay DEF BaseInv
<1> QED
  BY <1>1, <1>3, <1>4, BaseRestores DEF BaseInv, Typed, RowsTyped, RepoTyped, FaultsTyped

LEMMA BaseRecordRestore == ASSUME BaseInv, NEW r \in Restores, RecordRestore(r) PROVE BaseInv'
<1>1. /\ restored' = [restored EXCEPT ![restorer[r].of] = restorer[r].at] /\ Move(r, "done")
      /\ restorer[r].at \in {"success", "failed"}
      /\ row' = row /\ late' = late /\ starter' = starter /\ pass' = pass /\ job' = job
      /\ posts' = posts /\ repo' = repo /\ faults' = faults /\ overlapped' = overlapped
      /\ misjudged' = misjudged /\ told' = told
  BY DEF RecordRestore, jobVars, history
<1>2. RestorersTyped' /\ restorer'[r].at = "done" /\ \A o \in Restores \ {r} : restorer'[o] = restorer[o]
  BY <1>1, RestorerMoves DEF BaseInv, Typed
<1>3. Guards'
  BY <1>1, <1>2, GuardsStay DEF BaseInv
<1>4. RowsTyped'
  BY <1>1 DEF BaseInv, Typed, RowsTyped
<1> QED
  BY <1>1, <1>2, <1>3, <1>4, BaseRestores DEF BaseInv, Typed, RepoTyped, FaultsTyped

LEMMA BaseRestoreDies == ASSUME BaseInv, NEW r \in Restores, RestoreDies(r) PROVE BaseInv'
<1>1. /\ Move(r, "done") /\ Fault /\ row' = row /\ restored' = restored /\ late' = late /\ starter' = starter
      /\ pass' = pass /\ job' = job /\ posts' = posts /\ repo' = repo /\ overlapped' = overlapped
      /\ misjudged' = misjudged /\ told' = told
  BY DEF RestoreDies, rowVars, jobVars
<1>2. RestorersTyped' /\ restorer'[r].at = "done" /\ \A o \in Restores \ {r} : restorer'[o] = restorer[o]
  BY <1>1, RestorerMoves DEF BaseInv, Typed
<1>3. Guards'
  BY <1>1, <1>2, GuardsStay DEF BaseInv
<1>4. FaultsTyped'
  BY <1>1, FaultIs DEF BaseInv, Typed
<1> QED
  BY <1>1, <1>2, <1>3, <1>4, BaseRestores DEF BaseInv, Typed, RowsTyped, RepoTyped

LEMMA BaseInit == Init => BaseInv
<1> SUFFICES ASSUME Init PROVE BaseInv
  OBVIOUS
<1>1. \A b \in Backups : job[b] = NoJob /\ PostsOf(b) = {} /\ Payloads(b) = {} /\ row[b] = "none"
  BY NoJobTyped DEF Init, PostsOf, Payloads
<1>2. repo.site = <<>> /\ repo.host = <<>> /\ OnSite = {} /\ ToSet(repo.host) = {}
  BY DEF Init, OnSite, ToSet
<1>3. RepoTyped
  <2>1. <<>> \in Seq(Backups) /\ <<>> \in Seq(Restores) /\ Distinct(<<>>)
    BY DEF Distinct
  <2> QED
    BY <2>1 DEF Init, RepoTyped
<1>4. RestorersTyped /\ RunsTyped
  <2>1. [at |-> "idle", of |-> 1] \in RestorerType
    BY Constants DEF RestorerType
  <2> QED
    BY <2>1, NoJobTyped DEF Init, RestorersTyped, RunsTyped
<1>5. RowsTyped /\ FlagsTyped /\ StartersTyped /\ FaultsTyped
  <2>1. FlagsTyped
    BY DEF Init, FlagsTyped
  <2>2. faults \in 0..MaxFaults
    BY Constants DEF Init
  <2>3. pass = [at |-> "idle", dead |-> {}] /\ starter = [q \in Requests |-> "idle"]
    BY DEF Init
  <2>4. StartersTyped
    BY <2>3 DEF StartersTyped
  <2>5. RowsTyped
    BY DEF Init, RowsTyped
  <2> QED
    BY <2>1, <2>2, <2>4, <2>5 DEF FaultsTyped
<1>6. Sound
  BY <1>1, <1>2, NoJobTyped DEF Init, Sound, Jobs, Reports, Handled, SnappedRows, Snapped
<1>7. Guards
  BY <1>2 DEF Guards
<1> QED
  BY <1>3, <1>4, <1>5, <1>6, <1>7 DEF BaseInv, Typed

LEMMA BaseStutter == ASSUME BaseInv, UNCHANGED vars PROVE BaseInv'
<1>1. StartersTyped'
  BY DEF vars, BaseInv, Typed, StartersTyped
<1> QED
  BY <1>1, BaseLooks DEF vars, rowVars, jobVars, history, BaseInv, Typed, FlagsTyped

LEMMA BaseNext == BaseInv /\ [Next]_vars => BaseInv'
<1> SUFFICES ASSUME BaseInv, [Next]_vars PROVE BaseInv'
  OBVIOUS
<1>1. CASE Sweep
  BY <1>1, BaseReadInFlight, BaseAbandon DEF Sweep
<1>2. CASE Schedule
  BY <1>2, BaseFindDue, BaseStartScheduled DEF Schedule
<1>3. CASE Start
  BY <1>3, BaseFindRunning, BaseStartRun DEF Start
<1>4. CASE Record
  BY <1>4, BaseDecideDeferral, BaseRemoveRun, BaseRecordOutcome, BaseWithdraw DEF Record
<1>5. CASE Work
  BY <1>5, BaseDefer, BaseFailRun, BaseSave, BaseForget, BaseSend DEF Work, Child
<1>6. CASE Failure
  BY <1>6, BaseSessionCut, BaseChildDies, BaseNoAnswer, BaseRecordFails, BaseRestoreDies DEF Failure
<1>7. CASE LimitPasses
  BY <1>7, BaseLimitPasses
<1>8. CASE \E r \in Restores : AskRestore(r) \/ Restore(r)
  BY <1>8, BaseCheckRestorable, BaseStartRestore, BaseSafetySnapshot, BaseFetchAndApply, BaseRecordRestore
     DEF AskRestore, Restore
<1>9. CASE UNCHANGED vars
  BY <1>9, BaseStutter
<1> QED
  BY <1>1, <1>2, <1>3, <1>4, <1>5, <1>6, <1>7, <1>8, <1>9 DEF Next

LEMMA BaseAlways == Spec => []BaseInv
  BY BaseInit, BaseNext, PTL DEF Spec

\* SiteBackup rows, children, reports, restores and snapshots have the values the code gives them; no snapshot
\* is twice in the repository, so no group outgrows the runs or restores that saved into it.
THEOREM TypeCorrect == Spec => []TypeOK
  BY BaseAlways, InvTypes, PTL

-----------------------------------------------------------------------------
(* While runs do not overlap and no report is lost, one run is under way at most, its report is handled  *)
(* while its child waits for the answer, and a row that offers a restore has its snapshot or is about to *)
(* be withdrawn.                                                                                         *)

Quiet ==
    /\ \A b, c \in Backups : job[b] # NoJob /\ job[c] # NoJob => b = c
    /\ \A p \in posts : Waiting(p)
    /\ \A p, q \in posts : p = q
    /\ \A b \in Backups : \A s \in Payloads(b) : s.verdict = "success" => b \in OnSite
    /\ \A b \in Backups : row[b] = "success" /\ b \notin OnSite => Withdrawing(b)
Calm == faults = 0 /\ ~overlapped
QuietInv == Calm => Quiet

\* A report on its way is the only thing under way.
LEMMA QuietPost ==
    ASSUME BaseInv, Quiet, NEW p \in posts
    PROVE  /\ posts = {p} /\ Waiting(p) /\ p.of \in Backups /\ job[p.of].at = "waiting"
           /\ \A c \in Backups \ {p.of} : job[c] = NoJob
           /\ \A b \in Backups : Withdrawing(b) => b \in p.says.forgotten
           /\ p.says.verdict = "success" => p.of \in OnSite
           /\ job[p.of].says = p.says
<1>1. posts = {p} /\ Waiting(p) /\ p.of \in Backups
  BY PostIs DEF Quiet, BaseInv, Typed
<1>2. job[p.of].at = "waiting" /\ job[p.of] # NoJob
  BY <1>1, NoJobTyped DEF Waiting
<1>3. \A c \in Backups \ {p.of} : job[c] = NoJob
  BY <1>1, <1>2 DEF Quiet
<1>4. p.says \in Payloads(p.of) /\ job[p.of].says \in Payloads(p.of)
  BY <1>1, <1>2, PayloadIs
<1>5. job[p.of].says = p.says
  BY <1>1, <1>4 DEF BaseInv, Sound, Reports
<1>6. p.says.verdict = "success" => p.of \in OnSite
  BY <1>1, <1>4 DEF Quiet
<1>7. \A b \in Backups : Withdrawing(b) => b \in p.says.forgotten
  BY <1>1, <1>2, <1>3, NoJobTyped DEF Withdrawing
<1> QED
  BY <1>1, <1>2, <1>3, <1>5, <1>6, <1>7

\* A child that is at work and has not sent its report is the only thing under way.
LEMMA QuietChild ==
    ASSUME BaseInv, Quiet, NEW b \in Backups, job[b].at \in {"spawned", "saved", "report"}
    PROVE  /\ posts = {} /\ \A c \in Backups \ {b} : job[c] = NoJob /\ Payloads(c) = {}
           /\ Payloads(b) = IF job[b].at = "report" THEN {job[b].says} ELSE {}
           /\ \A c \in Backups : Withdrawing(c) => job[b].at = "report" /\ c \in job[b].says.forgotten
<1>1. \A c \in Backups \ {b} : job[c] = NoJob
  BY NoJobTyped DEF Quiet
<1>2. posts = {}
  <2> SUFFICES ASSUME NEW p \in posts PROVE FALSE
    OBVIOUS
  <2> QED
    BY <1>1, QuietPost, NoJobTyped
<1>3. \A c \in Backups : PostsOf(c) = {}
  BY <1>2 DEF PostsOf
<1>4. \A c \in Backups \ {b} : Payloads(c) = {}
  BY <1>1, <1>3, NoJobTyped DEF Payloads
<1>5. Payloads(b) = IF job[b].at = "report" THEN {job[b].says} ELSE {}
  BY <1>3 DEF Payloads
<1>6. \A c \in Backups : Withdrawing(c) => job[b].at = "report" /\ c \in job[b].says.forgotten
  BY <1>1, <1>2, NoJobTyped DEF Withdrawing
<1> QED
  BY <1>1, <1>2, <1>4, <1>5, <1>6

LEMMA QuietSame ==
    ASSUME Quiet, row' = row, job' = job, posts' = posts, OnSite' = OnSite
    PROVE  Quiet'
<1>1. \A b \in Backups : Payloads(b)' = Payloads(b) /\ Withdrawing(b)' = Withdrawing(b)
  BY DEF Payloads, PostsOf, Withdrawing
<1>2. \A p \in posts : Waiting(p)' = Waiting(p)
  BY DEF Waiting
<1> QED
  BY <1>1, <1>2 DEF Quiet

\* Rows may be given up.
LEMMA QuietAbandon ==
    ASSUME BaseInv, Quiet, NEW run \in Runs \union RestoreRuns, Abandon(run) PROVE Quiet'
<1>1. job' = job /\ posts' = posts /\ OnSite' = OnSite /\ \A b \in Backups : row'[b] = "success" => row[b] = "success"
  BY AbandonIs DEF OnSite
<1>2. \A b \in Backups : Payloads(b)' = Payloads(b) /\ Withdrawing(b)' = Withdrawing(b)
  BY <1>1 DEF Payloads, PostsOf, Withdrawing
<1>3. \A p \in posts : Waiting(p)' = Waiting(p)
  BY <1>1 DEF Waiting
<1> QED
  BY <1>1, <1>2, <1>3 DEF Quiet

LEMMA QuietCreate ==
    ASSUME BaseInv, Quiet, NEW spawned \in BOOLEAN, Create(spawned), ~overlapped', posts' = posts, repo' = repo
    PROVE  Quiet'
<1>1. PICK b \in Backups :
        /\ row' = [row EXCEPT ![b] = "running"] /\ job' \in [Backups -> JobType] /\ job'[b].at \in {"spawned", "none"}
        /\ \A c \in Backups \ {b} : job'[c] = job[c]
        /\ (\E c \in Backups : Live(c)) => overlapped'
  BY CreateIs
<1>2. \A c \in Backups : job[c] = NoJob
  BY <1>1 DEF Live
<1>3. posts = {}
  <2> SUFFICES ASSUME NEW p \in posts PROVE FALSE
    OBVIOUS
  <2> QED
    BY <1>2, QuietPost, NoJobTyped
<1>4. \A c \in Backups : Payloads(c)' = {} /\ ~Withdrawing(c)
  BY <1>1, <1>2, <1>3, NoJobTyped DEF Payloads, PostsOf, Withdrawing
<1>5. \A c \in Backups : row'[c] = "success" => row[c] = "success"
  BY <1>1 DEF BaseInv, Typed, RowsTyped
<1>6. OnSite' = OnSite
  BY DEF OnSite
<1>7. \A b1, c1 \in Backups : job'[b1] # NoJob /\ job'[c1] # NoJob => b1 = c1
  BY <1>1, <1>2
<1> QED
  BY <1>3, <1>4, <1>5, <1>6, <1>7 DEF Quiet

LEMMA QuietReport ==
    ASSUME BaseInv, Quiet, NEW b \in Backups, job[b].at \in {"spawned", "saved"},
           NEW verdict \in {"success", "failed", "deferred"}, NEW forgotten \in SUBSET Backups,
           Report(b, verdict, forgotten), posts' = posts, row' = row, verdict = "success" => b \in OnSite',
           \A c \in Backups : c \in OnSite => c \in OnSite' \/ c \in forgotten
    PROVE  Quiet'
<1>1. /\ job'[b].at = "report" /\ job'[b].says.verdict = verdict /\ job'[b].says.forgotten = forgotten
      /\ \A c \in Backups \ {b} : job'[c] = job[c]
  BY ReportIs DEF BaseInv, Typed
<1>2. /\ posts = {} /\ \A c \in Backups \ {b} : job[c] = NoJob
      /\ \A c \in Backups : ~Withdrawing(c)
  BY QuietChild
<1>3. \A c \in Backups \ {b} : Payloads(c)' = {}
  BY <1>1, <1>2, NoJobTyped DEF Payloads, PostsOf
<1>4. Payloads(b)' = {job'[b].says}
  BY <1>1, <1>2 DEF Payloads, PostsOf
<1>5. \A c \in forgotten : Withdrawing(c)'
  BY <1>1 DEF Withdrawing
<1>6. \A c \in Backups : row'[c] = "success" /\ c \notin OnSite' => Withdrawing(c)'
  BY <1>2, <1>5 DEF Quiet
<1>7. \A c \in Backups : \A s \in Payloads(c)' : s.verdict = "success" => c \in OnSite'
  BY <1>1, <1>3, <1>4
<1>8. \A b1, c1 \in Backups : job'[b1] # NoJob /\ job'[c1] # NoJob => b1 = c1
  BY <1>1, <1>2
<1> QED
  BY <1>2, <1>6, <1>7, <1>8 DEF Quiet

LEMMA QuietSave ==
    ASSUME BaseInv, Quiet, NEW b \in Backups, Save(b) PROVE Quiet'
<1>1. job[b].at = "spawned" /\ job' = [job EXCEPT ![b].at = "saved"] /\ posts' = posts /\ row' = row
      /\ repo' = [repo EXCEPT !.site = Append(@, b)]
  BY DEF Save, rowVars
<1>2. /\ posts = {} /\ \A c \in Backups \ {b} : job[c] = NoJob
      /\ \A c \in Backups : ~Withdrawing(c)
  BY <1>1, QuietChild
<1>3. job'[b].at = "saved" /\ \A c \in Backups \ {b} : job'[c] = job[c]
  BY <1>1 DEF BaseInv, Typed, RunsTyped, JobType
<1>4. b \notin OnSite
  BY <1>1 DEF BaseInv, Sound, Jobs, Snapped
<1>5. OnSite' = OnSite \union {b}
  BY <1>1, <1>4, SavedIs
<1>6. \A c \in Backups : Payloads(c)' = {}
  BY <1>1, <1>2, <1>3, NoJobTyped DEF Payloads, PostsOf
<1>7. \A b1, c1 \in Backups : job'[b1] # NoJob /\ job'[c1] # NoJob => b1 = c1
  BY <1>2, <1>3
<1>8. \A c \in Backups : row'[c] = "success" => c \in OnSite'
  BY <1>1, <1>2, <1>5 DEF Quiet
<1> QED
  BY <1>1, <1>2, <1>6, <1>7, <1>8 DEF Quiet

LEMMA QuietForget ==
    ASSUME BaseInv, Quiet, NEW b \in Backups, Forget(b) PROVE Quiet'
<1> DEFINE forgotten == OnSite \ ToSet(repo'.site)
<1>1. /\ job[b].at = "saved" /\ Report(b, "success", forgotten) /\ repo' \in AfterForget /\ posts' = posts /\ row' = row
  BY DEF Forget, rowVars, OnSite
<1>2. forgotten \in SUBSET Backups /\ \A c \in Backups : c \in OnSite => c \in OnSite' \/ c \in forgotten
  BY OnSiteIs DEF BaseInv, Typed, OnSite
<1>3. b \in OnSite'
  <2>1. repo.site # <<>> /\ Last(repo.site) = b
    BY <1>1 DEF BaseInv, Sound, Jobs
  <2> QED
    BY <1>1, <2>1, AfterForgetIs DEF BaseInv, Typed
<1> HIDE DEF forgotten
<1> QED
  BY <1>1, <1>2, <1>3, QuietReport

LEMMA QuietSend ==
    ASSUME BaseInv, Quiet, NEW b \in Backups, Send(b) PROVE Quiet'
<1>1. row' = row /\ OnSite' = OnSite
  BY DEF Send, rowVars, OnSite
<1>2. PICK q : /\ job[b].at = "report" /\ job'[b].at = "waiting" /\ job'[b].says = job[b].says
               /\ \A c \in Backups \ {b} : job'[c] = job[c]
               /\ posts' = posts \union {q} /\ q.of = b /\ q.says = job[b].says /\ q.try = job'[b].tries
  BY SendIs DEF BaseInv, Typed
<1>3. /\ posts = {} /\ \A c \in Backups \ {b} : job[c] = NoJob
      /\ \A c \in Backups : Withdrawing(c) => c \in job[b].says.forgotten
  BY <1>2, QuietChild
<1>4. posts' = {q}
  BY <1>2, <1>3
<1>5. Waiting(q)'
  BY <1>2 DEF Waiting
<1>6. \A c \in Backups : Withdrawing(c) => Withdrawing(c)'
  BY <1>2, <1>3, <1>4 DEF Withdrawing
<1>7. \A c \in Backups : \A s \in Payloads(c)' : c = b /\ s = job[b].says
  <2> SUFFICES ASSUME NEW c \in Backups, NEW s \in Payloads(c)' PROVE c = b /\ s = job[b].says
    OBVIOUS
  <2>1. \/ \E p \in posts' : p.of = c /\ s = p.says
        \/ job'[c].at \in {"report", "waiting"} /\ s = job'[c].says
    BY DEF Payloads, PostsOf
  <2> QED
    BY <1>2, <1>3, <1>4, <2>1, NoJobTyped
<1>8. job[b].says \in Payloads(b)
  BY <1>2, PayloadIs
<1>9. \A b1, c1 \in Backups : job'[b1] # NoJob /\ job'[c1] # NoJob => b1 = c1
  BY <1>2, <1>3
<1> QED
  BY <1>1, <1>4, <1>5, <1>6, <1>7, <1>8, <1>9 DEF Quiet

\* The report is handled, and withdraws nothing that still says success.
LEMMA QuietHandled ==
    ASSUME BaseInv, Quiet, NEW p \in posts, posts' = posts \ {p}, Hears(p), repo' = repo,
           \A b \in Backups : row'[b] = "success" => \/ row[b] = "success" /\ b \notin p.says.forgotten
                                                     \/ b = p.of /\ p.says.verdict = "success"
    PROVE  Quiet'
<1>1. /\ posts = {p} /\ p.of \in Backups /\ job[p.of].says = p.says
      /\ \A c \in Backups \ {p.of} : job[c] = NoJob
      /\ \A b \in Backups : Withdrawing(b) => b \in p.says.forgotten
      /\ p.says.verdict = "success" => p.of \in OnSite
  BY QuietPost
<1>2. posts' = {} /\ OnSite' = OnSite
  BY <1>1 DEF OnSite
<1>3. \A c \in Backups \ {p.of} : job'[c] = NoJob
  BY <1>1, NoJobTyped DEF Hears
<1>4. job'[p.of].at \in {"report", "waiting"} => job'[p.of].says = p.says
  BY <1>1, NoJobTyped DEF Hears
<1>5. \A c \in Backups : \A s \in Payloads(c)' : c = p.of /\ s = p.says
  BY <1>2, <1>3, <1>4, NoJobTyped DEF Payloads, PostsOf
<1>6. \A b \in Backups : row'[b] = "success" => b \in OnSite'
  BY <1>1, <1>2 DEF Quiet
<1>7. \A b1, c1 \in Backups : job'[b1] # NoJob /\ job'[c1] # NoJob => b1 = c1
  BY <1>3
<1> QED
  BY <1>1, <1>2, <1>5, <1>6, <1>7 DEF Quiet

\* The report goes on to its next step.
LEMMA QuietGoes ==
    ASSUME BaseInv, Quiet, NEW p \in posts, NEW q, posts' = (posts \ {p}) \union {q}, job' = job, repo' = repo,
           q.of = p.of, q.says = p.says, q.try = p.try,
           \A b \in Backups : row'[b] = "success" => row[b] = "success" \/ (b = p.of /\ p.says.verdict = "success")
    PROVE  Quiet'
<1>1. /\ posts = {p} /\ Waiting(p) /\ p.of \in Backups /\ job[p.of].says = p.says
      /\ \A c \in Backups \ {p.of} : job[c] = NoJob
      /\ \A b \in Backups : Withdrawing(b) => b \in p.says.forgotten
      /\ p.says.verdict = "success" => p.of \in OnSite
  BY QuietPost
<1>2. posts' = {q} /\ OnSite' = OnSite
  BY <1>1 DEF OnSite
<1>3. Waiting(q)'
  BY <1>1 DEF Waiting
<1>4. \A c \in Backups : \A s \in Payloads(c)' : c = p.of /\ s = p.says
  <2> SUFFICES ASSUME NEW c \in Backups, NEW s \in Payloads(c)' PROVE c = p.of /\ s = p.says
    OBVIOUS
  <2>1. \/ \E r \in posts' : r.of = c /\ s = r.says
        \/ job'[c].at \in {"report", "waiting"} /\ s = job'[c].says
    BY DEF Payloads, PostsOf
  <2> QED
    BY <1>1, <1>2, <2>1, NoJobTyped
<1>5. \A b \in p.says.forgotten : Withdrawing(b)'
  BY <1>2 DEF Withdrawing
<1>6. \A b \in Backups : row'[b] = "success" /\ b \notin OnSite' => Withdrawing(b)'
  BY <1>1, <1>2, <1>5 DEF Quiet
<1>7. \A b1, c1 \in Backups : job'[b1] # NoJob /\ job'[c1] # NoJob => b1 = c1
  BY <1>1
<1> QED
  BY <1>1, <1>2, <1>3, <1>4, <1>6, <1>7 DEF Quiet

LEMMA QuietDecideDeferral ==
    ASSUME BaseInv, Quiet, NEW p \in posts, DecideDeferral(p) PROVE Quiet'
<1>1. row' = row /\ repo' = repo
  BY DEF DecideDeferral, rowVars
<1>2. PICK at \in {"failing", "removing"} : Goto(p, at)
  BY DEF DecideDeferral
<1>3. RunsTyped
  BY DEF BaseInv, Typed
<1> DEFINE q == [p EXCEPT !.at = at]
<1>4. /\ posts' = (posts \ {p}) \union {q} /\ job' = job /\ q.of = p.of /\ q.says = p.says /\ q.try = p.try
  BY <1>2, <1>3, GotoIs
<1> HIDE DEF q
<1> QED
  BY <1>1, <1>4, QuietGoes

LEMMA QuietRemoveRun ==
    ASSUME BaseInv, Quiet, NEW p \in posts, RemoveRun(p) PROVE Quiet'
<1>1. /\ p.at = "removing" /\ row' = IF row[p.of] = "running" THEN [row EXCEPT ![p.of] = "none"] ELSE row
      /\ Answer(p) /\ repo' = repo
  BY DEF RemoveRun
<1>2. posts' = posts \ {p} /\ Hears(p)
  BY <1>1, AnswerIs DEF BaseInv, Typed
<1>3. p.says.forgotten = {} /\ p.of \in Backups
  BY <1>1, SaysIs, PostIs DEF BaseInv, Sound, Handled, Typed
<1>4. \A b \in Backups : row'[b] = "success" => row[b] = "success" /\ b \notin p.says.forgotten
  BY <1>1, <1>3 DEF BaseInv, Typed, RowsTyped
<1> QED
  BY <1>1, <1>2, <1>4, QuietHandled

LEMMA QuietRecordOutcome ==
    ASSUME BaseInv, Quiet, NEW p \in posts, RecordOutcome(p) PROVE Quiet'
<1>1. repo' = repo /\ p.of \in Backups
  BY PostIs DEF RecordOutcome, BaseInv, Typed
<1>2. CASE row[p.of] = "none" /\ row' = row /\ posts' = posts \ {p} /\ Hears(p)
  <2>1. p.says.forgotten = {}
    BY <1>2, SaysIs
  <2> QED
    BY <1>1, <1>2, <2>1, QuietHandled
<1>3. ASSUME NEW verdict \in {"success", "failed"},
             /\ row[p.of] # "none" /\ row' = [row EXCEPT ![p.of] = verdict]
             /\ verdict = "success" <=> p.says.verdict = "success"
             /\ \/ p.says.forgotten = {} /\ posts' = posts \ {p} /\ Hears(p)
                \/ /\ p.says.forgotten # {} /\ verdict = "success" /\ job' = job
                   /\ \E q : /\ posts' = (posts \ {p}) \union {q} /\ q.try = p.try
                             /\ q.of = p.of /\ q.says = p.says /\ q.at = "withdrawing"
      PROVE  Quiet'
  <2>1. \A b \in Backups : row'[b] = "success" => row[b] = "success" \/ (b = p.of /\ p.says.verdict = "success")
    BY <1>1, <1>3 DEF BaseInv, Typed, RowsTyped
  <2>2. CASE p.says.forgotten = {} /\ posts' = posts \ {p} /\ Hears(p)
    BY <1>1, <2>1, <2>2, QuietHandled
  <2>3. CASE job' = job /\ \E q : /\ posts' = (posts \ {p}) \union {q} /\ q.try = p.try
                                  /\ q.of = p.of /\ q.says = p.says /\ q.at = "withdrawing"
    BY <1>1, <2>1, <2>3, QuietGoes
  <2> QED
    BY <1>3, <2>2, <2>3
<1> QED
  BY <1>2, <1>3, OutcomeIs

LEMMA QuietWithdraw ==
    ASSUME BaseInv, Quiet, NEW p \in posts, Withdraw(p) PROVE Quiet'
<1>1. /\ row' = [b \in Backups |-> IF b \in p.says.forgotten /\ row[b] = "success" THEN "pruned" ELSE row[b]]
      /\ Answer(p) /\ repo' = repo
  BY DEF Withdraw
<1>2. posts' = posts \ {p} /\ Hears(p)
  BY <1>1, AnswerIs DEF BaseInv, Typed
<1>3. \A b \in Backups : row'[b] = "success" => row[b] = "success" /\ b \notin p.says.forgotten
  BY <1>1
<1> QED
  BY <1>1, <1>2, <1>3, QuietHandled

\* No fault, and no run beside another, is ever forgotten.
LEMMA CalmBefore ==
    ASSUME BaseInv, [Next]_vars, Calm'
    PROVE  Calm /\ ~Failure
<1>1. ASSUME faults' > 0 PROVE FALSE
  BY <1>1 DEF Calm
<1>2. ~Failure
  BY <1>1, FaultIs DEF BaseInv, Typed, Failure, SessionCut, ChildDies, NoAnswer, RecordFails, RestoreDies
<1>3. faults' >= faults /\ (overlapped => overlapped')
  <2>0. faults \in Nat
    BY DEF BaseInv, Typed, FaultsTyped
  <2>1. CASE \E spawned \in BOOLEAN : Create(spawned)
    BY <2>1, CreateIs
  <2>2. CASE faults' = faults /\ overlapped' = overlapped
    BY <2>0, <2>2
  <2>3. CASE Sweep
    BY <2>2, <2>3 DEF Sweep, ReadInFlight, List, Abandon, history
  <2>4. CASE Schedule
    BY <2>1, <2>2, <2>4 DEF Schedule, FindDue, StartScheduled, history
  <2>5. CASE Start
    BY <2>1, <2>2, <2>5 DEF Start, FindRunning, StartRun, history
  <2>6. CASE Record
    BY <2>2, <2>6 DEF Record, DecideDeferral, RemoveRun, RecordOutcome, Withdraw, history
  <2>7. CASE Work
    BY <2>2, <2>7 DEF Work, Child, Defer, FailRun, Save, Forget, Send, history
  <2>8. CASE LimitPasses
    BY <2>2, <2>8 DEF LimitPasses
  <2>9. CASE \E r \in Restores : AskRestore(r) \/ Restore(r)
    BY <2>2, <2>9
       DEF AskRestore, Restore, CheckRestorable, StartRestore, SafetySnapshot, FetchAndApply, RecordRestore, history
  <2>10. CASE UNCHANGED vars
    BY <2>2, <2>10 DEF vars, history
  <2> QED
    BY <1>2, <2>3, <2>4, <2>5, <2>6, <2>7, <2>8, <2>9, <2>10 DEF Next
<1>4. faults \in Nat /\ faults' = 0 /\ ~overlapped'
  BY DEF Calm, BaseInv, Typed, FaultsTyped
<1>5. faults = 0
  BY <1>3, <1>4
<1> QED
  BY <1>2, <1>3, <1>4, <1>5 DEF Calm

LEMMA QuietNext == BaseInv /\ QuietInv /\ [Next]_vars => QuietInv'
<1> SUFFICES ASSUME BaseInv, QuietInv, [Next]_vars, Calm' PROVE Quiet'
  BY DEF QuietInv
<1>1. Quiet /\ ~Failure
  BY CalmBefore DEF QuietInv
<1>2. CASE Sweep
  <2>1. CASE ReadInFlight
    BY <1>1, <2>1, QuietSame DEF ReadInFlight, List, rowVars, jobVars, OnSite
  <2> QED
    BY <1>1, <1>2, <2>1, QuietAbandon DEF Sweep
<1>3. CASE Schedule
  <2>1. CASE FindDue
    BY <1>1, <2>1, QuietSame DEF FindDue, rowVars, jobVars, OnSite
  <2>2. CASE StartScheduled
    <3>1. posts' = posts /\ repo' = repo /\ ((\E spawned \in BOOLEAN : Create(spawned)) \/ (row' = row /\ job' = job))
      BY <2>2 DEF StartScheduled
    <3> QED
      BY <1>1, <3>1, QuietSame, QuietCreate DEF Calm, OnSite
  <2> QED
    BY <1>3, <2>1, <2>2 DEF Schedule
<1>4. CASE Start
  <2>1. ASSUME NEW q \in Requests, FindRunning(q) PROVE Quiet'
    BY <1>1, <2>1, QuietSame DEF FindRunning, rowVars, jobVars, OnSite
  <2>2. ASSUME NEW q \in Requests, StartRun(q) PROVE Quiet'
    BY <1>1, <2>2, QuietCreate DEF StartRun, Calm
  <2> QED
    BY <1>4, <2>1, <2>2 DEF Start
<1>5. CASE Record
  BY <1>1, <1>5, QuietDecideDeferral, QuietRemoveRun, QuietRecordOutcome, QuietWithdraw DEF Record
<1>6. CASE Work
  <2>1. ASSUME NEW b \in Backups, Defer(b) PROVE Quiet'
    BY <1>1, <2>1, QuietReport DEF Defer, rowVars, OnSite
  <2>2. ASSUME NEW b \in Backups, FailRun(b) PROVE Quiet'
    BY <1>1, <2>2, QuietReport DEF FailRun, rowVars, OnSite
  <2> QED
    BY <1>1, <1>6, <2>1, <2>2, QuietSave, QuietForget, QuietSend DEF Work, Child
<1>7. CASE LimitPasses
  BY <1>1, <1>7, QuietSame DEF LimitPasses, jobVars, OnSite
<1>8. CASE \E r \in Restores : AskRestore(r) \/ Restore(r)
  <2>1. row' = row /\ job' = job /\ posts' = posts /\ OnSite' = OnSite
    <3>1. CASE \E r \in Restores : SafetySnapshot(r)
      BY <3>1 DEF SafetySnapshot, rowVars, jobVars, OnSite, BaseInv, Typed, RepoTyped
    <3> QED
      BY <1>8, <3>1
         DEF AskRestore, Restore, CheckRestorable, StartRestore, FetchAndApply, RecordRestore, rowVars, jobVars, OnSite
  <2> QED
    BY <1>1, <2>1, QuietSame
<1>9. CASE UNCHANGED vars
  BY <1>1, <1>9, QuietSame DEF vars, rowVars, jobVars, OnSite
<1> QED
  BY <1>1, <1>2, <1>3, <1>4, <1>5, <1>6, <1>7, <1>8, <1>9 DEF Next

LEMMA QuietInit == Init => QuietInv
<1> SUFFICES ASSUME Init PROVE Quiet
  BY DEF QuietInv
<1>1. \A b \in Backups : job[b] = NoJob /\ Payloads(b) = {} /\ row[b] = "none"
  BY NoJobTyped DEF Init, PostsOf, Payloads
<1> QED
  BY <1>1 DEF Init, Quiet

\* While runs of the site do not overlap and no report is lost, a row that offers a restore has its
\* snapshot, or the report that withdraws it is on its way (the withdrawals of site-backup-record).
THEOREM Restorable == Spec => []OfferedIsRestorable
<1>1. QuietInv => OfferedIsRestorable
  BY DEF QuietInv, Quiet, Calm, OfferedIsRestorable, OnSite
<1> QED
  BY <1>1, BaseInit, BaseNext, QuietInit, QuietNext, PTL DEF Spec

-----------------------------------------------------------------------------
(* Whatever retention removes and in whatever order reports arrive, a later snapshot stands for those    *)
(* that are withdrawn.  Snapshots are ordered by when they were saved; the order of runs that have saved *)
(* none does not matter.                                                                                  *)

SaidLater(ord) == \A x \in Backups : \A s \in Payloads(x) : \A b \in s.forgotten : ord[b] < ord[x]
Ordered(ord) ==
    /\ Rising(repo.site, ord) /\ SaidLater(ord)
    /\ ~misjudged => \A b \in Backups : row[b] = "pruned" =>
                         \E c \in Backups : row[c] = "success" /\ ord[c] > ord[b]
    /\ ~misjudged => \A p \in posts : p.at = "withdrawing" =>
                         \E c \in Backups : row[c] = "success" /\ ord[c] >= ord[p.of]
OrderInv == \E top \in Nat : \E ord \in [Backups -> 0..top] : Ordered(ord)

\* For each row that offers a restore there is one at least as late that still does after the step.
Protects(ord) == \A b \in Backups : row[b] = "success" => \E c \in Backups : row'[c] = "success" /\ ord[c] >= ord[b]

\* What a step must not do, so that the order it finds still holds after it.
Keeps(ord) ==
    /\ Rising(repo'.site, ord) /\ SaidLater(ord)'
    /\ misjudged => misjudged'
    /\ ~misjudged' => Protects(ord)
    /\ ~misjudged' => \A b \in Backups : row'[b] = "pruned" =>
           row[b] = "pruned" \/ \E c \in Backups : row'[c] = "success" /\ ord[c] > ord[b]
    /\ \A q \in posts' : q.at = "withdrawing" => q.of \in Backups /\ (q \in posts \/ row'[q.of] = "success")

LEMMA OrderStep ==
    ASSUME RunsTyped, NEW top \in Nat, NEW ord \in [Backups -> 0..top], Ordered(ord), Keeps(ord)
    PROVE  Ordered(ord)'
<1>1. \A b \in Backups : ord[b] \in Int
  OBVIOUS
<1>2. Rising(repo.site, ord)' /\ SaidLater(ord)'
  BY DEF Keeps
<1>3. ASSUME ~misjudged', NEW b \in Backups, row'[b] = "pruned"
      PROVE  \E c \in Backups : row'[c] = "success" /\ ord[c] > ord[b]
  <2>1. CASE row[b] = "pruned"
    <3>1. PICK c \in Backups : row[c] = "success" /\ ord[c] > ord[b]
      BY <1>3, <2>1 DEF Ordered, Keeps
    <3>2. PICK d \in Backups : row'[d] = "success" /\ ord[d] >= ord[c]
      BY <1>3, <3>1 DEF Keeps, Protects
    <3> QED
      BY <1>1, <3>1, <3>2
  <2> QED
    BY <1>3, <2>1 DEF Keeps
<1>4. ASSUME ~misjudged', NEW p \in posts', p.at = "withdrawing"
      PROVE  \E c \in Backups : row'[c] = "success" /\ ord[c] >= ord[p.of]
  <2>1. p.of \in Backups
    BY <1>4 DEF Keeps
  <2>2. CASE row'[p.of] = "success"
    BY <1>1, <2>1, <2>2
  <2>3. CASE p \in posts
    <3>1. PICK c \in Backups : row[c] = "success" /\ ord[c] >= ord[p.of]
      BY <1>4, <2>3 DEF Ordered, Keeps
    <3>2. PICK d \in Backups : row'[d] = "success" /\ ord[d] >= ord[c]
      BY <1>4, <3>1 DEF Keeps, Protects
    <3> QED
      BY <1>1, <2>1, <3>1, <3>2
  <2> QED
    BY <1>4, <2>2, <2>3 DEF Keeps
<1> QED
  BY <1>2, <1>3, <1>4 DEF Ordered

\* Nothing new is reported.
LEMMA SaidBefore ==
    ASSUME NEW ord, SaidLater(ord), Fewer
    PROVE  SaidLater(ord)'
<1>1. \A x \in Backups : Payloads(x)' \subseteq Payloads(x)
  BY FewerPayloads
<1> QED
  BY <1>1 DEF SaidLater

\* Steps that withdraw nothing, report nothing new and save nothing.
LEMMA OrderSame ==
    ASSUME BaseInv, NEW top \in Nat, NEW ord \in [Backups -> 0..top], Ordered(ord),
           Rising(repo.site, ord) => Rising(repo'.site, ord), SaidLater(ord)', misjudged => misjudged',
           \A b \in Backups : row[b] = "success" => row'[b] = "success" \/ misjudged',
           \A b \in Backups : row'[b] = "pruned" => row[b] = "pruned",
           \A q \in posts' : q.at = "withdrawing" => q \in posts \/ (q.of \in Backups /\ row'[q.of] = "success")
    PROVE  Keeps(ord)
<1>1. \A b \in Backups : ord[b] >= ord[b]
  OBVIOUS
<1>2. ~misjudged' => Protects(ord)
  BY <1>1 DEF Protects
<1>3. \A q \in posts : q.of \in Backups
  BY PostIs DEF BaseInv, Typed
<1> QED
  BY <1>2, <1>3 DEF Keeps, Ordered

LEMMA KeepsAbandon ==
    ASSUME BaseInv, NEW top \in Nat, NEW ord \in [Backups -> 0..top], Ordered(ord),
           NEW run \in Runs \union RestoreRuns, Abandon(run)
    PROVE  Keeps(ord)
<1>1. /\ job' = job /\ posts' = posts /\ repo' = repo /\ (misjudged => misjudged')
      /\ \A b \in Backups : row'[b] = row[b] \/ (row'[b] = "failed" /\ (row[b] = "success" => misjudged'))
  BY AbandonIs
<1>2. Fewer
  BY <1>1, PayloadIs, PostIs DEF Fewer, BaseInv, Typed
<1> QED
  BY <1>1, <1>2, SaidBefore, OrderSame DEF Ordered

LEMMA KeepsCreate ==
    ASSUME BaseInv, NEW top \in Nat, NEW ord \in [Backups -> 0..top], Ordered(ord),
           NEW spawned \in BOOLEAN, Create(spawned), posts' = posts, repo' = repo, misjudged' = misjudged
    PROVE  Keeps(ord)
<1>1. PICK b \in Backups :
        /\ row[b] = "none" /\ row' = [row EXCEPT ![b] = "running"] /\ job'[b].at \in {"spawned", "none"}
        /\ \A c \in Backups \ {b} : job'[c] = job[c]
  BY CreateIs
<1>2. row'[b] = "running" /\ \A c \in Backups \ {b} : row'[c] = row[c]
  BY <1>1 DEF BaseInv, Typed, RowsTyped
<1>3. Fewer
  BY <1>1, PayloadIs, PostIs DEF Fewer, BaseInv, Typed
<1> QED
  BY <1>1, <1>2, <1>3, SaidBefore, OrderSame DEF Ordered

\* A child reports which older snapshots its retention removed, or nothing.
LEMMA KeepsReport ==
    ASSUME BaseInv, NEW top \in Nat, NEW ord \in [Backups -> 0..top], Ordered(ord),
           NEW b \in Backups, job[b].at \in {"spawned", "saved"},
           NEW verdict \in {"success", "failed", "deferred"}, NEW forgotten \in SUBSET Backups,
           Report(b, verdict, forgotten), \A c \in forgotten : ord[c] < ord[b],
           Rising(repo.site, ord) => Rising(repo'.site, ord), posts' = posts, row' = row, misjudged' = misjudged
    PROVE  Keeps(ord)
<1>1. /\ job'[b].says.forgotten = forgotten /\ \A c \in Backups \ {b} : job'[c] = job[c]
  BY ReportIs DEF BaseInv, Typed
<1>2. PostsOf(b) = {}
  BY DEF BaseInv, Sound, Jobs
<1>3. \A c \in Backups \ {b} : Payloads(c)' = Payloads(c)
  BY <1>1 DEF Payloads, PostsOf
<1>4. \A s \in Payloads(b)' : s.forgotten = forgotten
  BY <1>1, <1>2 DEF Payloads, PostsOf
<1>5. SaidLater(ord)'
  BY <1>3, <1>4 DEF Ordered, SaidLater
<1> QED
  BY <1>5, OrderSame

LEMMA KeepsForget ==
    ASSUME BaseInv, NEW top \in Nat, NEW ord \in [Backups -> 0..top], Ordered(ord), NEW b \in Backups, Forget(b)
    PROVE  Keeps(ord)
<1> DEFINE forgotten == OnSite \ ToSet(repo'.site)
<1>1. /\ job[b].at = "saved" /\ Report(b, "success", forgotten) /\ repo' \in AfterForget /\ posts' = posts
      /\ row' = row /\ misjudged' = misjudged
  BY DEF Forget, rowVars, history, OnSite
<1>2. forgotten \in SUBSET Backups
  BY OnSiteIs DEF BaseInv, Typed
<1>3. repo.site # <<>> /\ Last(repo.site) = b
  BY <1>1 DEF BaseInv, Sound, Jobs
<1>4. b \in OnSite' /\ (Rising(repo.site, ord) => Rising(repo'.site, ord))
  BY <1>1, <1>3, AfterForgetIs DEF BaseInv, Typed
<1>5. \A c \in OnSite \ {b} : ord[c] < ord[b]
  <2> SUFFICES ASSUME NEW c \in OnSite \ {b} PROVE ord[c] < ord[b]
    OBVIOUS
  <2>1. repo.site \in Seq(Backups)
    BY DEF BaseInv, Typed, RepoTyped
  <2>2. DOMAIN repo.site = 1..Len(repo.site) /\ Len(repo.site) \in Nat /\ Len(repo.site) > 0
    BY <1>3, <2>1, LenProperties, EmptySeq
  <2>3. PICK i \in DOMAIN repo.site : repo.site[i] = c
    BY DEF OnSite, ToSet
  <2>4. Len(repo.site) \in DOMAIN repo.site /\ repo.site[Len(repo.site)] = b
    BY <1>3, <2>2 DEF Last
  <2>5. i < Len(repo.site)
    BY <2>2, <2>3, <2>4
  <2> QED
    BY <2>3, <2>4, <2>5 DEF Ordered, Rising
<1>6. \A c \in forgotten : ord[c] < ord[b]
  BY <1>4, <1>5 DEF OnSite
<1> HIDE DEF forgotten
<1> QED
  BY <1>1, <1>2, <1>4, <1>6, KeepsReport

LEMMA KeepsSend ==
    ASSUME BaseInv, NEW top \in Nat, NEW ord \in [Backups -> 0..top], Ordered(ord), NEW b \in Backups, Send(b)
    PROVE  Keeps(ord)
<1>1. row' = row /\ repo' = repo /\ misjudged' = misjudged
  BY DEF Send, rowVars, history
<1>2. PICK q : /\ job[b].at = "report" /\ job'[b].at = "waiting" /\ job'[b].says = job[b].says
               /\ \A c \in Backups \ {b} : job'[c] = job[c]
               /\ posts' = posts \union {q} /\ q.of = b /\ q.says = job[b].says /\ q.at = "received"
  BY SendIs DEF BaseInv, Typed
<1>3. Fewer
  BY <1>2, PayloadIs DEF Fewer
<1>4. \A p \in posts' : p.at = "withdrawing" => p \in posts
  BY <1>2
<1> QED
  BY <1>1, <1>3, <1>4, SaidBefore, OrderSame DEF Ordered

LEMMA KeepsNoAnswer ==
    ASSUME BaseInv, NEW top \in Nat, NEW ord \in [Backups -> 0..top], Ordered(ord), NEW b \in Backups, NoAnswer(b)
    PROVE  Keeps(ord)
<1>1. row' = row /\ repo' = repo /\ misjudged' = misjudged /\ job[b].at = "waiting" /\ job' = AfterTry(b)
  BY DEF NoAnswer, rowVars
<1>2. PICK p \in PostsOf(b) : p.try = job[b].tries /\ posts' \in {posts, IF p.at = "received" THEN posts \ {p} ELSE posts}
  BY DEF NoAnswer
<1>3. p \in posts /\ p.of = b /\ Waiting(p)
  BY <1>1, <1>2 DEF PostsOf, Waiting
<1>4. Hears(p)
  BY <1>1, <1>3, AfterTryIs DEF BaseInv, Typed, Hears
<1>5. posts' \subseteq posts
  BY <1>2
<1>6. Fewer
  BY <1>3, <1>4, <1>5, HearsFewer
<1> QED
  BY <1>1, <1>5, <1>6, SaidBefore, OrderSame DEF Ordered

LEMMA KeepsDecideDeferral ==
    ASSUME BaseInv, NEW top \in Nat, NEW ord \in [Backups -> 0..top], Ordered(ord), NEW p \in posts, DecideDeferral(p)
    PROVE  Keeps(ord)
<1>1. row' = row /\ repo' = repo /\ misjudged' = misjudged
  BY DEF DecideDeferral, rowVars, history
<1>2. PICK at \in {"failing", "removing"} : Goto(p, at)
  BY DEF DecideDeferral
<1>3. RunsTyped
  BY DEF BaseInv, Typed
<1> DEFINE q == [p EXCEPT !.at = at]
<1>4. /\ posts' = (posts \ {p}) \union {q} /\ job' = job /\ q.of = p.of /\ q.says = p.says /\ q.at = at
  BY <1>2, <1>3, GotoIs
<1> HIDE DEF q
<1>5. Fewer
  BY <1>4, HearsFewer
<1>6. \A o \in posts' : o.at = "withdrawing" => o \in posts
  BY <1>2, <1>4
<1> QED
  BY <1>1, <1>5, <1>6, SaidBefore, OrderSame DEF Ordered

LEMMA KeepsRemoveRun ==
    ASSUME BaseInv, NEW top \in Nat, NEW ord \in [Backups -> 0..top], Ordered(ord), NEW p \in posts, RemoveRun(p)
    PROVE  Keeps(ord)
<1>1. /\ row' = IF row[p.of] = "running" THEN [row EXCEPT ![p.of] = "none"] ELSE row
      /\ Answer(p) /\ repo' = repo /\ misjudged' = misjudged /\ p.of \in Backups
  BY PostIs DEF RemoveRun, history, BaseInv, Typed
<1>2. posts' = posts \ {p} /\ Hears(p)
  BY <1>1, AnswerIs DEF BaseInv, Typed
<1>3. \A b \in Backups : row'[b] = row[b] \/ (row[b] = "running" /\ row'[b] = "none")
  BY <1>1 DEF BaseInv, Typed, RowsTyped
<1>4. Fewer
  BY <1>2, HearsFewer
<1> QED
  BY <1>1, <1>2, <1>3, <1>4, SaidBefore, OrderSame DEF Ordered

LEMMA KeepsRecordOutcome ==
    ASSUME BaseInv, NEW top \in Nat, NEW ord \in [Backups -> 0..top], Ordered(ord), NEW p \in posts, RecordOutcome(p)
    PROVE  Keeps(ord)
<1>1. repo' = repo /\ misjudged' = misjudged /\ p.of \in Backups
  BY PostIs DEF RecordOutcome, BaseInv, Typed
<1>2. Hears(p) \/ job' = job
  BY OutcomeIs
<1>3. \A q \in posts' : q \in posts \/ (q.of = p.of /\ q.says = p.says /\ row'[p.of] = "success")
  BY <1>1, OutcomeIs DEF BaseInv, Typed, RowsTyped
<1>4. Fewer
  BY <1>2, <1>3, HearsFewer
<1>5. row[p.of] = "success" => p.says.verdict = "success"
  BY SaysIs
<1>6. \A b \in Backups : (row[b] = "success" => row'[b] = "success") /\ (row'[b] = "pruned" => row[b] = "pruned")
  BY <1>1, <1>5, OutcomeIs DEF BaseInv, Typed, RowsTyped
<1> QED
  BY <1>1, <1>3, <1>4, <1>6, SaidBefore, OrderSame DEF Ordered

\* The row that stands for the report's own stays, as it is no older; those it withdraws are older.
LEMMA KeepsWithdraw ==
    ASSUME BaseInv, NEW top \in Nat, NEW ord \in [Backups -> 0..top], Ordered(ord), NEW p \in posts, Withdraw(p)
    PROVE  Keeps(ord)
<1>1. /\ row' = [b \in Backups |-> IF b \in p.says.forgotten /\ row[b] = "success" THEN "pruned" ELSE row[b]]
      /\ Answer(p) /\ repo' = repo /\ misjudged' = misjudged /\ p.at = "withdrawing"
  BY DEF Withdraw, history
<1>2. posts' = posts \ {p} /\ Hears(p)
  BY <1>1, AnswerIs DEF BaseInv, Typed
<1>3. SaidLater(ord)'
  BY <1>2, HearsFewer, SaidBefore DEF Ordered
<1>4. p.of \in Backups /\ p.says \in Payloads(p.of)
  BY PostIs, PayloadIs DEF BaseInv, Typed
<1>5. \A b \in Backups : ord[b] \in Int
  OBVIOUS
<1>6. \A b \in p.says.forgotten : ord[b] < ord[p.of]
  BY <1>4 DEF Ordered, SaidLater
<1>7. ASSUME ~misjudged
      PROVE  \E c \in Backups : row'[c] = "success" /\ ord[c] >= ord[p.of]
  <2>1. PICK c \in Backups : row[c] = "success" /\ ord[c] >= ord[p.of]
    BY <1>1, <1>7 DEF Ordered
  <2>2. ASSUME c \in p.says.forgotten PROVE FALSE
    <3>1. ord[c] < ord[p.of]
      BY <1>6, <2>2
    <3> QED
      BY <1>4, <1>5, <2>1, <3>1
  <2>3. row'[c] = "success"
    BY <1>1, <2>1, <2>2
  <2> QED
    BY <2>1, <2>3
<1>8. ASSUME ~misjudged, NEW b \in Backups, b \in p.says.forgotten
      PROVE  \E c \in Backups : row'[c] = "success" /\ ord[c] > ord[b]
  <2>1. PICK c \in Backups : row'[c] = "success" /\ ord[c] >= ord[p.of]
    BY <1>7, <1>8
  <2>2. ord[b] < ord[p.of]
    BY <1>6, <1>8
  <2> QED
    BY <1>4, <1>5, <2>1, <2>2
<1>9. ASSUME ~misjudged PROVE Protects(ord)
  <2> SUFFICES ASSUME NEW b \in Backups, row[b] = "success" PROVE \E c \in Backups : row'[c] = "success" /\ ord[c] >= ord[b]
    BY DEF Protects
  <2>1. CASE b \in p.says.forgotten
    BY <1>5, <1>8, <1>9, <2>1
  <2>2. CASE b \notin p.says.forgotten
    BY <1>1, <1>5, <2>2
  <2> QED
    BY <2>1, <2>2
<1>10. ASSUME ~misjudged, NEW b \in Backups, row'[b] = "pruned"
       PROVE  row[b] = "pruned" \/ \E c \in Backups : row'[c] = "success" /\ ord[c] > ord[b]
  BY <1>1, <1>8, <1>10
<1>11. \A q \in posts' : q.at = "withdrawing" => q.of \in Backups /\ q \in posts
  BY <1>2, PostIs DEF BaseInv, Typed
<1> QED
  BY <1>1, <1>3, <1>9, <1>10, <1>11 DEF Keeps, Ordered

LEMMA KeepsRecordFails ==
    ASSUME BaseInv, NEW top \in Nat, NEW ord \in [Backups -> 0..top], Ordered(ord), NEW p \in posts, RecordFails(p)
    PROVE  Keeps(ord)
<1>1. row' = row /\ ServerError(p) /\ repo' = repo /\ misjudged' = misjudged
  BY DEF RecordFails, rowVars
<1>2. posts' = posts \ {p} /\ Hears(p)
  BY <1>1, ServerErrorIs DEF BaseInv, Typed
<1>3. Fewer
  BY <1>2, HearsFewer
<1> QED
  BY <1>1, <1>2, <1>3, SaidBefore, OrderSame DEF Ordered

LEMMA KeepsChildEnds ==
    ASSUME BaseInv, NEW top \in Nat, NEW ord \in [Backups -> 0..top], Ordered(ord), NEW b \in Backups,
           job' = [job EXCEPT ![b] = NoJob], posts' = posts, row' = row, misjudged' = misjudged,
           repo' = repo \/ repo' \in AfterForget
    PROVE  Keeps(ord)
<1>1. job'[b].at = "none" /\ \A c \in Backups \ {b} : job'[c] = job[c]
  BY NoJobTyped DEF BaseInv, Typed, RunsTyped
<1>2. Fewer
  BY <1>1, PostIs, PayloadIs DEF Fewer, BaseInv, Typed
<1>3. Rising(repo.site, ord) => Rising(repo'.site, ord)
  BY AfterForgetIs DEF BaseInv, Typed
<1> QED
  BY <1>2, <1>3, SaidBefore, OrderSame DEF Ordered

LEMMA KeepsSame ==
    ASSUME BaseInv, NEW top \in Nat, NEW ord \in [Backups -> 0..top], Ordered(ord),
           row' = row, job' = job, posts' = posts, repo'.site = repo.site, misjudged' = misjudged
    PROVE  Keeps(ord)
<1>1. Fewer
  BY PostIs, PayloadIs DEF Fewer, BaseInv, Typed
<1> QED
  BY <1>1, SaidBefore, OrderSame DEF Ordered

\* A snapshot is appended, by a child that goes on or has died.
Saves(b) ==
    /\ job[b].at = "spawned" /\ repo' = [repo EXCEPT !.site = Append(@, b)]
    /\ job'[b].at \in {"saved", "none"} /\ \A c \in Backups \ {b} : job'[c] = job[c]
    /\ posts' = posts /\ row' = row /\ misjudged' = misjudged

\* It becomes the latest of all.
LEMMA OrderSaves ==
    ASSUME BaseInv, OrderInv, NEW b \in Backups, Saves(b)
    PROVE  OrderInv'
<1>1. PICK top \in Nat : \E ord \in [Backups -> 0..top] : Ordered(ord)
  BY DEF OrderInv
<1>2. PICK ord \in [Backups -> 0..top] : Ordered(ord)
  BY <1>1
<1> DEFINE new == [ord EXCEPT ![b] = top + 1]
<1>3. top + 1 \in Nat /\ new \in [Backups -> 0..(top + 1)] /\ new[b] = top + 1
  BY <1>2
<1>4. \A c \in Backups \ {b} : new[c] = ord[c] /\ new[c] < new[b]
  BY <1>2, <1>3
<1> HIDE DEF new
<1>5. PostsOf(b) = {} /\ row[b] \in {"running", "failed"} /\ ~Snapped(b) /\ b \notin OnSite
  BY DEF Saves, BaseInv, Sound, Jobs, Snapped
<1>6. \A c \in Backups : Payloads(c)' = Payloads(c)
  BY DEF Saves, Payloads, PostsOf
<1>7. Payloads(b) = {}
  BY <1>5 DEF Saves, Payloads
<1>8. Rising(repo'.site, new)
  <2> DEFINE s == repo.site
             t == Append(s, b)
  <2>1. s \in Seq(Backups)
    BY DEF BaseInv, Typed, RepoTyped
  <2>2. /\ Len(t) = Len(s) + 1 /\ t \in Seq(Backups) /\ t[Len(s) + 1] = b
        /\ \A i \in 1..Len(s) : t[i] = s[i]
    BY <2>1, AppendProperties
  <2>3. Len(s) \in Nat /\ DOMAIN s = 1..Len(s) /\ DOMAIN t = 1..(Len(s) + 1)
    BY <2>1, <2>2, LenProperties
  <2>4. \A i \in DOMAIN s : s[i] \in Backups \ {b}
    BY <1>5, <2>1, <2>3, LenProperties DEF OnSite, ToSet
  <2>5. Rising(s, ord)
    BY <1>2 DEF Ordered
  <2>6. repo'.site = t
    BY <1>5, SavedIs DEF Saves
  <2> HIDE DEF s, t
  <2>7. ASSUME NEW i \in DOMAIN t, NEW j \in DOMAIN t, i < j PROVE new[t[i]] < new[t[j]]
    <3>1. i \in DOMAIN s /\ t[i] = s[i]
      BY <2>2, <2>3, <2>7
    <3>2. CASE j = Len(s) + 1
      BY <1>4, <2>2, <2>4, <3>1, <3>2
    <3>3. CASE j # Len(s) + 1
      <4>1. j \in DOMAIN s /\ t[j] = s[j]
        BY <2>2, <2>3, <3>3
      <4> QED
        BY <1>4, <2>4, <2>5, <2>7, <3>1, <4>1 DEF Rising
    <3> QED
      BY <3>2, <3>3
  <2> QED
    BY <2>6, <2>7 DEF Rising
<1>9. SaidLater(new)'
  <2> SUFFICES ASSUME NEW x \in Backups, NEW s \in Payloads(x), NEW c \in s.forgotten PROVE new[c] < new[x]
    BY <1>6 DEF SaidLater
  <2>1. x # b /\ c # b
    BY <1>5, <1>7 DEF Snapped
  <2>2. c \in Backups
    BY PayloadTyped DEF BaseInv, Typed, Payload
  <2>3. ord[c] < ord[x]
    BY <1>2 DEF Ordered, SaidLater
  <2> QED
    BY <1>4, <2>1, <2>2, <2>3
<1>10. ASSUME ~misjudged', NEW c \in Backups, row'[c] = "pruned"
      PROVE  \E d \in Backups : row'[d] = "success" /\ new[d] > new[c]
  <2>1. row' = row /\ misjudged' = misjudged
    BY DEF Saves
  <2>2. PICK d \in Backups : row[d] = "success" /\ ord[d] > ord[c]
    BY <1>2, <1>10, <2>1 DEF Ordered
  <2>3. c # b /\ d # b
    BY <1>5, <1>10, <2>1, <2>2
  <2> QED
    BY <1>4, <2>1, <2>2, <2>3
<1>11. ASSUME ~misjudged', NEW p \in posts', p.at = "withdrawing"
       PROVE  \E d \in Backups : row'[d] = "success" /\ new[d] >= new[p.of]
  <2>1. row' = row /\ misjudged' = misjudged /\ posts' = posts
    BY DEF Saves
  <2>2. p.of \in Backups \ {b}
    BY <1>5, <2>1, PostIs DEF BaseInv, Typed, PostsOf
  <2>3. PICK d \in Backups : row[d] = "success" /\ ord[d] >= ord[p.of]
    BY <1>2, <1>11, <2>1 DEF Ordered
  <2>4. d # b
    BY <1>5, <2>3
  <2> QED
    BY <1>4, <2>1, <2>2, <2>3, <2>4
<1>12. Ordered(new)'
  BY <1>8, <1>9, <1>10, <1>11 DEF Ordered
<1> QED
  BY <1>3, <1>12 DEF OrderInv

\* Every step saves a snapshot or keeps the order.
LEMMA KeepsNext ==
    ASSUME BaseInv, [Next]_vars, NEW top \in Nat, NEW ord \in [Backups -> 0..top], Ordered(ord)
    PROVE  Keeps(ord) \/ \E b \in Backups : Saves(b)
<1>1. CASE Sweep
  <2>1. CASE ReadInFlight
    BY <2>1, KeepsSame DEF ReadInFlight, List, rowVars, jobVars, history
  <2> QED
    BY <1>1, <2>1, KeepsAbandon DEF Sweep
<1>2. CASE Schedule
  <2>1. CASE FindDue
    BY <2>1, KeepsSame DEF FindDue, rowVars, jobVars, history
  <2>2. CASE StartScheduled
    BY <2>2, KeepsSame, KeepsCreate DEF StartScheduled
  <2> QED
    BY <1>2, <2>1, <2>2 DEF Schedule
<1>3. CASE Start
  <2>1. ASSUME NEW q \in Requests, FindRunning(q) PROVE Keeps(ord)
    BY <2>1, KeepsSame DEF FindRunning, rowVars, jobVars, history
  <2>2. ASSUME NEW q \in Requests, StartRun(q) PROVE Keeps(ord)
    BY <2>2, KeepsCreate DEF StartRun
  <2> QED
    BY <1>3, <2>1, <2>2 DEF Start
<1>4. CASE Record
  BY <1>4, KeepsDecideDeferral, KeepsRemoveRun, KeepsRecordOutcome, KeepsWithdraw DEF Record
<1>5. CASE Work
  <2>1. ASSUME NEW b \in Backups, Defer(b) PROVE Keeps(ord)
    BY <2>1, KeepsReport DEF Defer, rowVars, history
  <2>2. ASSUME NEW b \in Backups, FailRun(b) PROVE Keeps(ord)
    BY <2>2, KeepsReport DEF FailRun, rowVars, history
  <2>3. ASSUME NEW b \in Backups, Save(b) PROVE Saves(b)
    <3>1. job'[b].at = "saved" /\ \A c \in Backups \ {b} : job'[c] = job[c]
      BY <2>3 DEF Save, BaseInv, Typed, RunsTyped, JobType
    <3> QED
      BY <2>3, <3>1 DEF Save, Saves, rowVars, history
  <2> QED
    BY <1>5, <2>1, <2>2, <2>3, KeepsForget, KeepsSend DEF Work, Child
<1>6. CASE Failure
  <2>1. ASSUME NEW b \in Backups, SessionCut(b) PROVE Keeps(ord)
    <3>1. Rising(repo.site, ord) => Rising(repo'.site, ord)
      BY <2>1, AfterForgetIs DEF SessionCut, BaseInv, Typed
    <3> QED
      BY <2>1, <3>1, KeepsReport DEF SessionCut, rowVars
  <2>2. ASSUME NEW b \in Backups, ChildDies(b) PROVE Keeps(ord) \/ Saves(b)
    <3>1. /\ job' = [job EXCEPT ![b] = NoJob] /\ posts' = posts /\ row' = row /\ misjudged' = misjudged
      BY <2>2 DEF ChildDies, rowVars
    <3>2. \/ repo' = repo
          \/ job[b].at = "spawned" /\ repo' = [repo EXCEPT !.site = Append(@, b)]
          \/ repo' \in AfterForget
      BY <2>2 DEF ChildDies
    <3>3. job'[b].at = "none" /\ \A c \in Backups \ {b} : job'[c] = job[c]
      BY <3>1, NoJobTyped DEF BaseInv, Typed, RunsTyped
    <3> QED
      BY <3>1, <3>2, <3>3, KeepsChildEnds DEF Saves
  <2>3. ASSUME NEW r \in Restores, RestoreDies(r) PROVE Keeps(ord)
    BY <2>3, KeepsSame DEF RestoreDies, rowVars, jobVars
  <2> QED
    BY <1>6, <2>1, <2>2, <2>3, KeepsNoAnswer, KeepsRecordFails DEF Failure
<1>7. CASE LimitPasses
  BY <1>7, KeepsSame DEF LimitPasses, jobVars
<1>8. CASE \E r \in Restores : AskRestore(r) \/ Restore(r)
  <2>1. row' = row /\ job' = job /\ posts' = posts /\ repo'.site = repo.site /\ misjudged' = misjudged
    <3>1. CASE \E r \in Restores : SafetySnapshot(r)
      BY <3>1 DEF SafetySnapshot, rowVars, jobVars, history, BaseInv, Typed, RepoTyped
    <3> QED
      BY <1>8, <3>1
         DEF AskRestore, Restore, CheckRestorable, StartRestore, FetchAndApply, RecordRestore, rowVars, jobVars, history
  <2> QED
    BY <2>1, KeepsSame
<1>9. CASE UNCHANGED vars
  BY <1>9, KeepsSame DEF vars, rowVars, jobVars, history
<1> QED
  BY <1>1, <1>2, <1>3, <1>4, <1>5, <1>6, <1>7, <1>8, <1>9 DEF Next

LEMMA OrderNext ==
    BaseInv /\ OrderInv /\ [Next]_vars => OrderInv' /\ (Offered # {} /\ ~misjudged' => Offered' # {})
<1> SUFFICES ASSUME BaseInv, OrderInv, [Next]_vars
             PROVE  OrderInv' /\ (Offered # {} /\ ~misjudged' => Offered' # {})
  OBVIOUS
<1>1. PICK top \in Nat : \E ord \in [Backups -> 0..top] : Ordered(ord)
  BY DEF OrderInv
<1>2. PICK ord \in [Backups -> 0..top] : Ordered(ord)
  BY <1>1
<1>3. CASE Keeps(ord)
  <2>1. Ordered(ord)'
    BY <1>2, <1>3, OrderStep DEF BaseInv, Typed
  <2>2. ~misjudged' => Protects(ord)
    BY <1>3 DEF Keeps
  <2> QED
    BY <1>2, <2>1, <2>2 DEF OrderInv, Protects, Offered
<1>4. CASE \E b \in Backups : Saves(b)
  BY <1>4, OrderSaves DEF Saves, Offered
<1> QED
  BY <1>2, <1>3, <1>4, KeepsNext

LEMMA OrderInit == Init => OrderInv
<1> SUFFICES ASSUME Init PROVE OrderInv
  OBVIOUS
<1> DEFINE ord == [b \in Backups |-> 0]
<1>1. 0 \in Nat /\ ord \in [Backups -> 0..0]
  OBVIOUS
<1>2. \A b \in Backups : Payloads(b) = {} /\ row[b] = "none"
  BY NoJobTyped DEF Init, PostsOf, Payloads
<1>3. posts = {} /\ repo.site = <<>>
  BY DEF Init
<1> HIDE DEF ord
<1>4. Ordered(ord)
  BY <1>2, <1>3 DEF Ordered, Rising, SaidLater
<1> QED
  BY <1>1, <1>4 DEF OrderInv

\* A site that offers a restore goes on offering one, whatever restic's retention removes and however late or
\* often the reports that withdraw rows arrive, unless the hourly pass gave up a run that has succeeded.
THEOREM Protected == Spec => StaysProtected
<1>1. BaseInv /\ OrderInv /\ [Next]_vars => [Offered # {} /\ ~misjudged' => Offered' # {}]_vars
  BY OrderNext
<1> QED
  BY <1>1, BaseInit, BaseNext, OrderInit, OrderNext, PTL DEF Spec, StaysProtected
=============================================================================
