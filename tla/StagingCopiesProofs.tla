------------------------ MODULE StagingCopiesProofs ------------------------
(* Theorems about StagingCopies, for every set of apps and names, every number  *)
(* of clicks, copies and faults: types, that an app is only ever given a copy    *)
(* made for it or of its very name, that its changes remove no other, and that   *)
(* an app has one copy.                                                          *)
EXTENDS StagingCopies, FiniteSetTheorems, TLAPS

-----------------------------------------------------------------------------
(* What the proofs rest on *)

HandlerType == [at: Steps, app: Apps, kind: Kinds \union {"burn"}, on: BOOLEAN, copy: Found, removed: BOOLEAN]
PassType == [at: {"idle", "listed", "applying", "cleaning", "posting"}, seen: SUBSET Copies,
             plan: SUBSET ({"clear", "set"} \X Apps \X Copies), todo: SUBSET Apps, tried: 0..Limit]

RecordsTyped ==
    /\ enabled \in [Apps -> BOOLEAN]
    /\ pin \in [Apps -> Found] /\ recorded \in [Apps -> Found]
    /\ last \in [Apps -> {"none", "on", "off", "asked"}]
OpTyped == op \in [Apps -> Handlers \union {Nobody}]
CopyType == [is: {"none", "live", "going", "gone"}, of: Apps, name: [same: SUBSET Apps, near: SUBSET Apps]]
HostingTyped == copy \in [Copies -> CopyType] /\ lost \subseteq Copies
HistoryTyped == faults \in 0..MaxFaults /\ overran \in BOOLEAN /\ misread \in BOOLEAN

\* In the copies all, c is no copy, or one that was made for a or bears its very name.
Own(all, c, a) == c # NoCopy => all[c].is # "none" /\ (all[c].of = a \/ a \in all[c].name.same)

RecordsOwn == \A a \in Apps : Own(copy, pin[a], a) /\ Own(copy, recorded[a], a)

\* A handler works on a copy that belongs to its app, records one it has, and removes it only if it was asked to.
Fits(all, x) ==
    /\ Own(all, x.copy, x.app)
    /\ (x.at = "idle" => x.copy = NoCopy) /\ (x.at = "pin" => x.copy # NoCopy)
    /\ x.at = "remove" => x.copy # NoCopy /\ x.kind = "replace"
    /\ x.at = "destroy" => x.copy # NoCopy /\ x.kind = "burn"
HandlersOwn == handler \in [Handlers -> HandlerType] /\ \A h \in Handlers : Fits(copy, handler[h])

\* What the pass saw is there, and what it will record belongs to the app.
Plans(all, p) ==
    /\ \A c \in p.seen : all[c].is # "none"
    /\ \A entry \in p.plan : entry[1] = "set" => Own(all, entry[3], entry[2])
PassOwn == pass \in PassType /\ Plans(copy, pass)

\* The pass waits for the removal it asked for.
RetryWaits == handler[Retry].at # "idle" => pass.at = "posting"

IInv ==
    /\ RecordsTyped /\ OpTyped /\ HostingTyped /\ HistoryTyped
    /\ RecordsOwn /\ HandlersOwn /\ PassOwn /\ RetryWaits

\* A step leaves the app and the name of every copy that was created alone.
Grows ==
    /\ HostingTyped'
    /\ \A c \in Copies : copy[c].is # "none" => copy'[c].is # "none" /\ copy'[c].of = copy[c].of /\ copy'[c].name = copy[c].name

LEMMA InvTypes == IInv => TypeOK
  BY DEF IInv, RecordsTyped, OpTyped, HostingTyped, HistoryTyped, HandlersOwn, PassOwn, TypeOK, HandlerType, PassType, CopyType

LEMMA Numbers ==
    /\ Retry \notin Requests /\ Requests \subseteq Handlers /\ Retry \in Handlers
    /\ NoCopy \notin Copies /\ NoCopy \in Found /\ Copies \subseteq Found
<1>1. Cardinality(Requests) \in Nat
  BY StagingAssumption, FS_CardinalityType
<1> QED
  BY <1>1, StagingAssumption DEF Retry, Handlers, NoCopy, Found, Copies

LEMMA LimitTyped == Limit \in Nat /\ 0 \in 0..Limit /\ \A n \in 0..Limit : n < Limit => n + 1 \in 0..Limit
<1>1. Limit \in Nat
  BY StagingAssumption
<1> QED
  BY <1>1

-----------------------------------------------------------------------------
(* Lemmas about the operators *)

\* A set of copies that is not empty has a smallest one.
LEMMA Smallest ==
    ASSUME NEW S \in SUBSET Copies, S # {}
    PROVE  Min(S) \in S
<1> DEFINE upTo(n) == {k \in Nat : k =< n}
           T == {upTo(n) : n \in S}
<1>1. S \subseteq Nat
  BY DEF Copies
<1>2. \A n \in S : upTo(n) \in FiniteSubsetsOf(Nat)
  <2> TAKE n \in S
  <2>1. \A k \in upTo(n) : k <= n
    OBVIOUS
  <2>2. upTo(n) \in SUBSET Nat /\ n \in Nat
    BY <1>1
  <2>3. IsFiniteSet(upTo(n))
    BY <2>1, <2>2, FS_BoundedSetOfNaturals
  <2> QED
    BY <2>2, <2>3 DEF FiniteSubsetsOf
<1>3. PICK x \in T : \A y \in T : <<y, x>> \notin StrictSubsetOrdering(Nat)
  <2>1. IsWellFoundedOn(StrictSubsetOrdering(Nat), FiniteSubsetsOf(Nat))
    BY FS_StrictSubsetOrderingWellFounded
  <2>2. T \subseteq FiniteSubsetsOf(Nat) /\ T # {}
    BY <1>2
  <2> QED
    BY <2>1, <2>2, WFMin
<1>4. PICK m \in S : x = upTo(m)
  OBVIOUS
<1>5. \A n \in S : m =< n
  <2> SUFFICES ASSUME NEW n \in S, ~(m =< n) PROVE FALSE
    OBVIOUS
  <2>1. n < m /\ n \in Nat /\ m \in Nat
    BY <1>1
  <2>2. upTo(n) \subseteq upTo(m) /\ m \in upTo(m) /\ m \notin upTo(n)
    BY <2>1
  <2>3. upTo(n) \in SUBSET Nat /\ upTo(m) \in SUBSET Nat /\ upTo(n) # upTo(m)
    BY <2>2
  <2>4. <<upTo(n), upTo(m)>> \in StrictSubsetOrdering(Nat)
    BY <2>2, <2>3 DEF StrictSubsetOrdering
  <2> QED
    BY <1>3, <1>4, <2>4
<1> QED
  BY <1>5 DEF Min

LEMMA VisibleTyped ==
    ASSUME IInv
    PROVE  Visible \in SUBSET Copies /\ \A c \in Visible : copy[c].is # "none"
  BY DEF Visible

\* A match of the very name, among copies that are there.
LEMMA NamedOwn ==
    ASSUME IInv, NEW a \in Apps, NEW some \in SUBSET Visible, NEW own \in Found, Own(copy, own, a)
    PROVE  LET t == PickTarget(own, some, NamedFor(a, some)) IN t \in Found /\ Own(copy, t, a)
<1> DEFINE named == NamedFor(a, some)
<1>1. named \in SUBSET Copies /\ \A c \in named : copy[c].is # "none" /\ a \in copy[c].name.same
  BY VisibleTyped DEF NamedFor
<1>2. named # {} => Min(named) \in named
  BY <1>1, Smallest
<1> HIDE DEF named
<1>3. \/ PickTarget(own, some, named) \in {own, NoCopy}
      \/ named # {} /\ PickTarget(own, some, named) = Min(named)
  BY DEF PickTarget
<1> QED
  BY <1>1, <1>2, <1>3, Numbers DEF Own, named

\* The strict match belongs to the app.
LEMMA StrictOwn ==
    ASSUME IInv, NEW a \in Apps
    PROVE  Strict(a) \in Found /\ Own(copy, Strict(a), a)
<1>1. pin[a] \in Found /\ Own(copy, pin[a], a)
  BY DEF IInv, RecordsTyped, RecordsOwn
<1>2. Candidates(a) \in SUBSET Visible
  BY DEF Candidates
<1> QED
  BY <1>1, <1>2, NamedOwn DEF Strict

\* So is the copy that the evidence picks, among copies that are there.
LEMMA ClaimOwn ==
    ASSUME IInv, NEW seen \in SUBSET Copies, \A c \in seen : copy[c].is # "none",
           NEW a \in Apps, NEW c \in seen, <<a, c>> \in Claims(seen)
    PROVE  Own(copy, c, a)
<1> DEFINE free == Unclaimed(seen)
           named == NamedFor(a, free)
<1>1. Pick(a, seen) = c
  BY DEF Claims, Claimed
<1>2. c # NoCopy /\ c \in Copies
  BY Numbers
<1>3. free \in SUBSET Copies /\ named \in SUBSET free /\ \A d \in named : a \in copy[d].name.same
  BY DEF Unclaimed, NamedFor
<1>4. \/ c = recorded[a]
      \/ Cardinality(named) = 1 /\ c = Min(named)
      \/ Apps = {a}
  BY <1>1, <1>2 DEF Pick
<1> HIDE DEF named, free
<1>5. CASE c = recorded[a]
  BY <1>2, <1>5 DEF IInv, RecordsOwn
<1>6. CASE Cardinality(named) = 1 /\ c = Min(named)
  <2>1. \A S : S = {} => Cardinality(S) = 0
    BY FS_EmptySet, Zenon
  <2>2. named # {}
    <3> SUFFICES ASSUME named = {} PROVE FALSE
      OBVIOUS
    <3>1. Cardinality(named) = 0
      BY <2>1
    <3>2. Cardinality(named) = 1
      BY <1>6
    <3> QED
      BY <3>1, <3>2
  <2>3. c \in named
    BY <1>3, <1>6, <2>2, Smallest
  <2> QED
    BY <1>3, <2>3 DEF Own
<1>7. CASE Apps = {a}
  <2>1. copy[c].of \in Apps
    BY <1>2 DEF IInv, HostingTyped, CopyType
  <2> QED
    BY <1>7, <2>1 DEF Own
<1> QED
  BY <1>4, <1>5, <1>6, <1>7

LEMMA Faults ==
    ASSUME IInv
    PROVE  (NoFault => HistoryTyped') /\ (Fault => HistoryTyped')
<1>1. MaxFaults \in Nat /\ faults \in 0..MaxFaults /\ overran \in BOOLEAN /\ misread \in BOOLEAN
  BY StagingAssumption DEF IInv, HistoryTyped
<1> QED
  BY <1>1 DEF NoFault, Fault, HistoryTyped, history

\* What a look finds belongs to the app, also when the records could not be read.
LEMMA LookFinds ==
    ASSUME IInv, NEW a \in Apps, NEW found, Look(a, found)
    PROVE  found \in Found /\ Own(copy, found, a) /\ HistoryTyped'
<1> DEFINE blind == PickTarget(NoCopy, Visible, NamedFor(a, Visible))
<1>1. Own(copy, NoCopy, a) /\ NoCopy \in Found
  BY Numbers DEF Own
<1>2. blind \in Found /\ Own(copy, blind, a)
  BY <1>1, NamedOwn
<1> HIDE DEF blind
<1>3. found \in {Strict(a), NoCopy, blind} /\ (NoFault \/ Fault)
  BY DEF Look, Answers, blind
<1> QED
  BY <1>1, <1>2, <1>3, StrictOwn, Faults

LEMMA ProbeFinds ==
    ASSUME IInv, NEW a, NEW found, LookRelaxed(a, found)
    PROVE  HistoryTyped'
  BY Faults DEF LookRelaxed, Answers

-----------------------------------------------------------------------------
(* What is left alone *)

LEMMA CopiesSame ==
    ASSUME IInv, copy' = copy, lost' \subseteq Copies
    PROVE  Grows
  BY DEF IInv, Grows, HostingTyped

LEMMA OwnStays ==
    ASSUME IInv, Grows
    PROVE  \A c \in Found, a \in Apps : Own(copy, c, a) => Own(copy', c, a)
  BY DEF Grows, Own, Found

LEMMA RecordsSame ==
    ASSUME IInv, Grows, enabled' = enabled, pin' = pin, recorded' = recorded, last' = last
    PROVE  RecordsTyped' /\ RecordsOwn'
<1>1. pin \in [Apps -> Found] /\ recorded \in [Apps -> Found]
  BY DEF IInv, RecordsTyped
<1>2. RecordsTyped'
  BY DEF IInv, RecordsTyped
<1>3. RecordsOwn'
  BY <1>1, OwnStays DEF IInv, RecordsOwn
<1> QED
  BY <1>2, <1>3

\* A pass that forgets some of what it saw and planned.
LEMMA PassShrinks ==
    ASSUME IInv, Grows, pass' \in PassType, pass'.seen \subseteq pass.seen, pass'.plan \subseteq pass.plan
    PROVE  PassOwn'
<1>1. pass \in PassType /\ Plans(copy, pass)
  BY DEF IInv, PassOwn
<1>2. pass.seen \subseteq Copies /\ \A entry \in pass.plan : entry[2] \in Apps /\ entry[3] \in Copies
  BY <1>1 DEF PassType
<1>3. \A c \in pass'.seen : copy'[c].is # "none"
  BY <1>1, <1>2 DEF Plans, Grows
<1>4. \A entry \in pass'.plan : entry[1] = "set" => Own(copy', entry[3], entry[2])
  <2> TAKE entry \in pass'.plan
  <2>1. entry \in pass.plan /\ entry[2] \in Apps /\ entry[3] \in Found
    BY <1>2, Numbers
  <2> QED
    BY <1>1, <2>1, OwnStays DEF Plans
<1> QED
  BY <1>3, <1>4 DEF PassOwn, Plans

LEMMA PassSame ==
    ASSUME IInv, Grows, pass' = pass
    PROVE  PassOwn'
<1>1. pass \in PassType
  BY DEF IInv, PassOwn
<1> QED
  BY <1>1, PassShrinks

\* Of the handlers, only h moves, to x.
LEMMA HandlerMoves ==
    ASSUME IInv, Grows, NEW h \in Handlers, NEW x \in HandlerType,
           handler' = [handler EXCEPT ![h] = x], Fits(copy', x)
    PROVE  HandlersOwn' /\ handler'[h] = x /\ \A g \in Handlers \ {h} : handler'[g] = handler[g]
<1>1. handler \in [Handlers -> HandlerType] /\ \A g \in Handlers : Fits(copy, handler[g])
  BY DEF IInv, HandlersOwn
<1>2. /\ handler' \in [Handlers -> HandlerType] /\ handler'[h] = x
      /\ \A g \in Handlers \ {h} : handler'[g] = handler[g]
  BY <1>1
<1>3. \A g \in Handlers : Fits(copy', handler'[g])
  <2> TAKE g \in Handlers
  <2>1. CASE g = h
    BY <1>2, <2>1
  <2>2. CASE g # h
    <3>1. handler'[g] = handler[g] /\ Fits(copy, handler[g])
      BY <1>1, <1>2, <2>2
    <3>2. handler[g].copy \in Found /\ handler[g].app \in Apps
      BY <1>1 DEF HandlerType
    <3> QED
      BY <3>1, <3>2, OwnStays DEF Fits
  <2> QED
    BY <2>1, <2>2
<1> QED
  BY <1>2, <1>3 DEF HandlersOwn

LEMMA HandlerTyped ==
    ASSUME IInv, NEW h \in Handlers
    PROVE  /\ handler[h] \in HandlerType /\ App(h) \in Apps /\ handler[h].copy \in Found
           /\ handler[h].kind \in Kinds \union {"burn"} /\ handler[h].on \in BOOLEAN /\ handler[h].removed \in BOOLEAN
           /\ Own(copy, handler[h].copy, App(h)) /\ Fits(copy, handler[h])
  BY DEF IInv, HandlersOwn, HandlerType, App, Fits

\* A handler goes on with its app and kind, and maybe another copy.
LEMMA Goes ==
    ASSUME IInv, Grows, NEW h \in Handlers, NEW at \in Steps \ {"idle"}, NEW c \in Found, NEW on \in BOOLEAN,
           NEW removed \in BOOLEAN, Own(copy', c, App(h)),
           at = "pin" => c # NoCopy, at = "remove" => c # NoCopy /\ handler[h].kind = "replace",
           at = "destroy" => c # NoCopy /\ handler[h].kind = "burn",
           handler' = [handler EXCEPT ![h].at = at, ![h].on = on, ![h].copy = c, ![h].removed = removed]
    PROVE  HandlersOwn' /\ (~At(h, "idle") /\ pass' = pass => RetryWaits')
<1> DEFINE x == [handler[h] EXCEPT !.at = at, !.on = on, !.copy = c, !.removed = removed]
<1>1. handler[h] \in HandlerType /\ handler \in [Handlers -> HandlerType]
  BY HandlerTyped DEF IInv, HandlersOwn
<1>2. x \in HandlerType /\ x.at = at /\ x.copy = c /\ x.app = App(h) /\ x.kind = handler[h].kind
  BY <1>1 DEF HandlerType, App
<1>3. handler' = [handler EXCEPT ![h] = x]
  BY <1>1 DEF HandlerType
<1>4. Fits(copy', x)
  BY <1>2 DEF Fits
<1> HIDE DEF x
<1>5. HandlersOwn' /\ handler'[h] = x /\ \A g \in Handlers \ {h} : handler'[g] = handler[g]
  BY <1>2, <1>3, <1>4, HandlerMoves
<1>6. ASSUME ~At(h, "idle"), pass' = pass PROVE RetryWaits'
  BY <1>5, <1>6, Numbers DEF RetryWaits, IInv, At
<1> QED
  BY <1>5, <1>6

LEMMA GotoOwn ==
    ASSUME IInv, Grows, NEW h \in Handlers, ~At(h, "idle"), pass' = pass,
           NEW at \in Steps \ {"idle", "pin", "remove", "destroy"}, Goto(h, at)
    PROVE  HandlersOwn' /\ RetryWaits'
<1>1. /\ handler[h] \in HandlerType /\ handler[h].copy \in Found /\ handler[h].on \in BOOLEAN
      /\ handler[h].removed \in BOOLEAN /\ App(h) \in Apps /\ Own(copy, handler[h].copy, App(h))
  BY HandlerTyped
<1>2. Own(copy', handler[h].copy, App(h))
  BY <1>1, OwnStays
<1>3. handler' = [handler EXCEPT ![h].at = at, ![h].on = handler[h].on, ![h].copy = handler[h].copy,
                                 ![h].removed = handler[h].removed]
  <2>1. handler \in [Handlers -> HandlerType]
    BY DEF IInv, HandlersOwn
  <2> QED
    BY <2>1 DEF Goto, HandlerType
<1> QED
  BY <1>1, <1>2, <1>3, Goes

LEMMA GotoWithOwn ==
    ASSUME IInv, Grows, NEW h \in Handlers, ~At(h, "idle"), pass' = pass, NEW at \in Steps \ {"idle"},
           NEW c \in Found, Own(copy, c, App(h)),
           at = "pin" => c # NoCopy, at = "remove" => c # NoCopy /\ handler[h].kind = "replace",
           at = "destroy" => c # NoCopy /\ handler[h].kind = "burn",
           GotoWith(h, at, c)
    PROVE  HandlersOwn' /\ RetryWaits'
<1>1. handler[h] \in HandlerType /\ handler[h].on \in BOOLEAN /\ handler[h].removed \in BOOLEAN /\ App(h) \in Apps
  BY HandlerTyped
<1>2. Own(copy', c, App(h))
  BY <1>1, OwnStays
<1>3. handler' = [handler EXCEPT ![h].at = at, ![h].on = handler[h].on, ![h].copy = c,
                                 ![h].removed = handler[h].removed]
  <2>1. handler \in [Handlers -> HandlerType]
    BY DEF IInv, HandlersOwn
  <2> QED
    BY <2>1 DEF GotoWith, HandlerType
<1> QED
  BY <1>1, <1>2, <1>3, Goes

\* The record of one app's copy changes, if anything.
LEMMA PinOwn ==
    ASSUME IInv, Grows, enabled' = enabled, recorded' = recorded, last' = last,
           NEW a \in Apps, NEW c \in Found, Own(copy, c, a),
           pin' = [pin EXCEPT ![a] = c] \/ pin' = pin
    PROVE  RecordsTyped' /\ RecordsOwn'
<1>1. pin \in [Apps -> Found] /\ recorded \in [Apps -> Found]
  BY DEF IInv, RecordsTyped
<1>2. RecordsTyped'
  BY <1>1 DEF IInv, RecordsTyped
<1>3. \A b \in Apps : pin'[b] = pin[b] \/ (b = a /\ pin'[b] = c)
  BY <1>1
<1>4. RecordsOwn'
  BY <1>1, <1>3, OwnStays DEF IInv, RecordsOwn
<1> QED
  BY <1>2, <1>4

\* A step of one handler that changes no record, lock, copy or plan of the pass.
LEMMA OnlyMoves ==
    ASSUME IInv, Grows => HandlersOwn' /\ RetryWaits', HistoryTyped', UNCHANGED records, op' = op,
           UNCHANGED hosting, pass' = pass
    PROVE  IInv'
<1>1. copy' = copy /\ lost' = lost /\ lost \subseteq Copies
  BY DEF hosting, IInv, HostingTyped
<1>2. Grows
  BY <1>1, CopiesSame
<1>3. enabled' = enabled /\ pin' = pin /\ recorded' = recorded /\ last' = last
  BY DEF records
<1>4. OpTyped' /\ HostingTyped'
  BY <1>2 DEF IInv, OpTyped, Grows
<1> QED
  BY <1>2, <1>3, <1>4, RecordsSame, PassSame DEF IInv

-----------------------------------------------------------------------------
(* Turning staging on *)

LEMMA StepReadEvidence == ASSUME IInv, NEW h \in Handlers, ReadEvidence(h) PROVE IInv'
<1> DEFINE found == {c \in Visible : <<App(h), c>> \in Claims(Visible)}
           mine == IF pin[App(h)] = NoCopy /\ found # {} THEN Min(found) ELSE NoCopy
<1>1. /\ handler' = [handler EXCEPT ![h].at = "claim", ![h].on = enabled[App(h)], ![h].copy = mine]
      /\ UNCHANGED records /\ UNCHANGED hosting /\ UNCHANGED history /\ op' = op /\ pass' = pass /\ ~At(h, "idle")
  BY DEF ReadEvidence, At
<1>2. /\ handler[h] \in HandlerType /\ handler[h].removed \in BOOLEAN /\ App(h) \in Apps
  BY HandlerTyped
<1>3. enabled[App(h)] \in BOOLEAN
  BY <1>2 DEF IInv, RecordsTyped
<1>4. mine \in Found /\ Own(copy, mine, App(h))
  <2>1. \A c \in found : Own(copy, c, App(h))
    BY <1>2, VisibleTyped, ClaimOwn
  <2>2. found # {} => Min(found) \in found
    BY VisibleTyped, Smallest
  <2>3. found \subseteq Found
    BY VisibleTyped, Numbers
  <2> HIDE DEF found
  <2> QED
    BY <2>1, <2>2, <2>3, Numbers DEF Own
<1> HIDE DEF mine
<1>5. handler' = [handler EXCEPT ![h].at = "claim", ![h].on = enabled[App(h)], ![h].copy = mine,
                                 ![h].removed = handler[h].removed]
  <2>1. handler \in [Handlers -> HandlerType]
    BY DEF IInv, HandlersOwn
  <2> QED
    BY <1>1, <2>1 DEF HandlerType
<1>6. ASSUME Grows PROVE HandlersOwn' /\ RetryWaits'
  <2>1. Own(copy', mine, App(h))
    BY <1>2, <1>4, <1>6, OwnStays
  <2>2. "claim" \in Steps \ {"idle"}
    BY DEF Steps
  <2> QED
    BY <1>1, <1>2, <1>3, <1>4, <1>5, <1>6, <2>1, <2>2, Goes, ZenonT(30)
<1> QED
  BY <1>1, <1>6, Faults, OnlyMoves DEF NoFault

LEMMA StepRecordClaim == ASSUME IInv, NEW h \in Handlers, RecordClaim(h) PROVE IInv'
<1>1. /\ enabled' = enabled /\ recorded' = recorded /\ last' = last /\ op' = op /\ pass' = pass
      /\ copy' = copy /\ lost' = lost /\ ~At(h, "idle") /\ (NoFault \/ Fault)
      /\ GotoWith(h, IF handler[h].on THEN "enable" ELSE "look", NoCopy)
  BY DEF RecordClaim, At, hosting
<1>2. pin' = [pin EXCEPT ![App(h)] = handler[h].copy] \/ pin' = pin
  <2>1. pin \in [Apps -> Found]
    BY DEF IInv, RecordsTyped
  <2> QED
    BY <2>1 DEF RecordClaim
<1>3. App(h) \in Apps /\ handler[h].copy \in Found /\ Own(copy, handler[h].copy, App(h))
  BY HandlerTyped
<1>4. Grows
  BY <1>1, CopiesSame DEF IInv, HostingTyped
<1>5. RecordsTyped' /\ RecordsOwn'
  BY <1>1, <1>2, <1>3, <1>4, PinOwn
<1>6. HandlersOwn' /\ RetryWaits'
  <2>1. Own(copy, NoCopy, App(h)) /\ NoCopy \in Found
    BY Numbers DEF Own
  <2> DEFINE at == IF handler[h].on THEN "enable" ELSE "look"
  <2>2. at \in Steps \ {"idle"} /\ at # "pin" /\ at # "remove" /\ at # "destroy" /\ GotoWith(h, at, NoCopy)
    BY <1>1 DEF Steps
  <2> HIDE DEF at
  <2> QED
    BY <1>1, <1>4, <2>1, <2>2, GotoWithOwn
<1> QED
  BY <1>1, <1>4, <1>5, <1>6, Faults, PassSame DEF IInv, Grows, OpTyped

LEMMA StepFirstLook == ASSUME IInv, NEW h \in Handlers, FirstLook(h) PROVE IInv'
<1>1. /\ UNCHANGED records /\ UNCHANGED hosting /\ op' = op /\ pass' = pass /\ ~At(h, "idle")
  BY DEF FirstLook, At
<1>2. (NoFault \/ Fault) /\ \E at \in {"enable", "residue"} : Goto(h, at)
  BY DEF FirstLook
<1>3. PICK at \in {"enable", "residue"} : Goto(h, at)
  BY <1>2
<1>4. ASSUME Grows PROVE HandlersOwn' /\ RetryWaits'
  BY <1>1, <1>3, <1>4, GotoOwn DEF Steps
<1> QED
  BY <1>1, <1>2, <1>4, Faults, OnlyMoves

LEMMA StepResidueClears == ASSUME IInv, NEW h \in Handlers, ResidueClears(h) PROVE IInv'
<1>1. /\ UNCHANGED records /\ UNCHANGED hosting /\ op' = op /\ pass' = pass /\ ~At(h, "idle")
      /\ Look(App(h), NoCopy) /\ Goto(h, "enable")
  BY DEF ResidueClears, At
<1>2. ASSUME Grows PROVE HandlersOwn' /\ RetryWaits'
  BY <1>1, <1>2, GotoOwn DEF Steps
<1> QED
  BY <1>1, <1>2, HandlerTyped, LookFinds, OnlyMoves

LEMMA StepResidueStays == ASSUME IInv, NEW h \in Handlers, ResidueStays(h) PROVE IInv'
<1>1. UNCHANGED records /\ UNCHANGED hosting /\ op' = op /\ pass' = pass /\ ~At(h, "idle")
  BY DEF ResidueStays, At
<1>2. PICK found \in Copies :
         /\ Look(App(h), found)
         /\ \/ handler[h].kind = "replace" /\ GotoWith(h, "remove", found)
            \/ Goto(h, "finish")
  BY DEF ResidueStays
<1>3. found \in Found /\ found # NoCopy /\ Own(copy, found, App(h)) /\ HistoryTyped'
  BY <1>2, HandlerTyped, LookFinds, Numbers
<1>4. ASSUME Grows PROVE HandlersOwn' /\ RetryWaits'
  <2>1. CASE handler[h].kind = "replace" /\ GotoWith(h, "remove", found)
    BY <1>1, <1>3, <1>4, <2>1, GotoWithOwn DEF Steps
  <2>2. CASE Goto(h, "finish")
    BY <1>1, <1>4, <2>2, GotoOwn DEF Steps
  <2> QED
    BY <1>2, <2>1, <2>2
<1> QED
  BY <1>1, <1>3, <1>4, OnlyMoves

\* Hosting accepts the removal of a copy.
LEMMA VanishingGrows ==
    ASSUME IInv, NEW c, copy' = Vanishing(c), lost' = lost
    PROVE  Grows
<1>1. copy \in [Copies -> CopyType] /\ lost \subseteq Copies
  BY DEF IInv, HostingTyped
<1>2. copy' \in [Copies -> CopyType]
  BY <1>1 DEF Vanishing, CopyType
<1>3. \A d \in Copies : /\ copy'[d].of = copy[d].of /\ copy'[d].name = copy[d].name
                        /\ copy[d].is # "none" => copy'[d].is # "none"
  BY <1>1 DEF Vanishing, CopyType
<1> QED
  BY <1>1, <1>2, <1>3 DEF Grows, HostingTyped

\* A step after which hosting was asked to remove the copy the handler works on.
LEMMA AsksRemoval ==
    ASSUME IInv, NEW h \in Handlers, NEW next \in {"residue", "probe"}, NEW failed \in {"finish", "probe"},
           ~At(h, "idle"),
           Remove(h, next, failed),
           UNCHANGED records, op' = op, lost' = lost, pass' = pass
    PROVE  IInv'
<1>1. Grows
  BY VanishingGrows, CopiesSame DEF IInv, HostingTyped, Remove
<1>2. enabled' = enabled /\ pin' = pin /\ recorded' = recorded /\ last' = last
  BY DEF records
<1>3. HandlersOwn' /\ RetryWaits'
  <2>1. ASSUME handler' = [handler EXCEPT ![h].at = next, ![h].removed = TRUE] PROVE HandlersOwn' /\ RetryWaits'
    <3>1. /\ handler[h].copy \in Found /\ handler[h].on \in BOOLEAN /\ App(h) \in Apps
          /\ Own(copy, handler[h].copy, App(h))
      BY HandlerTyped
    <3>2. Own(copy', handler[h].copy, App(h))
      BY <1>1, <3>1, OwnStays
    <3>3. handler' = [handler EXCEPT ![h].at = next, ![h].on = handler[h].on, ![h].copy = handler[h].copy,
                                     ![h].removed = TRUE]
      <4>1. handler \in [Handlers -> HandlerType]
        BY DEF IInv, HandlersOwn
      <4> QED
        BY <2>1, <4>1 DEF HandlerType
    <3> QED
      BY <1>1, <3>1, <3>2, <3>3, Goes DEF Steps
  <2>2. ASSUME Goto(h, failed) PROVE HandlersOwn' /\ RetryWaits'
    BY <1>1, <2>2, GotoOwn DEF Steps
  <2> QED
    BY <2>1, <2>2 DEF Remove
<1>4. HistoryTyped'
  BY Faults DEF Remove
<1> QED
  BY <1>1, <1>2, <1>3, <1>4, RecordsSame, PassSame DEF IInv, Grows, OpTyped

LEMMA StepRemoveResidue == ASSUME IInv, NEW h \in Handlers, RemoveResidue(h) PROVE IInv'
<1>1. /\ UNCHANGED records /\ op' = op /\ lost' = lost /\ pass' = pass /\ ~At(h, "idle")
      /\ Remove(h, "residue", "finish")
  BY DEF RemoveResidue, At
<1> QED
  BY <1>1, AsksRemoval

\* The switch is written or not.
LEMMA SwitchOwn ==
    ASSUME IInv, NEW h \in Handlers, NEW on \in BOOLEAN, NEW next \in {"current", "find"}, Switch(h, on, next),
           ~At(h, "idle"), pin' = pin, recorded' = recorded, last' = last, op' = op, UNCHANGED hosting, pass' = pass
    PROVE  IInv'
<1>1. copy' = copy /\ lost' = lost
  BY DEF hosting
<1>2. Grows
  BY <1>1, CopiesSame DEF IInv, HostingTyped
<1>3. enabled' \in [Apps -> BOOLEAN] /\ HistoryTyped'
  BY Faults DEF Switch, IInv, RecordsTyped
<1>4. RecordsTyped' /\ RecordsOwn'
  <2>1. pin \in [Apps -> Found] /\ recorded \in [Apps -> Found]
    BY DEF IInv, RecordsTyped
  <2> QED
    BY <1>2, <1>3, <2>1, OwnStays DEF IInv, RecordsTyped, RecordsOwn
<1>5. PICK at \in {"current", "find", "finish"} : Goto(h, at)
  BY DEF Switch
<1>6. HandlersOwn' /\ RetryWaits'
  BY <1>2, <1>5, GotoOwn DEF Steps
<1> QED
  BY <1>2, <1>3, <1>4, <1>6, PassSame DEF IInv, Grows, OpTyped

LEMMA StepEnable == ASSUME IInv, NEW h \in Handlers, Enable(h) PROVE IInv'
<1>1. /\ Switch(h, TRUE, "current") /\ ~At(h, "idle") /\ pin' = pin /\ recorded' = recorded /\ last' = last
      /\ op' = op /\ UNCHANGED hosting /\ pass' = pass
  BY DEF Enable, At
<1> QED
  BY <1>1, SwitchOwn

\* A handler that takes the copy it found, or none.
LEMMA TakesFound ==
    ASSUME IInv, NEW h \in Handlers, NEW found, Look(App(h), found), ~At(h, "idle"),
           NEW at \in {"check", "attach", "auditOn", "destroy", "auditOff"},
           at = "destroy" => found # NoCopy /\ handler[h].kind = "burn",
           GotoWith(h, at, found), UNCHANGED records, op' = op, UNCHANGED hosting, pass' = pass
    PROVE  IInv'
<1>2. found \in Found /\ Own(copy, found, App(h)) /\ HistoryTyped'
  BY HandlerTyped, LookFinds
<1>3. at \in Steps \ {"idle"} /\ at # "pin" /\ at # "remove"
  BY DEF Steps
<1>4. ASSUME Grows PROVE HandlersOwn' /\ RetryWaits'
  BY <1>2, <1>3, <1>4, GotoWithOwn
<1> QED
  BY <1>2, <1>4, OnlyMoves

LEMMA StepLookForCopy == ASSUME IInv, NEW h \in Handlers, LookForCopy(h) PROVE IInv'
<1>1. UNCHANGED records /\ UNCHANGED hosting /\ op' = op /\ pass' = pass /\ ~At(h, "idle")
  BY DEF LookForCopy, At
<1>2. PICK found \in Found : /\ Look(App(h), found)
                             /\ GotoWith(h, IF found = NoCopy THEN "check" ELSE "attach", found)
  BY DEF LookForCopy
<1>3. PICK at \in {"check", "attach"} : GotoWith(h, at, found)
  BY <1>2
<1> QED
  BY <1>1, <1>2, <1>3, TakesFound

\* The record of the app's copy is written, or the write is lost.
LEMMA Pins ==
    ASSUME IInv, NEW h \in Handlers, NEW c \in Found, Own(copy, c, App(h)), 
           WritePin(App(h), c) \/ ((pin' = [pin EXCEPT ![App(h)] = c] \/ pin' = pin) /\ HistoryTyped'),
           Grows => HandlersOwn' /\ RetryWaits',
           enabled' = enabled, recorded' = recorded, last' = last, op' = op, UNCHANGED hosting, pass' = pass
    PROVE  IInv'
<1>1. copy' = copy /\ lost' = lost
  BY DEF hosting
<1>2. Grows
  BY <1>1, CopiesSame DEF IInv, HostingTyped
<1>3. (pin' = [pin EXCEPT ![App(h)] = c] \/ pin' = pin) /\ HistoryTyped'
  BY Faults DEF WritePin
<1>4. App(h) \in Apps
  BY HandlerTyped
<1>5. RecordsTyped' /\ RecordsOwn'
  BY <1>2, <1>3, <1>4, PinOwn
<1> QED
  BY <1>2, <1>3, <1>5, PassSame DEF IInv, Grows, OpTyped

LEMMA StepAttach == ASSUME IInv, NEW h \in Handlers, Attach(h) PROVE IInv'
<1>1. /\ WritePin(App(h), handler[h].copy) /\ Goto(h, "auditOn") /\ ~At(h, "idle") /\ enabled' = enabled
      /\ recorded' = recorded /\ last' = last /\ op' = op /\ UNCHANGED hosting /\ pass' = pass
  BY DEF Attach, At
<1>2. ASSUME Grows PROVE HandlersOwn' /\ RetryWaits'
  BY <1>1, <1>2, GotoOwn DEF Steps
<1> QED
  BY <1>1, <1>2, HandlerTyped, Pins

LEMMA StepCheckAgain == ASSUME IInv, NEW h \in Handlers, CheckAgain(h) PROVE IInv'
<1>1. UNCHANGED records /\ UNCHANGED hosting /\ op' = op /\ pass' = pass /\ ~At(h, "idle")
  BY DEF CheckAgain, At
<1>2. PICK found \in Found : /\ Look(App(h), found)
                             /\ Goto(h, IF found = NoCopy THEN "create" ELSE "provisioned")
  BY DEF CheckAgain
<1>3. PICK at \in {"create", "provisioned"} : Goto(h, at)
  BY <1>2
<1>4. ASSUME Grows PROVE HandlersOwn' /\ RetryWaits'
  BY <1>1, <1>3, <1>4, GotoOwn DEF Steps
<1> QED
  BY <1>1, <1>2, <1>4, HandlerTyped, LookFinds, OnlyMoves

LEMMA StepCreate == ASSUME IInv, NEW h \in Handlers, Create(h) PROVE IInv'
<1> DEFINE new == NextCopy
<1>1. /\ UNCHANGED records /\ op' = op /\ pass' = pass /\ ~At(h, "idle")
  BY DEF Create, At
<1>0. PICK name \in Names[App(h)] : copy' = [copy EXCEPT ![new] = [is |-> "live", of |-> App(h), name |-> name]]
  BY DEF Create
<1>2. \/ GotoWith(h, "pin", new) /\ lost' = lost /\ NoFault
      \/ (Goto(h, "create") \/ Goto(h, "provisioned")) /\ lost' = lost \union {new} /\ Fault
  BY DEF Create
<1>3. new \in Copies /\ copy[new].is = "none"
  <2>1. {c \in Copies : copy[c].is = "none"} # {}
    BY DEF Create
  <2>2. NextCopy \in {c \in Copies : copy[c].is = "none"}
    BY <2>1, Smallest DEF NextCopy
  <2> QED
    BY <2>2
<1> HIDE DEF new
<1>4. App(h) \in Apps /\ handler[h] \in HandlerType /\ handler[h].on \in BOOLEAN /\ handler[h].removed \in BOOLEAN
  BY HandlerTyped
<1>5. Grows
  <2>1. copy \in [Copies -> CopyType] /\ lost \subseteq Copies
    BY DEF IInv, HostingTyped
  <2>2. copy' \in [Copies -> CopyType]
    <3>1. name \in [same : SUBSET Apps, near : SUBSET Apps]
      BY <1>4, StagingAssumption
    <3> QED
      BY <1>0, <1>4, <2>1, <3>1 DEF CopyType
  <2>3. \A c \in Copies \ {new} : copy'[c] = copy[c]
    BY <1>0, <2>1
  <2> QED
    BY <1>2, <1>3, <2>1, <2>2, <2>3 DEF Grows, HostingTyped
<1>6. Own(copy', new, App(h)) /\ new \in Found
  <2>1. copy'[new] = [is |-> "live", of |-> App(h), name |-> name]
    BY <1>0, <1>3 DEF IInv, HostingTyped
  <2> QED
    BY <1>3, <2>1, Numbers DEF Own
<1>7. HandlersOwn' /\ RetryWaits'
  <2>1. ASSUME GotoWith(h, "pin", new) PROVE HandlersOwn' /\ RetryWaits'
    <3>1. handler' = [handler EXCEPT ![h].at = "pin", ![h].on = handler[h].on, ![h].copy = new,
                                     ![h].removed = handler[h].removed]
      <4>1. handler \in [Handlers -> HandlerType]
        BY DEF IInv, HandlersOwn
      <4> QED
        BY <2>1, <4>1 DEF GotoWith, HandlerType
    <3>2. "pin" \in Steps \ {"idle"}
      BY DEF Steps
    <3>3. new # NoCopy
      BY <1>3, Numbers
    <3> QED
      BY <1>1, <1>4, <1>5, <1>6, <3>1, <3>2, <3>3, Goes
  <2>2. ASSUME Goto(h, "create") \/ Goto(h, "provisioned") PROVE HandlersOwn' /\ RetryWaits'
    <3>1. PICK at \in {"create", "provisioned"} : Goto(h, at)
      BY <2>2
    <3> QED
      BY <1>1, <1>5, <3>1, GotoOwn DEF Steps
  <2> QED
    BY <1>2, <2>1, <2>2
<1>8. enabled' = enabled /\ pin' = pin /\ recorded' = recorded /\ last' = last
  BY <1>1 DEF records
<1> QED
  BY <1>1, <1>2, <1>5, <1>7, <1>8, Faults, RecordsSame, PassSame DEF IInv, Grows, OpTyped

LEMMA StepRefused == ASSUME IInv, NEW h \in Handlers, Refused(h) PROVE IInv'
<1>1. /\ UNCHANGED records /\ UNCHANGED hosting /\ UNCHANGED history /\ op' = op /\ pass' = pass
      /\ Goto(h, "provisioned") /\ ~At(h, "idle")
  BY DEF Refused, At
<1>2. ASSUME Grows PROVE HandlersOwn' /\ RetryWaits'
  BY <1>1, <1>2, GotoOwn DEF Steps
<1> QED
  BY <1>1, <1>2, Faults, OnlyMoves DEF NoFault

LEMMA StepPinCreated == ASSUME IInv, NEW h \in Handlers, PinCreated(h) PROVE IInv'
<1>1. /\ WritePin(App(h), handler[h].copy) /\ Goto(h, "provisioned") /\ ~At(h, "idle") /\ enabled' = enabled
      /\ recorded' = recorded /\ last' = last /\ op' = op /\ UNCHANGED hosting /\ pass' = pass
  BY DEF PinCreated, At
<1>2. ASSUME Grows PROVE HandlersOwn' /\ RetryWaits'
  BY <1>1, <1>2, GotoOwn DEF Steps
<1> QED
  BY <1>1, <1>2, HandlerTyped, Pins

LEMMA StepLookAgain == ASSUME IInv, NEW h \in Handlers, LookAgain(h) PROVE IInv'
<1>1. /\ enabled' = enabled /\ recorded' = recorded /\ last' = last /\ op' = op /\ UNCHANGED hosting
      /\ pass' = pass /\ ~At(h, "idle")
  BY DEF LookAgain, At
<1>2. CASE handler[h].copy = NoCopy
  <2>1. pin' = pin /\ \E found \in Found : Look(App(h), found) /\ GotoWith(h, "auditOn", found)
    BY <1>2 DEF LookAgain
  <2>2. UNCHANGED records
    BY <1>1, <2>1 DEF records
  <2> QED
    BY <1>1, <2>1, <2>2, TakesFound
<1>3. CASE handler[h].copy # NoCopy
  <2>1. PICK found \in Found :
           /\ \/ Look(App(h), found) /\ pin' = [pin EXCEPT ![App(h)] = handler[h].copy]
              \/ found = Strict(App(h)) /\ pin' = pin /\ Fault
           /\ GotoWith(h, "auditOn", IF found = NoCopy THEN handler[h].copy ELSE found)
    BY <1>3 DEF LookAgain
  <2>2. PICK c \in {handler[h].copy, found} : GotoWith(h, "auditOn", c)
    BY <2>1
  <2>3. /\ c \in Found /\ Own(copy, c, App(h)) /\ handler[h].copy \in Found /\ Own(copy, handler[h].copy, App(h))
        /\ HistoryTyped'
    BY <2>1, HandlerTyped, StrictOwn, LookFinds, Faults
  <2>4. ASSUME Grows PROVE HandlersOwn' /\ RetryWaits'
    <3>1. "auditOn" \in Steps \ {"idle"}
      BY DEF Steps
    <3> QED
      BY <1>1, <2>2, <2>3, <2>4, <3>1, GotoWithOwn
  <2> QED
    BY <1>1, <2>1, <2>3, <2>4, Pins
<1> QED
  BY <1>2, <1>3

\* What the log says of the app's copy is its own.
LEMMA AuditOwn ==
    ASSUME IInv, NEW h \in Handlers, NEW newest \in Found, Own(copy, newest, App(h)),
           NEW said \in {"on", "off", "asked"}, Audit(h, newest, said), ~At(h, "idle")
    PROVE  IInv'
<1>1. /\ Goto(h, "finish") /\ enabled' = enabled /\ pin' = pin /\ op' = op /\ pass' = pass
      /\ copy' = copy /\ lost' = lost
  BY DEF Audit, hosting
<1>2. \/ /\ recorded' = [recorded EXCEPT ![App(h)] = newest]
         /\ last' = [last EXCEPT ![App(h)] = said] /\ NoFault
      \/ recorded' = recorded /\ last' = last /\ Fault
  BY DEF Audit
<1>3. Grows
  BY <1>1, CopiesSame DEF IInv, HostingTyped
<1>4. HandlersOwn' /\ RetryWaits'
  BY <1>1, <1>3, GotoOwn DEF Steps
<1>5. /\ pin \in [Apps -> Found] /\ recorded \in [Apps -> Found] /\ App(h) \in Apps
      /\ last \in [Apps -> {"none", "on", "off", "asked"}]
  BY HandlerTyped DEF IInv, RecordsTyped
<1>6. RecordsTyped'
  BY <1>1, <1>2, <1>5 DEF IInv, RecordsTyped
<1>7. RecordsOwn'
  <2>1. \A a \in Apps : recorded'[a] = recorded[a] \/ (a = App(h) /\ recorded'[a] = newest)
    BY <1>2, <1>5
  <2> QED
    BY <1>1, <1>3, <1>5, <2>1, OwnStays DEF IInv, RecordsOwn
<1> QED
  BY <1>1, <1>2, <1>3, <1>4, <1>6, <1>7, Faults, PassSame DEF IInv, Grows, OpTyped

LEMMA RecordedOwn ==
    ASSUME IInv, NEW h \in Handlers
    PROVE  /\ recorded[App(h)] \in Found /\ Own(copy, recorded[App(h)], App(h))
           /\ handler[h].copy \in Found /\ Own(copy, handler[h].copy, App(h))
           /\ NoCopy \in Found /\ Own(copy, NoCopy, App(h))
  BY HandlerTyped, Numbers DEF IInv, RecordsTyped, RecordsOwn, Own

LEMMA StepAuditOn == ASSUME IInv, NEW h \in Handlers, AuditOn(h) PROVE IInv'
<1>1. PICK newest \in {recorded[App(h)], handler[h].copy} : Audit(h, newest, "on")
  BY DEF AuditOn
<1>2. ~At(h, "idle")
  BY DEF AuditOn, At
<1> QED
  BY <1>1, <1>2, RecordedOwn, AuditOwn

-----------------------------------------------------------------------------
(* Turning staging off *)

LEMMA StepDisable == ASSUME IInv, NEW h \in Handlers, Disable(h) PROVE IInv'
<1>1. /\ Switch(h, FALSE, "find") /\ ~At(h, "idle") /\ pin' = pin /\ recorded' = recorded /\ last' = last
      /\ op' = op /\ UNCHANGED hosting /\ pass' = pass
  BY DEF Disable, At
<1> QED
  BY <1>1, SwitchOwn

LEMMA StepFind == ASSUME IInv, NEW h \in Handlers, Find(h) PROVE IInv'
<1>1. UNCHANGED records /\ UNCHANGED hosting /\ op' = op /\ pass' = pass /\ ~At(h, "idle")
  BY DEF Find, At
<1>2. PICK found \in Found :
        /\ Look(App(h), found)
        /\ GotoWith(h, IF handler[h].kind = "burn" /\ found # NoCopy THEN "destroy" ELSE "auditOff", found)
  BY DEF Find
<1>3. PICK at \in {"destroy", "auditOff"} : /\ GotoWith(h, at, found)
                                            /\ at = "destroy" => found # NoCopy /\ handler[h].kind = "burn"
  BY <1>2
<1> QED
  BY <1>1, <1>2, <1>3, TakesFound

LEMMA StepDestroy == ASSUME IInv, NEW h \in Handlers, Destroy(h) PROVE IInv'
<1>1. /\ UNCHANGED records /\ op' = op /\ lost' = lost /\ pass' = pass /\ ~At(h, "idle")
      /\ Remove(h, "probe", "probe")
  BY DEF Destroy, At
<1> QED
  BY <1>1, AsksRemoval

LEMMA StepProbe == ASSUME IInv, NEW h \in Handlers, Probe(h) PROVE IInv'
<1>1. UNCHANGED records /\ UNCHANGED hosting /\ op' = op /\ pass' = pass /\ ~At(h, "idle")
  BY DEF Probe, At
<1>2. HistoryTyped'
  BY ProbeFinds, Faults DEF Probe
<1>3. PICK at \in {"forget", "auditOff"} : Goto(h, at)
  BY DEF Probe
<1>4. ASSUME Grows PROVE HandlersOwn' /\ RetryWaits'
  BY <1>1, <1>3, <1>4, GotoOwn DEF Steps
<1> QED
  BY <1>1, <1>2, <1>4, OnlyMoves

LEMMA StepForget == ASSUME IInv, NEW h \in Handlers, Forget(h) PROVE IInv'
<1>1. /\ WritePin(App(h), NoCopy) /\ Goto(h, "auditGone") /\ ~At(h, "idle") /\ enabled' = enabled
      /\ recorded' = recorded /\ last' = last /\ op' = op /\ UNCHANGED hosting /\ pass' = pass
  BY DEF Forget, At
<1>2. ASSUME Grows PROVE HandlersOwn' /\ RetryWaits'
  BY <1>1, <1>2, GotoOwn DEF Steps
<1> QED
  BY <1>1, <1>2, RecordedOwn, Pins

LEMMA StepAuditGone == ASSUME IInv, NEW h \in Handlers, AuditGone(h) PROVE IInv'
<1>1. Audit(h, NoCopy, "off") /\ ~At(h, "idle")
  BY DEF AuditGone, At
<1> QED
  BY <1>1, RecordedOwn, AuditOwn

LEMMA StepAuditOff == ASSUME IInv, NEW h \in Handlers, AuditOff(h) PROVE IInv'
<1>1. PICK newest \in {recorded[App(h)], NoCopy}, said \in {"off", "asked"} : Audit(h, newest, said)
  BY DEF AuditOff
<1>2. ~At(h, "idle")
  BY DEF AuditOff, At
<1> QED
  BY <1>1, <1>2, RecordedOwn, AuditOwn

-----------------------------------------------------------------------------
(* One change per app at a time *)

LEMMA BlankTyped == Blank \in HandlerType /\ Blank.copy = NoCopy /\ Blank.at = "idle"
<1> DEFINE first == CHOOSE a \in Apps : TRUE
<1>1. first \in Apps
  BY StagingAssumption
<1> HIDE DEF first
<1>2. Blank = [at |-> "idle", app |-> first, kind |-> "burn", on |-> FALSE, copy |-> NoCopy, removed |-> FALSE]
  BY DEF Blank, first
<1>3. "idle" \in Steps
  BY DEF Steps
<1> QED
  BY <1>1, <1>2, <1>3, Numbers DEF HandlerType

LEMMA EndTyped ==
    ASSUME NEW at \in Steps
    PROVE  LET x == [Blank EXCEPT !.at = at] IN x \in HandlerType /\ x.copy = NoCopy /\ x.at = at
  BY BlankTyped DEF HandlerType

LEMMA NoCopyFits ==
    ASSUME NEW all, NEW x, x.copy = NoCopy, x.at \notin {"pin", "remove", "destroy"}
    PROVE  Fits(all, x)
  BY DEF Fits, Own

\* Taking the lock of an app changes nothing but the handler and the lock.
LEMMA LockOwn ==
    ASSUME IInv, Grows, NEW h \in Handlers, NEW a \in Apps, NEW kind \in Kinds \union {"burn"}, Lock(h, a, kind),
           h = Retry => pass.at = "posting", pass' = pass
    PROVE  OpTyped' /\ HandlersOwn' /\ RetryWaits' /\ overran' \in BOOLEAN
<1> DEFINE at == Started(kind)
           x == [Blank EXCEPT !.at = at, !.app = a, !.kind = kind]
<1>1. handler' = [handler EXCEPT ![h] = x] /\ op' = [op EXCEPT ![a] = h]
  BY DEF Lock
<1>2. at \in Steps \ {"idle", "pin", "remove", "destroy"}
  BY DEF Started, Steps
<1> HIDE DEF at
<1>3. x \in HandlerType /\ x.copy = NoCopy /\ x.at = at
  BY <1>2, BlankTyped DEF HandlerType
<1> HIDE DEF x
<1>4. Fits(copy', x)
  BY <1>2, <1>3, NoCopyFits
<1>5. HandlersOwn' /\ handler'[h] = x /\ \A g \in Handlers \ {h} : handler'[g] = handler[g]
  BY <1>1, <1>3, <1>4, HandlerMoves
<1>6. RetryWaits'
  BY <1>5, Numbers DEF IInv, RetryWaits
<1>7. OpTyped'
  BY <1>1 DEF IInv, OpTyped
<1>8. overran' \in BOOLEAN
  <2> DEFINE others == \E g \in Handlers \ {h} : ~Dead(g) /\ App(g) = a /\ ~At(g, "retake")
  <2>1. overran' = (overran \/ others)
    BY DEF Lock
  <2> HIDE DEF others
  <2> QED
    BY <2>1 DEF IInv, HistoryTyped
<1> QED
  BY <1>5, <1>6, <1>7, <1>8

LEMMA GiveUpOwn ==
    ASSUME IInv, Grows, NEW h \in Handlers, NEW a \in Apps, NEW kind \in Kinds \union {"burn"}, GiveUp(h, a, kind),
           At(h, "idle"), h = Retry => pass.at = "posting", pass' = pass
    PROVE  OpTyped' /\ HandlersOwn' /\ RetryWaits' /\ overran' \in BOOLEAN /\ faults' \in 0..MaxFaults
<1> DEFINE x == [handler[h] EXCEPT !.at = "retake", !.app = a, !.kind = kind]
<1>1. handler' = [handler EXCEPT ![h] = x] /\ op' = [op EXCEPT ![a] = Nobody] /\ overran' = overran
  BY DEF GiveUp
<1>2. handler[h] \in HandlerType /\ handler[h].copy = NoCopy
  BY HandlerTyped DEF Fits, At
<1>3. x \in HandlerType /\ x.copy = NoCopy /\ x.at = "retake"
  BY <1>2 DEF HandlerType, Steps
<1> HIDE DEF x
<1>4. Fits(copy', x)
  BY <1>3, NoCopyFits
<1>5. HandlersOwn' /\ handler'[h] = x /\ \A g \in Handlers \ {h} : handler'[g] = handler[g]
  BY <1>1, <1>3, <1>4, HandlerMoves
<1>6. RetryWaits'
  BY <1>5, Numbers DEF IInv, RetryWaits
<1>7. OpTyped'
  BY <1>1 DEF IInv, OpTyped
<1>8. faults' \in 0..MaxFaults
  BY StagingAssumption DEF GiveUp, IInv, HistoryTyped
<1> QED
  BY <1>1, <1>5, <1>6, <1>7, <1>8 DEF IInv, HistoryTyped

\* A step on the lock and the handlers.
LEMMA Locks ==
    ASSUME IInv, Grows => OpTyped' /\ HandlersOwn' /\ RetryWaits' /\ PassOwn', overran' \in BOOLEAN, faults' \in 0..MaxFaults,
           UNCHANGED records, UNCHANGED hosting, misread' = misread
    PROVE  IInv'
<1>1. copy' = copy /\ lost' = lost /\ lost \subseteq Copies
  BY DEF hosting, IInv, HostingTyped
<1>2. Grows
  BY <1>1, CopiesSame
<1>3. enabled' = enabled /\ pin' = pin /\ recorded' = recorded /\ last' = last
  BY DEF records
<1>4. HistoryTyped'
  BY DEF IInv, HistoryTyped
<1> QED
  BY <1>2, <1>3, <1>4, RecordsSame DEF IInv, Grows

LEMMA StepClick ==
    ASSUME IInv, NEW q \in Requests, NEW a \in Apps, NEW kind \in Kinds, Click(q, a, kind)
    PROVE  IInv'
<1>1. /\ UNCHANGED records /\ UNCHANGED hosting /\ pass' = pass /\ misread' = misread /\ At(q, "idle")
      /\ (Lock(q, a, kind) /\ faults' = faults) \/ GiveUp(q, a, kind)
  BY DEF Click
<1>2. q \in Handlers /\ q # Retry
  BY Numbers
<1>3. (Lock(q, a, kind) => overran' \in BOOLEAN) /\ (GiveUp(q, a, kind) => overran' \in BOOLEAN /\ faults' \in 0..MaxFaults)
  <2>1. Grows
    BY <1>1, CopiesSame DEF hosting, IInv, HostingTyped
  <2> QED
    BY <1>1, <1>2, <2>1, LockOwn, GiveUpOwn
<1>4. ASSUME Grows PROVE OpTyped' /\ HandlersOwn' /\ RetryWaits' /\ PassOwn'
  BY <1>1, <1>2, <1>4, LockOwn, GiveUpOwn, PassSame
<1> QED
  BY <1>1, <1>3, <1>4, Locks DEF IInv, HistoryTyped

\* A handler that ends; the pass goes on when it was its own.
LEMMA Ends ==
    ASSUME IInv, Grows, NEW h \in Handlers, NEW at \in {"done", "crashed"}, End(h, at),
           h # Retry => pass' = pass
    PROVE  HandlersOwn' /\ RetryWaits'
<1> DEFINE left == IF h = Retry THEN "idle" ELSE at
           x == [Blank EXCEPT !.at = left]
<1>1. handler' = [handler EXCEPT ![h] = x]
  BY DEF End
<1>2. left \in Steps \ {"pin", "remove", "destroy"} /\ (h = Retry => left = "idle")
  BY DEF Steps
<1> HIDE DEF left
<1>3. x \in HandlerType /\ x.copy = NoCopy /\ x.at = left
  BY <1>2, BlankTyped DEF HandlerType
<1> HIDE DEF x
<1>4. Fits(copy', x)
  BY <1>2, <1>3, NoCopyFits
<1>5. HandlersOwn' /\ handler'[h] = x /\ \A g \in Handlers \ {h} : handler'[g] = handler[g]
  BY <1>1, <1>3, <1>4, HandlerMoves
<1>6. RetryWaits'
  BY <1>2, <1>3, <1>5, Numbers DEF IInv, RetryWaits
<1> QED
  BY <1>5, <1>6

LEMMA CleanedOwn ==
    ASSUME IInv, Grows, NEW h \in Handlers, pass' = Cleaned(h)
    PROVE  PassOwn' /\ (h # Retry => pass' = pass)
<1>1. pass \in PassType
  BY DEF IInv, PassOwn
<1>2. pass' \in PassType /\ pass'.seen = pass.seen /\ pass'.plan = pass.plan
  BY <1>1 DEF Cleaned, PassType
<1> QED
  BY <1>2, PassShrinks DEF Cleaned

LEMMA StepRetake == ASSUME IInv, NEW h \in Handlers, Retake(h) PROVE IInv'
<1>1. UNCHANGED records /\ UNCHANGED hosting /\ misread' = misread /\ ~At(h, "idle")
  BY DEF Retake, At
<1>2. \/ Lock(h, App(h), handler[h].kind) /\ faults' = faults /\ pass' = pass
      \/ Leave(h) /\ op' = op /\ overran' = overran /\ faults' = faults /\ pass' = Cleaned(h)
  BY DEF Retake
<1>3. Grows
  BY <1>1, CopiesSame DEF hosting, IInv, HostingTyped
<1>4. CASE Lock(h, App(h), handler[h].kind) /\ faults' = faults /\ pass' = pass
  <2>1. h = Retry => pass.at = "posting"
    BY <1>1 DEF IInv, RetryWaits, At
  <2>2. OpTyped' /\ HandlersOwn' /\ RetryWaits' /\ overran' \in BOOLEAN
    BY <1>3, <1>4, <2>1, HandlerTyped, LockOwn
  <2> QED
    BY <1>1, <1>3, <1>4, <2>2, PassSame, Locks DEF IInv, HistoryTyped
<1>5. CASE Leave(h) /\ op' = op /\ overran' = overran /\ faults' = faults /\ pass' = Cleaned(h)
  <2>1. HandlersOwn' /\ RetryWaits' /\ PassOwn'
    BY <1>3, <1>5, CleanedOwn, Ends DEF Leave
  <2>2. OpTyped'
    BY <1>5 DEF IInv, OpTyped
  <2> QED
    BY <1>1, <1>5, <2>1, <2>2, Locks DEF IInv, HistoryTyped
<1> QED
  BY <1>2, <1>4, <1>5

LEMMA StepFinish == ASSUME IInv, NEW h \in Handlers, Finish(h) PROVE IInv'
<1>1. /\ UNCHANGED records /\ UNCHANGED hosting /\ faults' = faults /\ overran' = overran /\ misread' = misread
      /\ End(h, "done") /\ pass' = Cleaned(h)
  BY DEF Finish, Leave, history
<1>2. OpTyped'
  BY DEF Finish, IInv, OpTyped
<1>3. Grows
  BY <1>1, CopiesSame DEF hosting, IInv, HostingTyped
<1>4. HandlersOwn' /\ RetryWaits' /\ PassOwn'
  BY <1>1, <1>3, CleanedOwn, Ends
<1> QED
  BY <1>1, <1>2, <1>4, Locks DEF IInv, HistoryTyped

LEMMA StepCrash == ASSUME IInv, NEW h \in Handlers, Crash(h) PROVE IInv'
<1>1. /\ enabled' = enabled /\ pin' = pin /\ recorded' = recorded /\ last' = last /\ op' = op /\ copy' = copy
      /\ End(h, "crashed") /\ Fault
  BY DEF Crash, records
<1>2. lost' \subseteq Copies
  <2>1. lost \subseteq Copies /\ handler[h].copy \in Found
    BY HandlerTyped DEF IInv, HostingTyped
  <2>2. At(h, "pin") => handler[h].copy # NoCopy
    BY HandlerTyped DEF At, Fits
  <2> QED
    BY <2>1, <2>2 DEF Crash, Found
<1>3. Grows
  BY <1>1, <1>2, CopiesSame
<1>4. pass' \in PassType /\ pass'.seen \subseteq pass.seen /\ pass'.plan \subseteq pass.plan /\ (h # Retry => pass' = pass)
  <2>1. pass \in PassType
    BY DEF IInv, PassOwn
  <2> QED
    BY <2>1, LimitTyped DEF Crash, PassType
<1>5. HandlersOwn' /\ RetryWaits' /\ PassOwn'
  BY <1>1, <1>3, <1>4, Ends, PassShrinks
<1> QED
  BY <1>1, <1>3, <1>5, Faults, RecordsSame DEF IInv, Grows, OpTyped

-----------------------------------------------------------------------------
(* The hourly pass and hosting *)

\* A step of the pass alone.
LEMMA PassMoves ==
    ASSUME IInv, Grows => PassOwn', handler[Retry].at # "idle" => pass'.at = "posting",
           UNCHANGED records, op' = op, handler' = handler, UNCHANGED hosting, UNCHANGED history
    PROVE  IInv'
<1>1. copy' = copy /\ lost' = lost /\ faults' = faults /\ overran' = overran /\ misread' = misread
  BY DEF hosting, history
<1>2. Grows
  BY <1>1, CopiesSame DEF IInv, HostingTyped
<1>3. enabled' = enabled /\ pin' = pin /\ recorded' = recorded /\ last' = last
  BY DEF records
<1>4. HandlersOwn'
  BY <1>1 DEF IInv, HandlersOwn
<1> QED
  BY <1>1, <1>2, <1>3, <1>4, RecordsSame DEF IInv, Grows, OpTyped, HistoryTyped, RetryWaits

LEMMA StepListCopies == ASSUME IInv, ListCopies PROVE IInv'
<1>1. /\ UNCHANGED records /\ op' = op /\ handler' = handler /\ UNCHANGED hosting /\ UNCHANGED history
      /\ pass.at = "idle" /\ pass' = [pass EXCEPT !.at = "listed", !.seen = Visible]
  BY DEF ListCopies
<1>2. pass \in PassType /\ Plans(copy, pass)
  BY DEF IInv, PassOwn
<1>3. pass' \in PassType /\ pass'.seen = Visible /\ pass'.plan = pass.plan
  BY <1>1, <1>2, VisibleTyped DEF PassType
<1>4. PassOwn'
  <2>1. copy' = copy
    BY <1>1 DEF hosting
  <2> QED
    BY <1>2, <1>3, <2>1, VisibleTyped DEF PassOwn, Plans
<1> QED
  BY <1>1, <1>4, PassMoves DEF IInv, RetryWaits

LEMMA StepReadRecords == ASSUME IInv, ReadRecords PROVE IInv'
<1> DEFINE plan == Plan(pass.seen)
<1>1. /\ UNCHANGED records /\ op' = op /\ handler' = handler /\ UNCHANGED hosting /\ UNCHANGED history
      /\ pass.at = "listed" /\ pass' = [pass EXCEPT !.at = "applying", !.plan = plan, !.seen = {}]
  BY DEF ReadRecords
<1>2. pass \in PassType /\ pass.seen \in SUBSET Copies /\ \A c \in pass.seen : copy[c].is # "none"
  BY DEF IInv, PassOwn, PassType, Plans
<1>3. ASSUME NEW entry \in plan
      PROVE  /\ entry \in {"clear", "set"} \X Apps \X Copies
             /\ entry[1] = "set" => Own(copy, entry[3], entry[2])
  <2>1. CASE \E a \in Apps : entry = <<"clear", a, pin[a]>> /\ pin[a] # NoCopy
    BY <2>1 DEF IInv, RecordsTyped, Found
  <2>2. CASE \E claim \in Claims(pass.seen) : entry = <<"set", claim[1], claim[2]>>
    <3>1. PICK claim \in Claims(pass.seen) : entry = <<"set", claim[1], claim[2]>>
      BY <2>2
    <3>2. claim \in Apps \X pass.seen
      BY DEF Claims
    <3>3. PICK a \in Apps, c \in pass.seen : claim = <<a, c>>
      BY <3>2
    <3>4. Own(copy, c, a)
      BY <1>2, <3>3, ClaimOwn
    <3>5. entry = <<"set", a, c>> /\ c \in Copies
      BY <1>2, <3>1, <3>3
    <3> QED
      BY <3>4, <3>5
  <2> QED
    BY <1>3, <2>1, <2>2 DEF Plan
<1>4. plan \in SUBSET ({"clear", "set"} \X Apps \X Copies)
  BY <1>3
<1> HIDE DEF plan
<1>5. pass' \in PassType /\ pass'.seen = {} /\ pass'.plan = plan
  BY <1>1, <1>2, <1>4 DEF PassType
<1>6. PassOwn'
  <2>1. copy' = copy
    BY <1>1 DEF hosting
  <2> QED
    BY <1>3, <1>5, <2>1 DEF PassOwn, Plans
<1> QED
  BY <1>1, <1>6, PassMoves DEF IInv, RetryWaits

LEMMA StepApply == ASSUME IInv, NEW entry \in pass.plan, Apply(entry) PROVE IInv'
<1>1. /\ enabled' = enabled /\ recorded' = recorded /\ last' = last /\ op' = op /\ handler' = handler
      /\ UNCHANGED hosting /\ faults' = faults /\ overran' = overran
      /\ pass' = [pass EXCEPT !.plan = @ \ {entry}]
  BY DEF Apply
<1>2. pass \in PassType /\ Plans(copy, pass) /\ entry \in {"clear", "set"} \X Apps \X Copies
  BY DEF IInv, PassOwn, PassType
<1>3. entry[2] \in Apps /\ entry[3] \in Found /\ (entry[1] = "set" => Own(copy, entry[3], entry[2]))
  BY <1>2, Numbers DEF Plans
<1>4. copy' = copy /\ lost' = lost
  BY <1>1 DEF hosting
<1>5. Grows
  BY <1>4, CopiesSame DEF IInv, HostingTyped
<1>6. pin \in [Apps -> Found]
  BY DEF IInv, RecordsTyped
<1>7. \/ pin' = [pin EXCEPT ![entry[2]] = entry[3]] /\ entry[1] = "set"
      \/ pin' = [pin EXCEPT ![entry[2]] = NoCopy]
      \/ pin' = pin
  BY <1>6 DEF Apply
<1>8. RecordsTyped' /\ RecordsOwn'
  <2>1. CASE pin' = [pin EXCEPT ![entry[2]] = entry[3]] /\ entry[1] = "set"
    BY <1>1, <1>3, <1>5, <2>1, PinOwn
  <2>2. CASE pin' = [pin EXCEPT ![entry[2]] = NoCopy] \/ pin' = pin
    <3>1. Own(copy, NoCopy, entry[2]) /\ NoCopy \in Found
      BY Numbers DEF Own
    <3> QED
      BY <1>1, <1>3, <1>5, <2>2, <3>1, PinOwn
  <2> QED
    BY <1>7, <2>1, <2>2
<1>9. PassOwn' /\ pass'.at = pass.at
  <2>1. pass' \in PassType /\ pass'.seen = pass.seen /\ pass'.plan \subseteq pass.plan /\ pass'.at = pass.at
    BY <1>1, <1>2 DEF PassType
  <2> QED
    BY <1>5, <2>1, PassShrinks
<1>10. misread' \in BOOLEAN
  <2> DEFINE wrong == pin[entry[2]] \in Visible /\ pin'[entry[2]] # pin[entry[2]]
  <2>1. misread' = (misread \/ wrong)
    BY DEF Apply
  <2> HIDE DEF wrong
  <2> QED
    BY <2>1 DEF IInv, HistoryTyped
<1> QED
  BY <1>1, <1>4, <1>5, <1>8, <1>9, <1>10 DEF IInv, Grows, OpTyped, HistoryTyped, HandlersOwn, RetryWaits

LEMMA StepListCleanups == ASSUME IInv, ListCleanups PROVE IInv'
<1>1. /\ UNCHANGED records /\ op' = op /\ handler' = handler /\ UNCHANGED hosting /\ UNCHANGED history
      /\ pass.at = "applying"
  BY DEF ListCleanups
<1>2. PICK some \in SUBSET Apps : pass' = [pass EXCEPT !.at = "cleaning", !.todo = some, !.tried = 0]
  BY DEF ListCleanups
<1>3. pass' \in PassType /\ pass'.seen = pass.seen /\ pass'.plan = pass.plan
  BY <1>2, LimitTyped DEF PassType, IInv, PassOwn
<1> QED
  BY <1>1, <1>3, PassShrinks, PassMoves DEF IInv, RetryWaits

LEMMA StepEndPass == ASSUME IInv, EndPass PROVE IInv'
<1>1. /\ UNCHANGED records /\ op' = op /\ handler' = handler /\ UNCHANGED hosting /\ UNCHANGED history
      /\ pass.at = "cleaning" /\ pass' = [pass EXCEPT !.at = "idle", !.todo = {}, !.tried = 0]
  BY DEF EndPass
<1>2. pass' \in PassType /\ pass'.seen = pass.seen /\ pass'.plan = pass.plan
  BY <1>1, LimitTyped DEF PassType, IInv, PassOwn
<1> QED
  BY <1>1, <1>2, PassShrinks, PassMoves DEF IInv, RetryWaits

LEMMA StepCheckCleanup == ASSUME IInv, NEW a \in Apps, CheckCleanup(a) PROVE IInv'
<1>1. /\ UNCHANGED records /\ op' = op /\ UNCHANGED hosting /\ UNCHANGED history /\ pass.at = "cleaning"
  BY DEF CheckCleanup
<1>2. copy' = copy /\ lost' = lost /\ faults' = faults /\ overran' = overran /\ misread' = misread
      /\ enabled' = enabled /\ pin' = pin /\ recorded' = recorded /\ last' = last
  BY <1>1 DEF hosting, history, records
<1>3. Grows
  BY <1>2, CopiesSame DEF IInv, HostingTyped
<1>4. pass' \in PassType /\ pass'.seen = pass.seen /\ pass'.plan = pass.plan
  <2>1. pass \in PassType
    BY DEF IInv, PassOwn
  <2>2. \/ pass' = [pass EXCEPT !.at = "posting", !.tried = @ + 1]
        \/ pass' = [pass EXCEPT !.todo = @ \ {a}]
    BY DEF CheckCleanup
  <2>3. pass.tried \in 0..Limit /\ pass.tried < Limit
    BY <2>1 DEF CheckCleanup, PassType
  <2> QED
    BY <2>1, <2>2, <2>3, LimitTyped DEF PassType
<1>5. PassOwn'
  BY <1>3, <1>4, PassShrinks
<1>6. handler[Retry].at = "idle" /\ handler[Retry].copy = NoCopy /\ handler[Retry] \in HandlerType
  BY <1>1, Numbers, HandlerTyped DEF IInv, RetryWaits, Fits
<1>7. PICK b \in Apps : handler' = [handler EXCEPT ![Retry].app = b]
  <2>1. handler[Retry].app \in Apps
    BY <1>6 DEF HandlerType
  <2> QED
    BY <2>1 DEF CheckCleanup
<1>8. HandlersOwn' /\ handler'[Retry].at = "idle"
  <2> DEFINE x == [handler[Retry] EXCEPT !.app = b]
  <2>1. x \in HandlerType /\ x.at = "idle" /\ x.copy = NoCopy
    BY <1>6 DEF HandlerType
  <2>2. handler' = [handler EXCEPT ![Retry] = x]
    <3>1. handler \in [Handlers -> HandlerType]
      BY DEF IInv, HandlersOwn
    <3> QED
      BY <1>7, <3>1 DEF HandlerType
  <2> HIDE DEF x
  <2>3. Fits(copy', x)
    BY <2>1, NoCopyFits
  <2> QED
    BY <1>3, <2>1, <2>2, <2>3, Numbers, HandlerMoves
<1> QED
  BY <1>1, <1>2, <1>3, <1>5, <1>8, RecordsSame DEF IInv, Grows, OpTyped, HistoryTyped, RetryWaits

LEMMA StepPostCleanup == ASSUME IInv, PostCleanup PROVE IInv'
<1>1. /\ UNCHANGED records /\ UNCHANGED hosting /\ misread' = misread /\ pass.at = "posting" /\ At(Retry, "idle")
  BY DEF PostCleanup
<1>2. \/ Lock(Retry, App(Retry), "burn") /\ faults' = faults /\ pass' = pass
      \/ GiveUp(Retry, App(Retry), "burn") /\ pass' = pass
      \/ pass' = Cleaned(Retry) /\ op' = op /\ handler' = handler /\ faults' = faults /\ overran' = overran
  BY DEF PostCleanup
<1>3. Grows
  BY <1>1, CopiesSame DEF hosting, IInv, HostingTyped
<1>4. Retry \in Handlers /\ App(Retry) \in Apps
  BY Numbers, HandlerTyped
<1>5. CASE Lock(Retry, App(Retry), "burn") /\ faults' = faults /\ pass' = pass
  <2>1. OpTyped' /\ HandlersOwn' /\ RetryWaits' /\ overran' \in BOOLEAN
    BY <1>1, <1>3, <1>4, <1>5, LockOwn
  <2> QED
    BY <1>1, <1>3, <1>5, <2>1, PassSame, Locks DEF IInv, HistoryTyped
<1>6. CASE GiveUp(Retry, App(Retry), "burn") /\ pass' = pass
  <2>1. OpTyped' /\ HandlersOwn' /\ RetryWaits' /\ overran' \in BOOLEAN /\ faults' \in 0..MaxFaults
    BY <1>1, <1>3, <1>4, <1>6, GiveUpOwn
  <2> QED
    BY <1>1, <1>3, <1>6, <2>1, PassSame, Locks
<1>7. CASE pass' = Cleaned(Retry) /\ op' = op /\ handler' = handler /\ faults' = faults /\ overran' = overran
  <2>1. PassOwn'
    BY <1>3, <1>4, <1>7, CleanedOwn
  <2>2. copy' = copy
    BY <1>1 DEF hosting
  <2>3. OpTyped' /\ HandlersOwn' /\ RetryWaits'
    BY <1>1, <1>7, <2>2 DEF IInv, OpTyped, HandlersOwn, RetryWaits, At
  <2> QED
    BY <1>1, <1>7, <2>1, <2>3, Locks DEF IInv, HistoryTyped
<1> QED
  BY <1>2, <1>5, <1>6, <1>7

LEMMA StepVanish == ASSUME IInv, NEW c \in Copies, Vanish(c) PROVE IInv'
<1>1. /\ UNCHANGED records /\ op' = op /\ handler' = handler /\ pass' = pass /\ UNCHANGED history
      /\ copy' = [copy EXCEPT ![c].is = "gone"] /\ lost' = lost
  BY DEF Vanish
<1>2. Grows
  <2>1. copy \in [Copies -> CopyType] /\ lost \subseteq Copies
    BY DEF IInv, HostingTyped
  <2>2. copy' \in [Copies -> CopyType]
    BY <1>1, <2>1 DEF CopyType
  <2>3. \A d \in Copies : /\ copy'[d].of = copy[d].of /\ copy'[d].name = copy[d].name
                          /\ copy[d].is # "none" => copy'[d].is # "none"
    BY <1>1, <2>1 DEF CopyType
  <2> QED
    BY <1>1, <2>1, <2>2, <2>3 DEF Grows, HostingTyped
<1>3. HandlersOwn'
  <2>1. \A h \in Handlers : Fits(copy, handler[h]) => Fits(copy', handler[h])
    <3> TAKE h \in Handlers
    <3>1. handler[h].copy \in Found /\ handler[h].app \in Apps
      BY HandlerTyped DEF App
    <3> QED
      BY <1>2, <3>1, OwnStays DEF Fits
  <2> QED
    BY <1>1, <2>1 DEF IInv, HandlersOwn
<1>4. /\ enabled' = enabled /\ pin' = pin /\ recorded' = recorded /\ last' = last
      /\ faults' = faults /\ overran' = overran /\ misread' = misread
  BY <1>1 DEF records, history
<1> QED
  BY <1>1, <1>2, <1>3, <1>4, RecordsSame, PassSame DEF IInv, Grows, OpTyped, HistoryTyped, RetryWaits

-----------------------------------------------------------------------------
(* The theorems *)

LEMMA StepTurnOn == ASSUME IInv, NEW h \in Handlers, TurnOn(h) PROVE IInv'
  BY StepReadEvidence, StepRecordClaim, StepFirstLook, StepResidueClears, StepResidueStays, StepRemoveResidue,
     StepEnable, StepLookForCopy, StepAttach, StepCheckAgain, StepCreate, StepRefused, StepPinCreated,
     StepLookAgain, StepAuditOn DEF TurnOn

LEMMA StepTurnOff == ASSUME IInv, NEW h \in Handlers, TurnOff(h) PROVE IInv'
  BY StepDisable, StepFind, StepDestroy, StepProbe, StepForget, StepAuditGone, StepAuditOff DEF TurnOff

LEMMA StepHourly == ASSUME IInv, Hourly PROVE IInv'
  BY StepListCopies, StepReadRecords, StepListCleanups, StepPostCleanup, StepEndPass, StepApply, StepCheckCleanup
  DEF Hourly

LEMMA InvInit == Init => IInv
<1> SUFFICES ASSUME Init PROVE IInv
  OBVIOUS
<1> DEFINE first == CHOOSE a \in Apps : TRUE
<1>1. first \in Apps
  BY StagingAssumption
<1>2. copy = [c \in Copies |-> [is |-> "none", of |-> first, name |-> [same |-> {}, near |-> {}]]]
      /\ lost = {}
  BY DEF Init
<1> HIDE DEF first
<1>3. HostingTyped
  BY <1>1, <1>2 DEF HostingTyped, CopyType
<1>4. HandlersOwn
  <2>1. handler = [h \in Handlers |-> Blank] /\ Blank \in HandlerType /\ Fits(copy, Blank)
    BY BlankTyped, NoCopyFits DEF Init
  <2> HIDE DEF Blank
  <2> QED
    BY <2>1 DEF HandlersOwn
<1>5. /\ pin = [a \in Apps |-> NoCopy] /\ recorded = [a \in Apps |-> NoCopy] /\ NoCopy \in Found
      /\ enabled = [a \in Apps |-> FALSE] /\ last = [a \in Apps |-> "none"] /\ op = [a \in Apps |-> Nobody]
  BY Numbers DEF Init
<1>6. RecordsTyped /\ RecordsOwn /\ OpTyped
  BY <1>5 DEF RecordsTyped, RecordsOwn, Own, OpTyped
<1>7. PassOwn
  BY LimitTyped DEF Init, PassOwn, PassType, Plans
<1>8. HistoryTyped
  <2>1. MaxFaults \in Nat /\ faults = 0 /\ overran = FALSE /\ misread = FALSE
    BY StagingAssumption DEF Init
  <2>2. faults \in 0..MaxFaults
    BY <2>1
  <2>3. overran \in BOOLEAN /\ misread \in BOOLEAN
    BY <2>1, Zenon
  <2> QED
    BY <2>2, <2>3 DEF HistoryTyped
<1>9. RetryWaits
  <2>1. handler = [h \in Handlers |-> Blank]
    BY DEF Init
  <2> HIDE DEF Blank
  <2> QED
    BY <2>1, Numbers, BlankTyped DEF RetryWaits
<1> QED
  BY <1>3, <1>4, <1>6, <1>7, <1>8, <1>9 DEF IInv

LEMMA InvNext == IInv /\ [Next]_vars => IInv'
<1> SUFFICES ASSUME IInv, [Next]_vars PROVE IInv'
  OBVIOUS
<1>1. CASE \E q \in Requests, a \in Apps, kind \in Kinds : Click(q, a, kind)
  BY <1>1, StepClick
<1>2. CASE \E h \in Handlers : Work(h) \/ Crash(h)
  BY <1>2, StepTurnOn, StepTurnOff, StepRetake, StepFinish, StepCrash DEF Work
<1>3. CASE Hourly
  BY <1>3, StepHourly
<1>4. CASE \E c \in Copies : Vanish(c)
  BY <1>4, StepVanish
<1>5. CASE UNCHANGED vars
  <2>1. UNCHANGED records /\ op' = op /\ handler' = handler /\ UNCHANGED hosting /\ pass' = pass /\ UNCHANGED history
    BY <1>5 DEF vars
  <2>2. Grows => PassOwn'
    BY <2>1, PassSame
  <2> QED
    BY <2>1, <2>2, PassMoves DEF IInv, RetryWaits
<1> QED
  BY <1>1, <1>2, <1>3, <1>4, <1>5 DEF Next

LEMMA Inductive == Spec => []IInv
  BY InvInit, InvNext, PTL DEF Spec

\* Every variable has its type.
THEOREM TypeCorrect == Spec => []TypeOK
  BY Inductive, InvTypes, PTL

\* No app is ever given a copy that was neither made for it nor bears its very name: not from a record that changed
\* meanwhile, not by the pass, not after a lost answer, a failed read, a crash or two changes side by side.
THEOREM NeverAnothers == Spec => []OwnCopies
<1>1. IInv => OwnCopies
  BY DEF IInv, RecordsOwn, Own, OwnCopies, Belongs
<1> QED
  BY <1>1, Inductive, PTL

\* Only the two steps that ask hosting for it make a live copy go.
LEMMA WhoRemoves ==
    ASSUME IInv, [Next]_vars, NEW c \in Copies, copy[c].is = "live", copy'[c].is = "going"
    PROVE  \E h \in Handlers : RemoveResidue(h) \/ Destroy(h)
<1>0. copy \in [Copies -> CopyType] /\ copy' # copy
  BY DEF IInv, HostingTyped
<1>1. CASE \E q \in Requests, a \in Apps, kind \in Kinds : Click(q, a, kind)
  BY <1>0, <1>1 DEF Click, hosting
<1>2. CASE \E h \in Handlers : Work(h) \/ Crash(h)
  <2>1. PICK h \in Handlers : Work(h) \/ Crash(h)
    BY <1>2
  <2>2. CASE RemoveResidue(h) \/ Destroy(h)
    BY <2>2
  <2>3. CASE Create(h)
    <3>1. PICK name \in Names[App(h)] : copy' = [copy EXCEPT ![NextCopy] = [is |-> "live", of |-> App(h), name |-> name]]
      BY <2>3 DEF Create
    <3> HIDE DEF NextCopy
    <3>2. copy'[c] = copy[c] \/ copy'[c].is = "live"
      BY <1>0, <3>1
    <3> QED
      BY <3>2
  <2>4. ASSUME ~(RemoveResidue(h) \/ Destroy(h)), ~Create(h) PROVE copy' = copy
    <3>1. CASE TurnOn(h)
      BY <2>4, <3>1 DEF TurnOn, ReadEvidence, RecordClaim, FirstLook, ResidueClears, ResidueStays, Enable,
         LookForCopy, Attach, CheckAgain, Refused, PinCreated, LookAgain, AuditOn, Audit, hosting
    <3>2. CASE TurnOff(h)
      BY <2>4, <3>2 DEF TurnOff, Disable, Find, Probe, Forget, AuditGone, AuditOff, Audit, hosting
    <3>3. CASE Retake(h) \/ Finish(h) \/ Crash(h)
      BY <3>3 DEF Retake, Finish, Crash, hosting
    <3> QED
      BY <2>1, <3>1, <3>2, <3>3 DEF Work
  <2> QED
    BY <1>0, <2>2, <2>3, <2>4
<1>3. CASE Hourly
  BY <1>0, <1>3 DEF Hourly, ListCopies, ReadRecords, ListCleanups, PostCleanup, EndPass, Apply, CheckCleanup, hosting
<1>4. CASE \E d \in Copies : Vanish(d)
  <2>1. PICK d \in Copies : copy' = [copy EXCEPT ![d].is = "gone"]
    BY <1>4 DEF Vanish
  <2>2. copy'[c].is \in {copy[c].is, "gone"}
    BY <1>0, <2>1 DEF CopyType
  <2> QED
    BY <2>2
<1>5. CASE UNCHANGED vars
  BY <1>0, <1>5 DEF vars, hosting
<1> QED
  BY <1>1, <1>2, <1>3, <1>4, <1>5 DEF Next

\* A copy is only removed by the change that takes the step, which asks for a removal, and it was made for that
\* change's app or bears its very name: also when the records could not be read, or changed since it looked.
THEOREM NeverByAnother == Spec => RemovedByItsOwn
<1>1. ASSUME IInv, [Next]_vars, NEW c \in Copies, copy[c].is = "live" /\ copy'[c].is = "going"
      PROVE  \E h \in Handlers : /\ Removing(h) /\ handler[h].copy = c /\ handler[h].kind \in {"burn", "replace"}
                                 /\ Belongs(App(h), c)
  <2>1. PICK h \in Handlers : RemoveResidue(h) \/ Destroy(h)
    BY <1>1, WhoRemoves
  <2>2. copy \in [Copies -> CopyType] /\ handler \in [Handlers -> HandlerType]
    BY <1>1 DEF IInv, HostingTyped, HandlersOwn
  <2>3. copy' \in {copy, Vanishing(handler[h].copy)} /\ (At(h, "remove") \/ At(h, "destroy"))
    BY <2>1 DEF RemoveResidue, Destroy, Remove
  <2>4. handler[h].copy = c
    BY <1>1, <2>2, <2>3 DEF Vanishing, CopyType
  <2>5. Removing(h)
    <3>1. PICK at \in {"residue", "finish", "probe"} :
             Goto(h, at) \/ handler' = [handler EXCEPT ![h].at = at, ![h].removed = TRUE]
      BY <2>1 DEF RemoveResidue, Destroy, Remove
    <3>2. handler'[h].at = at
      BY <2>2, <3>1 DEF Goto, HandlerType
    <3> QED
      BY <2>3, <3>2 DEF Removing, At
  <2>6. Belongs(App(h), c) /\ handler[h].kind \in {"burn", "replace"}
    BY <1>1, <2>3, <2>4, HandlerTyped, Numbers DEF Fits, Own, At, Belongs
  <2> QED
    BY <2>4, <2>5, <2>6
<1>2. IInv /\ [Next]_vars =>
        [\A c \in Copies : copy[c].is = "live" /\ copy'[c].is = "going" =>
            \E h \in Handlers : /\ Removing(h) /\ handler[h].copy = c /\ handler[h].kind \in {"burn", "replace"}
                               /\ Belongs(App(h), c)]_vars
  BY <1>1
<1> QED
  BY <1>2, Inductive, PTL DEF Spec, RemovedByItsOwn

-----------------------------------------------------------------------------
(* One copy per app *)

\* The copies of an app that can be seen and that Jongo was told of, while no copy bears the name of another app.
Alive(a) == {c \in Copies \ lost : Apart(a) /\ copy[c].of = a /\ copy[c].is = "live"}

\* One fault at most; no two changes side by side, no record overwritten by the pass.
Quiet == faults =< 1 /\ ~overran /\ ~misread

Busy(h) == ~Dead(h) /\ ~At(h, "retake")
Alone == \A g, h \in Handlers : Busy(g) /\ Busy(h) /\ App(g) = App(h) => g = h

\* The copy is recorded, or the handler that has just created it will record it.
Known(a) ==
    \A c \in Alive(a) :
        \/ pin[a] = c
        \/ \E h \in Handlers : /\ App(h) = a /\ handler[h].copy = c
                               /\ At(h, "pin") \/ (At(h, "provisioned") /\ faults >= 1)

\* The history only grows.
Onwards == faults \in Nat /\ faults' \in Nat /\ faults =< faults' /\ (Quiet' => Quiet)

\* What bears the app's name, before the first fault; a look that cannot read the records then finds no other.
Stray(a) == {c \in NamedFor(a, Visible) : Apart(a) /\ faults = 0}
Unmixed(a) == Alive(a) # {} => Stray(a) \subseteq Alive(a)

\* What a handler has seen of its app's copies still holds at the step it rests on: it records the only one, creates
\* and forgets when there is none; only a look that failed can have been wrong, and that was the fault.
Sight(at, mine, alive, strays, failed) ==
    /\ at = "claim" => mine = NoCopy \/ alive = {}
    /\ at \in {"attach", "destroy", "pin"} => alive \subseteq {mine}
    /\ at = "provisioned" => mine = NoCopy \/ alive \subseteq {mine}
    /\ at \in {"check", "probe"} => alive = {} \/ failed
    /\ at \in {"create", "forget"} => alive = {}
    /\ at \in {"check", "create"} => mine = NoCopy
    /\ at = "create" => strays = {}
Sees(h) == Sight(handler[h].at, handler[h].copy, Alive(App(h)), Stray(App(h)), faults >= 1)
Watched == {"claim", "attach", "destroy", "pin", "provisioned", "check", "probe", "create", "forget"}

OneInv ==
    Quiet => Alone /\ (\A a \in Apps : Known(a)) /\ (\A a \in Apps : Unmixed(a)) /\ (\A h \in Handlers : Sees(h))

LEMMA Unwatched ==
    ASSUME NEW at, NEW mine, NEW alive, NEW strays, NEW failed, at \notin Watched
    PROVE  Sight(at, mine, alive, strays, failed)
  BY DEF Sight, Watched

\* A copy that is added takes no app its own.
LEMMA ApartStays ==
    ASSUME IInv, Grows, NEW a
    PROVE  Apart(a)' => Apart(a)
  BY DEF Apart, Grows

LEMMA HostingSame ==
    ASSUME copy' = copy, lost' = lost, Onwards
    PROVE  \A a \in Apps : Alive(a)' = Alive(a) /\ Stray(a)' \subseteq Stray(a) /\ (Unmixed(a) => Unmixed(a)')
<1>1. \A a \in Apps : Alive(a)' = Alive(a)
  BY DEF Alive, Apart
<1>2. \A a \in Apps : Stray(a)' \subseteq Stray(a)
  BY DEF Stray, NamedFor, Visible, Apart, Onwards
<1> QED
  BY <1>1, <1>2 DEF Unmixed

LEMMA BusyWatched ==
    ASSUME NEW h, handler[h].at \in Watched
    PROVE  Busy(h)
  BY DEF Watched, Busy, Dead, At

LEMMA FaultsOnward ==
    ASSUME IInv, NoFault \/ Fault
    PROVE  Onwards
<1>1. faults \in Nat
  BY StagingAssumption DEF IInv, HistoryTyped
<1> QED
  BY <1>1 DEF NoFault, Fault, history, Onwards, Quiet

LEMMA LookOnward ==
    ASSUME NEW a, NEW found, Look(a, found) \/ LookRelaxed(a, found)
    PROVE  NoFault \/ Fault
  BY DEF Look, LookRelaxed, Answers

\* A handler's step: its own app must be looked at, the other apps are not disturbed.
OthersStay(h, a) ==
    /\ \A g \in Handlers \ {h} : handler'[g] = handler[g]
    /\ \A b \in Apps \ {a} : /\ pin'[b] = pin[b] /\ Alive(b)' \subseteq Alive(b)
                             /\ Stray(b)' \subseteq Stray(b) /\ (Quiet' /\ Unmixed(b) => Unmixed(b)')

LEMMA OwnApp ==
    ASSUME IInv, OneInv, Onwards, NEW h \in Handlers, Busy(h), NEW a \in Apps, a = App(h), OthersStay(h, a),
           handler'[h].app = a \/ handler'[h].at \in {"idle", "done", "crashed"},
           Quiet' => Known(a)' /\ Unmixed(a)' /\ Sees(h)'
    PROVE  OneInv'
<1> SUFFICES ASSUME Quiet'
             PROVE  Alone' /\ (\A b \in Apps : Known(b)') /\ (\A b \in Apps : Unmixed(b)') /\ (\A g \in Handlers : Sees(g)')
  BY DEF OneInv
<1> USE DEF Onwards
<1>1. Quiet /\ Alone /\ (\A b \in Apps : Known(b)) /\ (\A b \in Apps : Unmixed(b)) /\ (\A g \in Handlers : Sees(g))
  BY DEF OneInv
<1>2. \A g \in Handlers \ {h} : /\ handler'[g] = handler[g] /\ App(g)' = App(g) /\ (Busy(g)' <=> Busy(g))
                                /\ App(g) \in Apps
  BY HandlerTyped DEF OthersStay, App, Busy, Dead, At
<1>3. Busy(h)' => App(h)' = App(h)
  BY DEF App, Busy, Dead
<1>4. Alone'
  BY <1>1, <1>2, <1>3 DEF Alone
<1>5. ASSUME NEW b \in Apps, b # a PROVE Known(b)'
  <2> SUFFICES ASSUME NEW c \in Alive(b)',
                      pin'[b] # c
               PROVE  \E g \in Handlers : /\ App(g)' = b /\ handler'[g].copy = c
                                          /\ At(g, "pin")' \/ (At(g, "provisioned")' /\ faults' >= 1)
    BY DEF Known
  <2>1. c \in Alive(b) /\ pin[b] # c
    BY <1>5 DEF OthersStay
  <2>2. PICK g \in Handlers : /\ App(g) = b /\ handler[g].copy = c
                              /\ At(g, "pin") \/ (At(g, "provisioned") /\ faults >= 1)
    BY <1>1, <2>1 DEF Known
  <2>3. g # h
    BY <1>5, <2>2
  <2> QED
    BY <1>2, <2>2, <2>3 DEF At
<1>6. ASSUME NEW g \in Handlers, g # h PROVE Sees(g)'
  <2>1. handler'[g] = handler[g] /\ App(g)' = App(g) /\ App(g) \in Apps
    BY <1>2, <1>6
  <2>2. CASE handler[g].at \notin Watched
    BY <2>1, <2>2, Unwatched DEF Sees
  <2>3. CASE handler[g].at \in Watched
    <3>1. App(g) # App(h)
      BY <1>1, <1>6, <2>3, BusyWatched DEF Alone
    <3>2. Alive(App(g))' \subseteq Alive(App(g)) /\ Stray(App(g))' \subseteq Stray(App(g))
      <4> PICK b \in Apps \ {a} : b = App(g)
        BY <2>1, <3>1
      <4> QED
        BY <2>1 DEF OthersStay
    <3>3. Sight(handler[g].at, handler[g].copy, Alive(App(g)), Stray(App(g)), faults >= 1)
      BY <1>1 DEF Sees
    <3>4. faults >= 1 => faults' >= 1
      OBVIOUS
    <3> QED
      BY <2>1, <3>2, <3>3, <3>4 DEF Sees, Sight
  <2> QED
    BY <2>2, <2>3
<1>7. (\A b \in Apps : Known(b)')
  <2> TAKE b \in Apps
  <2> QED
    BY <1>5, Zenon DEF Known
<1>8. (\A g \in Handlers : Sees(g)')
  <2> TAKE g \in Handlers
  <2> QED
    BY <1>6, Zenon DEF Sees
<1>9. (\A b \in Apps : Unmixed(b)')
  BY <1>1 DEF OthersStay
<1> QED
  BY <1>4, <1>7, <1>8, <1>9

LEMMA GotoIs ==
    ASSUME IInv, NEW h \in Handlers, NEW at, Goto(h, at)
    PROVE  /\ handler'[h].at = at /\ handler'[h].copy = handler[h].copy /\ handler'[h].app = App(h)
           /\ \A g \in Handlers \ {h} : handler'[g] = handler[g]
<1>1. handler \in [Handlers -> HandlerType]
  BY DEF IInv, HandlersOwn
<1> DEFINE x == [handler[h] EXCEPT !.at = at]
<1>2. handler' = [handler EXCEPT ![h] = x]
  BY <1>1 DEF Goto
<1>3. x.at = at /\ x.copy = handler[h].copy /\ x.app = App(h)
  BY <1>1 DEF HandlerType, App
<1> HIDE DEF x
<1> QED
  BY <1>1, <1>2, <1>3

LEMMA GotoWithIs ==
    ASSUME IInv, NEW h \in Handlers, NEW at, NEW c, GotoWith(h, at, c)
    PROVE  /\ handler'[h].at = at /\ handler'[h].copy = c /\ handler'[h].app = App(h)
           /\ \A g \in Handlers \ {h} : handler'[g] = handler[g]
<1>1. handler \in [Handlers -> HandlerType]
  BY DEF IInv, HandlersOwn
<1> DEFINE x == [handler[h] EXCEPT !.at = at, !.copy = c]
<1>2. handler' = [handler EXCEPT ![h] = x]
  BY <1>1 DEF GotoWith
<1>3. x.at = at /\ x.copy = c /\ x.app = App(h)
  BY <1>1 DEF HandlerType, App
<1> HIDE DEF x
<1> QED
  BY <1>1, <1>2, <1>3

\* A handler that has not just created a copy is at an app whose only copy is recorded, and the matches find it.
Settled(h) == Busy(h) /\ ~At(h, "pin") /\ (At(h, "provisioned") => handler[h].copy = NoCopy)

LEMMA Here ==
    ASSUME IInv, OneInv, Quiet, NEW h \in Handlers, Settled(h), NEW a \in Apps, a = App(h)
    PROVE  /\ Alive(a) \subseteq {pin[a]}
           /\ Alive(a) # {} => pin[a] # NoCopy /\ Strict(a) = pin[a] /\ Relaxed(a) = pin[a]
<1>1. Alone /\ Known(a)
  BY DEF OneInv
<1>2. ASSUME NEW c \in Alive(a) PROVE pin[a] = c
  <2> SUFFICES ASSUME NEW g \in Handlers, App(g) = a, handler[g].copy = c, At(g, "pin") \/ At(g, "provisioned")
               PROVE  FALSE
    BY <1>1 DEF Known
  <2>1. Busy(g)
    BY BusyWatched DEF At, Watched
  <2>2. g = h
    BY <1>1, <2>1 DEF Alone, Settled
  <2>3. c # NoCopy
    BY Numbers DEF Alive
  <2> QED
    BY <2>2, <2>3 DEF Settled
<1>3. ASSUME NEW c \in Alive(a) PROVE pin[a] \in Candidates(a) /\ pin[a] # NoCopy
  BY <1>2, Numbers DEF Alive, Candidates, Visible
<1>4. ASSUME NEW c \in Alive(a) PROVE Strict(a) = pin[a] /\ Relaxed(a) = pin[a]
  BY <1>3, <1>4 DEF Strict, Relaxed, PickTarget
<1> QED
  BY <1>2, <1>3, <1>4

\* A step that leaves hosting and the records of copies alone.
LEMMA Moving ==
    ASSUME IInv, OneInv, NEW h \in Handlers, Settled(h), NEW a \in Apps, a = App(h), pin' = pin, copy' = copy, lost' = lost,
           NoFault \/ Fault, handler'[h].app = a, \A g \in Handlers \ {h} : handler'[g] = handler[g],
           Quiet /\ Quiet' => Sight(handler'[h].at, handler'[h].copy, Alive(a), Stray(a)', faults' >= 1)
    PROVE  OneInv'
<1>1. Onwards
  BY FaultsOnward
<1>2. \A b \in Apps : Alive(b)' = Alive(b) /\ Stray(b)' \subseteq Stray(b) /\ (Unmixed(b) => Unmixed(b)')
  BY <1>1, HostingSame
<1>3. ASSUME Quiet' PROVE Known(a)' /\ Unmixed(a)' /\ Sees(h)'
  <2>1. Quiet /\ Unmixed(a)
    BY <1>1, <1>3 DEF Onwards, OneInv
  <2>2. Known(a)'
    BY <1>2, <2>1, Here DEF Known
  <2>3. Sees(h)'
    <3>1. App(h)' = a
      BY DEF App
    <3>2. Alive(App(h))' = Alive(a) /\ Stray(App(h))' = Stray(a)'
      BY <1>2, <3>1
    <3> QED
      BY <1>3, <2>1, <3>2 DEF Sees
  <2> QED
    BY <1>2, <2>1, <2>2, <2>3
<1>4. OthersStay(h, a)
  BY <1>2 DEF OthersStay
<1> QED
  BY <1>1, <1>3, <1>4, OwnApp DEF Settled

LEMMA MovingOn ==
    ASSUME IInv, OneInv, NEW h \in Handlers, Settled(h), pin' = pin, UNCHANGED hosting, NoFault \/ Fault,
           NEW at, at \notin Watched, Goto(h, at) \/ (\E c \in Found : GotoWith(h, at, c))
    PROVE  OneInv'
<1>1. /\ handler'[h].at = at /\ handler'[h].app = App(h) /\ App(h) \in Apps
      /\ \A g \in Handlers \ {h} : handler'[g] = handler[g]
  BY GotoIs, GotoWithIs, HandlerTyped
<1>2. copy' = copy /\ lost' = lost
  BY DEF hosting
<1> QED
  BY <1>1, <1>2, Moving, Unwatched

LEMMA OneReadEvidence == ASSUME IInv, OneInv, NEW h \in Handlers, ReadEvidence(h) PROVE OneInv'
<1> PICK a \in Apps : a = App(h)
  BY HandlerTyped
<1> DEFINE found == {c \in Visible : <<a, c>> \in Claims(Visible)}
           mine == IF pin[a] = NoCopy /\ found # {} THEN Min(found) ELSE NoCopy
<1>1. /\ pin' = pin /\ copy' = copy /\ lost' = lost /\ NoFault /\ At(h, "evidence")
      /\ handler' = [handler EXCEPT ![h].at = "claim", ![h].on = enabled[a], ![h].copy = mine]
  BY DEF ReadEvidence, records, hosting, NoFault
<1>2. mine # NoCopy => pin[a] = NoCopy
  OBVIOUS
<1> HIDE DEF mine
<1>3. /\ handler'[h].at = "claim" /\ handler'[h].copy = mine /\ handler'[h].app = a
      /\ \A g \in Handlers \ {h} : handler'[g] = handler[g]
  <2>1. handler \in [Handlers -> HandlerType]
    BY DEF IInv, HandlersOwn
  <2> QED
    BY <1>1, <2>1 DEF HandlerType, App
<1>4. Settled(h)
  BY <1>1 DEF Settled, Busy, Dead, At
<1>5. a \in Apps
  BY HandlerTyped
<1>6. ASSUME Quiet PROVE Sight("claim", mine, Alive(a), Stray(a)', faults' >= 1)
  <2>1. Alive(a) \subseteq {pin[a]} /\ Alive(a) \subseteq Copies
    BY <1>4, <1>5, <1>6, Here DEF Alive
  <2>2. mine = NoCopy \/ Alive(a) = {}
    BY <1>2, <2>1, Numbers
  <2> QED
    BY <2>2 DEF Sight
<1> QED
  BY <1>1, <1>3, <1>4, <1>5, <1>6, Moving

LEMMA OneFirstLook == ASSUME IInv, OneInv, NEW h \in Handlers, FirstLook(h) PROVE OneInv'
<1>1. pin' = pin /\ UNCHANGED hosting /\ Settled(h)
  BY DEF FirstLook, records, Settled, Busy, Dead, At
<1>2. (NoFault \/ Fault) /\ \E at \in {"enable", "residue"} : Goto(h, at)
  BY DEF FirstLook
<1>3. PICK at \in {"enable", "residue"} : Goto(h, at)
  BY <1>2
<1> QED
  BY <1>1, <1>2, <1>3, MovingOn DEF Watched

LEMMA OneResidueClears == ASSUME IInv, OneInv, NEW h \in Handlers, ResidueClears(h) PROVE OneInv'
<1>1. pin' = pin /\ UNCHANGED hosting /\ Settled(h) /\ Look(App(h), NoCopy) /\ Goto(h, "enable")
  BY DEF ResidueClears, records, Settled, Busy, Dead, At
<1> QED
  BY <1>1, LookOnward, MovingOn DEF Watched

LEMMA OneResidueStays == ASSUME IInv, OneInv, NEW h \in Handlers, ResidueStays(h) PROVE OneInv'
<1>1. pin' = pin /\ UNCHANGED hosting /\ Settled(h)
  BY DEF ResidueStays, records, Settled, Busy, Dead, At
<1>2. PICK found \in Copies : /\ Look(App(h), found)
                              /\ GotoWith(h, "remove", found) \/ Goto(h, "finish")
  BY DEF ResidueStays
<1>3. found \in Found
  BY Numbers
<1> QED
  BY <1>1, <1>2, <1>3, LookOnward, MovingOn DEF Watched

LEMMA OneSwitch ==
    ASSUME IInv, OneInv, NEW h \in Handlers, Settled(h), NEW on, NEW next \in {"current", "find"}, Switch(h, on, next),
           pin' = pin, UNCHANGED hosting
    PROVE  OneInv'
<1>1. NoFault \/ Fault
  BY DEF Switch
<1>2. PICK at \in {"current", "find", "finish"} : Goto(h, at)
  BY DEF Switch
<1> QED
  BY <1>1, <1>2, MovingOn DEF Watched

LEMMA OneEnable == ASSUME IInv, OneInv, NEW h \in Handlers, Enable(h) PROVE OneInv'
<1>1. pin' = pin /\ UNCHANGED hosting /\ Settled(h) /\ Switch(h, TRUE, "current")
  BY DEF Enable, Settled, Busy, Dead, At
<1> QED
  BY <1>1, OneSwitch

LEMMA OneDisable == ASSUME IInv, OneInv, NEW h \in Handlers, Disable(h) PROVE OneInv'
<1>1. pin' = pin /\ UNCHANGED hosting /\ Settled(h) /\ Switch(h, FALSE, "find")
  BY DEF Disable, Settled, Busy, Dead, At
<1> QED
  BY <1>1, OneSwitch

LEMMA OneAudits ==
    ASSUME IInv, OneInv, NEW h \in Handlers, At(h, "auditOn") \/ At(h, "auditGone") \/ At(h, "auditOff"),
           NEW c, NEW said, Audit(h, c, said)
    PROVE  OneInv'
<1>1. pin' = pin /\ UNCHANGED hosting /\ Settled(h) /\ (NoFault \/ Fault) /\ Goto(h, "finish")
  BY DEF Audit, Settled, Busy, Dead, At
<1> QED
  BY <1>1, MovingOn DEF Watched

LEMMA OneAudit ==
    ASSUME IInv, OneInv, NEW h \in Handlers, AuditOn(h) \/ AuditGone(h) \/ AuditOff(h)
    PROVE  OneInv'
  BY OneAudits DEF AuditOn, AuditGone, AuditOff

\* A look that finds nothing is right or was the fault; what a strict one finds is the only copy.
LEMMA LookTells ==
    ASSUME IInv, OneInv, Quiet, NEW h \in Handlers, Settled(h), NEW a \in Apps, a = App(h), NEW found,
           Look(a, found) \/ LookRelaxed(a, found)
    PROVE  /\ found = NoCopy => Alive(a) = {} \/ (faults' >= 1 /\ (Quiet' => faults = 0))
           /\ Quiet' /\ found # NoCopy /\ Look(a, found) => Alive(a) \subseteq {found}
<1>1. Alive(a) \subseteq {pin[a]} /\ (Alive(a) # {} => pin[a] # NoCopy /\ Strict(a) = pin[a] /\ Relaxed(a) = pin[a])
  BY Here
<1>2. Fault => faults' >= 1 /\ (Quiet' => faults = 0)
  <2>1. faults \in Nat
    BY StagingAssumption DEF IInv, HistoryTyped
  <2> QED
    BY <2>1 DEF Fault, Quiet
<1>3. found = NoCopy => Alive(a) = {} \/ (faults' >= 1 /\ (Quiet' => faults = 0))
  BY <1>1, <1>2 DEF Look, LookRelaxed, Answers
<1>4. ASSUME Quiet', found # NoCopy, Look(a, found), Alive(a) # {} PROVE found = pin[a]
  <2> DEFINE named == NamedFor(a, Visible)
  <2>1. found = pin[a] \/ (found = PickTarget(NoCopy, Visible, named) /\ Fault)
    BY <1>1, <1>4 DEF Look, Answers
  <2>2. ASSUME found = PickTarget(NoCopy, Visible, named), Fault PROVE found \in Stray(a)
    <3>1. named \in SUBSET Copies /\ NoCopy \notin Visible
      BY Numbers DEF NamedFor, Visible
    <3>2. found \in named
      BY <1>4, <2>2, <3>1, Smallest DEF PickTarget
    <3>3. Apart(a) /\ faults = 0
      BY <1>2, <1>4, <2>2 DEF Alive
    <3> QED
      BY <3>2, <3>3 DEF Stray
  <2>3. Stray(a) \subseteq Alive(a)
    BY <1>4 DEF OneInv, Unmixed
  <2> QED
    BY <1>1, <2>1, <2>2, <2>3
<1> QED
  BY <1>1, <1>3, <1>4

\* When the strict match finds nothing, nothing bears the name of an app that is apart.
LEMMA NothingStray ==
    ASSUME IInv, NEW a \in Apps, Strict(a) = NoCopy
    PROVE  Stray(a) = {}
<1> SUFFICES ASSUME NEW d \in Stray(a) PROVE FALSE
  OBVIOUS
<1>1. d \in Visible /\ d \in Copies /\ a \in copy[d].name.same /\ Apart(a) /\ copy[d].is # "none"
  BY DEF Stray, NamedFor, Visible
<1>2. copy[d].of = a /\ copy[d].name.same \subseteq {a}
  BY <1>1 DEF Apart
<1>3. d \in Candidates(a)
  <2> SUFFICES ASSUME NEW b \in Apps \ {a}, d = pin[b] PROVE FALSE
    BY <1>1 DEF Candidates
  <2>1. copy[d].of = b \/ b \in copy[d].name.same
    BY <1>1, Numbers DEF IInv, RecordsOwn, Own
  <2> QED
    BY <1>2, <2>1
<1> DEFINE named == NamedFor(a, Candidates(a))
<1>4. named \in SUBSET Copies /\ named # {} /\ NoCopy \notin Candidates(a)
  BY <1>1, <1>3, Numbers DEF NamedFor, Candidates, Visible
<1>5. Min(named) # NoCopy
  BY <1>4, Smallest, Numbers
<1> HIDE DEF named
<1>6. pin[a] \notin Candidates(a) => Strict(a) = Min(named)
  BY <1>4 DEF Strict, PickTarget, named
<1>7. pin[a] \in Candidates(a) => Strict(a) = pin[a]
  BY DEF Strict, PickTarget
<1> QED
  BY <1>4, <1>5, <1>6, <1>7

LEMMA OneLookForCopy == ASSUME IInv, OneInv, NEW h \in Handlers, LookForCopy(h) PROVE OneInv'
<1> PICK a \in Apps : a = App(h)
  BY HandlerTyped
<1>1. pin' = pin /\ copy' = copy /\ lost' = lost /\ Settled(h) /\ App(h) \in Apps
  BY HandlerTyped DEF LookForCopy, records, hosting, Settled, Busy, Dead, At
<1>2. PICK found \in Found : /\ Look(App(h), found)
                             /\ GotoWith(h, IF found = NoCopy THEN "check" ELSE "attach", found)
  BY DEF LookForCopy
<1>3. /\ handler'[h].at = IF found = NoCopy THEN "check" ELSE "attach"
      /\ handler'[h].copy = found /\ handler'[h].app = App(h)
      /\ \A g \in Handlers \ {h} : handler'[g] = handler[g]
  BY <1>2, GotoWithIs
<1>4. ASSUME Quiet, Quiet' PROVE Sight(handler'[h].at, handler'[h].copy, Alive(a), Stray(a)', faults' >= 1)
  BY <1>1, <1>2, <1>3, <1>4, LookTells DEF Sight
<1> QED
  BY <1>1, <1>2, <1>3, <1>4, LookOnward, Moving

LEMMA OneCheckAgain == ASSUME IInv, OneInv, NEW h \in Handlers, CheckAgain(h) PROVE OneInv'
<1> PICK a \in Apps : a = App(h)
  BY HandlerTyped
<1>1. pin' = pin /\ copy' = copy /\ lost' = lost /\ Settled(h) /\ App(h) \in Apps /\ handler[h].at = "check"
  BY HandlerTyped DEF CheckAgain, records, hosting, Settled, Busy, Dead, At
<1>2. PICK found \in Found : /\ Look(App(h), found)
                             /\ Goto(h, IF found = NoCopy THEN "create" ELSE "provisioned")
  BY DEF CheckAgain
<1>3. /\ handler'[h].at = IF found = NoCopy THEN "create" ELSE "provisioned"
      /\ handler'[h].copy = handler[h].copy /\ handler'[h].app = App(h)
      /\ \A g \in Handlers \ {h} : handler'[g] = handler[g]
  BY <1>2, GotoIs
<1>4. ASSUME Quiet, Quiet' PROVE Sight(handler'[h].at, handler'[h].copy, Alive(a), Stray(a)', faults' >= 1)
  <2>1. handler[h].copy = NoCopy /\ (Alive(a) = {} \/ faults >= 1)
    BY <1>1, <1>4 DEF OneInv, Sees, Sight
  <2>2. found = NoCopy => Alive(a) = {}
    BY <1>1, <1>2, <1>4, <2>1, LookTells
  <2>3. ASSUME found = NoCopy PROVE Stray(a)' = {}
    <3>2. (Fault /\ faults' >= 1) \/ (NoFault /\ Strict(a) = NoCopy)
      BY <1>2, <2>3, StagingAssumption DEF Look, Answers, Fault, IInv, HistoryTyped
    <3>3. CASE faults' >= 1
      BY <3>3 DEF Stray
    <3>4. CASE NoFault /\ Strict(a) = NoCopy
      BY <1>1, <3>4, NothingStray, FaultsOnward, HostingSame
    <3> QED
      BY <3>2, <3>3, <3>4
  <2> QED
    BY <1>3, <2>1, <2>2, <2>3 DEF Sight
<1> QED
  BY <1>1, <1>2, <1>3, <1>4, LookOnward, Moving

LEMMA OneRefused == ASSUME IInv, OneInv, NEW h \in Handlers, Refused(h) PROVE OneInv'
<1> PICK a \in Apps : a = App(h)
  BY HandlerTyped
<1>1. pin' = pin /\ copy' = copy /\ lost' = lost /\ Settled(h) /\ App(h) \in Apps /\ handler[h].at = "create"
      /\ NoFault /\ Goto(h, "provisioned")
  BY HandlerTyped DEF Refused, records, hosting, NoFault, Settled, Busy, Dead, At
<1>2. /\ handler'[h].at = "provisioned" /\ handler'[h].copy = handler[h].copy /\ handler'[h].app = App(h)
      /\ \A g \in Handlers \ {h} : handler'[g] = handler[g]
  BY <1>1, GotoIs
<1>3. ASSUME Quiet PROVE Sight(handler'[h].at, handler'[h].copy, Alive(a), Stray(a)', faults' >= 1)
  BY <1>1, <1>2, <1>3 DEF OneInv, Sees, Sight
<1> QED
  BY <1>1, <1>2, <1>3, Moving

LEMMA OneFind == ASSUME IInv, OneInv, NEW h \in Handlers, Find(h) PROVE OneInv'
<1> PICK a \in Apps : a = App(h)
  BY HandlerTyped
<1>1. pin' = pin /\ copy' = copy /\ lost' = lost /\ Settled(h) /\ App(h) \in Apps
  BY HandlerTyped DEF Find, records, hosting, Settled, Busy, Dead, At
<1>2. PICK found \in Found :
         /\ Look(App(h), found)
         /\ GotoWith(h, IF handler[h].kind = "burn" /\ found # NoCopy THEN "destroy" ELSE "auditOff", found)
  BY DEF Find
<1>3. /\ handler'[h].at \in {"destroy", "auditOff"} /\ (handler'[h].at = "destroy" => found # NoCopy)
      /\ handler'[h].copy = found /\ handler'[h].app = App(h)
      /\ \A g \in Handlers \ {h} : handler'[g] = handler[g]
  BY <1>2, GotoWithIs
<1>4. ASSUME Quiet, Quiet' PROVE Sight(handler'[h].at, handler'[h].copy, Alive(a), Stray(a)', faults' >= 1)
  BY <1>1, <1>2, <1>3, <1>4, LookTells DEF Sight
<1> QED
  BY <1>1, <1>2, <1>3, <1>4, LookOnward, Moving

LEMMA OneProbe == ASSUME IInv, OneInv, NEW h \in Handlers, Probe(h) PROVE OneInv'
<1> PICK a \in Apps : a = App(h)
  BY HandlerTyped
<1>1. pin' = pin /\ copy' = copy /\ lost' = lost /\ Settled(h) /\ App(h) \in Apps /\ handler[h].at = "probe"
  BY HandlerTyped DEF Probe, records, hosting, Settled, Busy, Dead, At
<1>2. PICK found : /\ (found = NoCopy /\ LookRelaxed(App(h), found)) \/ (found # NoCopy /\ (NoFault \/ Fault))
                   /\ Goto(h, IF found = NoCopy THEN "forget" ELSE "auditOff")
  <2>1. CASE \E found \in Found : LookRelaxed(App(h), found) /\ Goto(h, IF found = NoCopy THEN "forget" ELSE "auditOff")
    BY <2>1, LookOnward
  <2>2. CASE Goto(h, "auditOff") /\ Fault
    <3>1. 1 # NoCopy
      BY DEF NoCopy
    <3> QED
      BY <2>2, <3>1
  <2> QED
    BY <2>1, <2>2 DEF Probe
<1>3. /\ handler'[h].at = IF found = NoCopy THEN "forget" ELSE "auditOff"
      /\ handler'[h].app = App(h) /\ \A g \in Handlers \ {h} : handler'[g] = handler[g]
  BY <1>2, GotoIs
<1>4. ASSUME Quiet, Quiet' PROVE Sight(handler'[h].at, handler'[h].copy, Alive(a), Stray(a)', faults' >= 1)
  <2>1. Alive(a) = {} \/ faults >= 1
    BY <1>1, <1>4 DEF OneInv, Sees, Sight
  <2>2. found = NoCopy => Alive(a) = {}
    BY <1>1, <1>2, <1>4, <2>1, LookTells
  <2> QED
    BY <1>3, <2>2 DEF Sight
<1> QED
  BY <1>1, <1>2, <1>3, <1>4, LookOnward, Moving

LEMMA AtMostOne ==
    ASSUME IInv, OneInv, Quiet, NEW a \in Apps
    PROVE  \E c : Alive(a) \subseteq {c}
<1>1. Alone /\ Known(a) /\ \A h \in Handlers : Sees(h)
  BY DEF OneInv
<1>2. CASE \E h \in Handlers : App(h) = a /\ (At(h, "pin") \/ (At(h, "provisioned") /\ handler[h].copy # NoCopy))
  BY <1>1, <1>2 DEF Sees, Sight, At
<1>3. CASE ~(\E h \in Handlers : App(h) = a /\ (At(h, "pin") \/ (At(h, "provisioned") /\ handler[h].copy # NoCopy)))
  <2>1. \A c \in Alive(a) : c # NoCopy
    BY Numbers DEF Alive
  <2>2. Alive(a) \subseteq {pin[a]}
    BY <1>1, <1>3, <2>1 DEF Known
  <2> QED
    BY <2>2
<1> QED
  BY <1>2, <1>3

\* Copies that only go leave fewer.
LEMMA Leaving ==
    ASSUME IInv, OneInv, Onwards, lost' = lost,
           \A d \in Copies : /\ copy'[d].of = copy[d].of /\ copy'[d].name = copy[d].name
                             /\ copy'[d].is = "none" <=> copy[d].is = "none"
                             /\ copy'[d].is = "live" => copy[d].is = "live"
                             /\ copy'[d].is \in {"live", "going"} => copy[d].is \in {"live", "going"}
    PROVE  \A b \in Apps : /\ Alive(b)' \subseteq Alive(b) /\ Stray(b)' \subseteq Stray(b)
                           /\ Quiet' /\ Unmixed(b) => Unmixed(b)'
<1> TAKE b \in Apps
<1>1. Apart(b)' <=> Apart(b)
  BY DEF Apart
<1>2. Alive(b)' \subseteq Alive(b)
  BY <1>1 DEF Alive
<1>3. Stray(b)' \subseteq Stray(b)
  BY <1>1 DEF Stray, NamedFor, Visible, Onwards
<1>4. ASSUME Quiet', Unmixed(b), Alive(b)' # {} PROVE Stray(b)' \subseteq Alive(b)'
  <2>1. PICK c : Alive(b) \subseteq {c}
    BY <1>4, AtMostOne DEF Onwards
  <2> QED
    BY <1>2, <1>3, <1>4, <2>1 DEF Unmixed
<1> QED
  BY <1>2, <1>3, <1>4 DEF Unmixed

LEMMA VanishingShrinks ==
    ASSUME IInv, OneInv, Onwards, NEW c, copy' = Vanishing(c) \/ copy' = copy, lost' = lost
    PROVE  \A b \in Apps : /\ Alive(b)' \subseteq Alive(b) /\ Stray(b)' \subseteq Stray(b)
                           /\ Quiet' /\ Unmixed(b) => Unmixed(b)'
                           /\ copy' = Vanishing(c) => c \notin Alive(b)'
<1>1. copy \in [Copies -> CopyType]
  BY DEF IInv, HostingTyped
<1>2. \A d \in Copies : /\ copy'[d].of = copy[d].of /\ copy'[d].name = copy[d].name
                        /\ copy'[d].is = "none" <=> copy[d].is = "none"
                        /\ copy'[d].is = "live" => copy[d].is = "live"
                        /\ copy'[d].is \in {"live", "going"} => copy[d].is \in {"live", "going"}
                        /\ copy' = Vanishing(c) /\ d = c => copy'[d].is # "live"
  <2>1. CASE copy' = copy
    <3>1. copy' = Vanishing(c) /\ c \in Copies => copy[c].is # "live"
      BY <1>1, <2>1 DEF Vanishing, CopyType
    <3> QED
      BY <2>1, <3>1
  <2>2. CASE copy' = Vanishing(c)
    BY <1>1, <2>2 DEF Vanishing, CopyType
  <2> QED
    BY <2>1, <2>2
<1>3. \A b \in Apps : copy' = Vanishing(c) => c \notin Alive(b)'
  BY <1>2 DEF Alive
<1> QED
  BY <1>2, <1>3, Leaving

LEMMA Shrinking ==
    ASSUME IInv, OneInv, NEW h \in Handlers, Settled(h), NEW a \in Apps, a = App(h), pin' = pin,
           \A b \in Apps : /\ Alive(b)' \subseteq Alive(b) /\ Stray(b)' \subseteq Stray(b)
                           /\ Quiet' /\ Unmixed(b) => Unmixed(b)',
           NoFault \/ Fault, handler'[h].app = a, \A g \in Handlers \ {h} : handler'[g] = handler[g],
           Quiet /\ Quiet' => Sees(h)'
    PROVE  OneInv'
<1>1. Onwards
  BY FaultsOnward
<1>2. ASSUME Quiet' PROVE Known(a)' /\ Unmixed(a)' /\ Sees(h)'
  <2>1. Quiet /\ Unmixed(a)
    BY <1>1, <1>2 DEF Onwards, OneInv
  <2>2. Known(a)'
    BY <2>1, Here DEF Known
  <2> QED
    BY <1>2, <2>1, <2>2
<1>3. OthersStay(h, a)
  BY DEF OthersStay
<1> QED
  BY <1>1, <1>2, <1>3, OwnApp DEF Settled

LEMMA RemovedIs ==
    ASSUME IInv, NEW h \in Handlers, NEW at, handler' = [handler EXCEPT ![h].at = at, ![h].removed = TRUE]
    PROVE  /\ handler'[h].at = at /\ handler'[h].app = App(h)
           /\ \A g \in Handlers \ {h} : handler'[g] = handler[g]
<1>1. handler \in [Handlers -> HandlerType]
  BY DEF IInv, HandlersOwn
<1> QED
  BY <1>1 DEF HandlerType, App

LEMMA OneRemoveResidue == ASSUME IInv, OneInv, NEW h \in Handlers, RemoveResidue(h) PROVE OneInv'
<1>1. pin' = pin /\ lost' = lost /\ Settled(h) /\ App(h) \in Apps
  BY HandlerTyped DEF RemoveResidue, records, Settled, Busy, Dead, At
<1>2. /\ copy' = Vanishing(handler[h].copy) \/ copy' = copy
      /\ NoFault \/ Fault
      /\ Goto(h, "finish") \/ handler' = [handler EXCEPT ![h].at = "residue", ![h].removed = TRUE]
  BY DEF RemoveResidue, Remove
<1>3. /\ handler'[h].at \in {"finish", "residue"} /\ handler'[h].app = App(h)
      /\ \A g \in Handlers \ {h} : handler'[g] = handler[g]
  BY <1>2, GotoIs, RemovedIs
<1>4. \A b \in Apps : /\ Alive(b)' \subseteq Alive(b) /\ Stray(b)' \subseteq Stray(b)
                      /\ Quiet' /\ Unmixed(b) => Unmixed(b)'
  BY <1>1, <1>2, FaultsOnward, VanishingShrinks
<1>5. Sees(h)'
  BY <1>3 DEF Sees, Sight
<1> QED
  BY <1>1, <1>2, <1>3, <1>4, <1>5, Shrinking

LEMMA OneDestroy == ASSUME IInv, OneInv, NEW h \in Handlers, Destroy(h) PROVE OneInv'
<1>1. pin' = pin /\ lost' = lost /\ Settled(h) /\ App(h) \in Apps /\ handler[h].at = "destroy"
  BY HandlerTyped DEF Destroy, records, Settled, Busy, Dead, At
<1>2. \/ copy' = Vanishing(handler[h].copy) /\ NoFault
      \/ copy' \in {copy, Vanishing(handler[h].copy)} /\ Fault
  BY DEF Destroy, Remove
<1>3. handler'[h].at = "probe" /\ handler'[h].app = App(h) /\ \A g \in Handlers \ {h} : handler'[g] = handler[g]
  <2>1. Goto(h, "probe") \/ handler' = [handler EXCEPT ![h].at = "probe", ![h].removed = TRUE]
    BY DEF Destroy, Remove
  <2> QED
    BY <2>1, GotoIs, RemovedIs
<1>4. \A b \in Apps : /\ Alive(b)' \subseteq Alive(b) /\ Stray(b)' \subseteq Stray(b)
                      /\ Quiet' /\ Unmixed(b) => Unmixed(b)'
                      /\ copy' = Vanishing(handler[h].copy) => handler[h].copy \notin Alive(b)'
  BY <1>1, <1>2, FaultsOnward, VanishingShrinks
<1>5. ASSUME Quiet, Quiet' PROVE Sees(h)'
  <2>1. Alive(App(h)) \subseteq {handler[h].copy}
    BY <1>1, <1>5 DEF OneInv, Sees, Sight
  <2>2. App(h)' = App(h)
    BY <1>3 DEF App
  <2>3. CASE copy' = Vanishing(handler[h].copy)
    <3>1. Alive(App(h))' = {}
      BY <1>1, <1>4, <2>1, <2>2, <2>3
    <3> QED
      BY <1>3, <3>1 DEF Sees, Sight
  <2>4. CASE Fault
    <3>1. faults' >= 1
      BY <2>4, StagingAssumption DEF IInv, HistoryTyped, Fault
    <3> QED
      BY <1>3, <3>1 DEF Sees, Sight
  <2> QED
    BY <1>2, <2>3, <2>4
<1> QED
  BY <1>1, <1>2, <1>3, <1>4, <1>5, Shrinking

\* A step that writes the record of the app's copy.
LEMMA Writing ==
    ASSUME IInv, OneInv, NEW h \in Handlers, Busy(h), NEW a \in Apps, a = App(h),
           pin' = pin \/ (\E c \in Found : pin' = [pin EXCEPT ![a] = c]), copy' = copy, lost' = lost,
           NoFault \/ Fault, handler'[h].app = a, \A g \in Handlers \ {h} : handler'[g] = handler[g],
           Quiet /\ Quiet' => Known(a)' /\ Sight(handler'[h].at, handler'[h].copy, Alive(a), Stray(a)', faults' >= 1)
    PROVE  OneInv'
<1>1. Onwards
  BY FaultsOnward
<1>2. \A b \in Apps : Alive(b)' = Alive(b) /\ Stray(b)' \subseteq Stray(b) /\ (Unmixed(b) => Unmixed(b)')
  BY <1>1, HostingSame
<1>3. ASSUME Quiet' PROVE Known(a)' /\ Unmixed(a)' /\ Sees(h)'
  <2>1. Quiet /\ Unmixed(a)
    BY <1>1, <1>3 DEF Onwards, OneInv
  <2>2. Sees(h)'
    <3>1. App(h)' = a
      BY DEF App
    <3>2. Alive(App(h))' = Alive(a) /\ Stray(App(h))' = Stray(a)'
      BY <1>2, <3>1
    <3> QED
      BY <1>3, <2>1, <3>2 DEF Sees
  <2> QED
    BY <1>2, <1>3, <2>1, <2>2
<1>4. OthersStay(h, a)
  <2>1. \A b \in Apps \ {a} : pin'[b] = pin[b]
    BY DEF IInv, RecordsTyped
  <2> QED
    BY <1>2, <2>1 DEF OthersStay
<1> QED
  BY <1>1, <1>3, <1>4, OwnApp

LEMMA WritesKnown ==
    ASSUME IInv, NEW a \in Apps, NEW c, copy' = copy, lost' = lost, pin' = [pin EXCEPT ![a] = c], Alive(a) \subseteq {c}
    PROVE  Known(a)'
  BY DEF Known, Alive, Apart, IInv, RecordsTyped

LEMMA KeepsKnown ==
    ASSUME NEW a \in Apps, copy' = copy, lost' = lost, pin' = pin, Alive(a) \subseteq {pin[a]}
    PROVE  Known(a)'
  BY DEF Known, Alive, Apart

LEMMA OneRecordClaim == ASSUME IInv, OneInv, NEW h \in Handlers, RecordClaim(h) PROVE OneInv'
<1> PICK a \in Apps : a = App(h)
  BY HandlerTyped
<1> DEFINE mine == handler[h].copy
<1>1. copy' = copy /\ lost' = lost /\ Settled(h) /\ a \in Apps /\ handler[h].at = "claim" /\ (NoFault \/ Fault)
  BY HandlerTyped DEF RecordClaim, hosting, Settled, Busy, Dead, At
<1>2. pin' = pin \/ (mine # NoCopy /\ pin' = [pin EXCEPT ![a] = mine])
  BY DEF RecordClaim, IInv, RecordsTyped
<1>3. PICK at \in {"enable", "look"} : GotoWith(h, at, NoCopy)
  BY DEF RecordClaim
<1>4. handler'[h].at = at /\ handler'[h].app = a /\ \A g \in Handlers \ {h} : handler'[g] = handler[g]
  BY <1>3, GotoWithIs
<1>5. ASSUME Quiet PROVE Known(a)' /\ Sight(handler'[h].at, handler'[h].copy, Alive(a), Stray(a)', faults' >= 1)
  <2>1. Alive(a) \subseteq {pin[a]} /\ (mine # NoCopy => Alive(a) = {})
    BY <1>1, <1>5, Here DEF OneInv, Sees, Sight
  <2>2. Known(a)'
    BY <1>1, <1>2, <2>1, WritesKnown, KeepsKnown
  <2> QED
    BY <1>4, <2>2, Unwatched DEF Watched
<1>6. mine \in Found
  BY HandlerTyped
<1> QED
  BY <1>1, <1>2, <1>4, <1>5, <1>6, Writing DEF Settled

LEMMA OneAttach == ASSUME IInv, OneInv, NEW h \in Handlers, Attach(h) PROVE OneInv'
<1> PICK a \in Apps : a = App(h)
  BY HandlerTyped
<1> DEFINE mine == handler[h].copy
<1>1. copy' = copy /\ lost' = lost /\ Settled(h) /\ a \in Apps /\ mine \in Found /\ handler[h].at = "attach"
  BY HandlerTyped DEF Attach, hosting, Settled, Busy, Dead, At
<1>2. (NoFault \/ Fault) /\ (pin' = pin \/ pin' = [pin EXCEPT ![a] = mine]) /\ Goto(h, "auditOn")
  BY DEF Attach, WritePin
<1>3. handler'[h].at = "auditOn" /\ handler'[h].app = a /\ \A g \in Handlers \ {h} : handler'[g] = handler[g]
  BY <1>2, GotoIs
<1>4. ASSUME Quiet PROVE Known(a)' /\ Sight(handler'[h].at, handler'[h].copy, Alive(a), Stray(a)', faults' >= 1)
  <2>1. Alive(a) \subseteq {pin[a]} /\ Alive(a) \subseteq {mine}
    BY <1>1, <1>4, Here DEF OneInv, Sees, Sight
  <2>2. Known(a)'
    BY <1>1, <1>2, <2>1, WritesKnown, KeepsKnown
  <2> QED
    BY <1>3, <2>2, Unwatched DEF Watched
<1> QED
  BY <1>1, <1>2, <1>3, <1>4, Writing DEF Settled

LEMMA OneForget == ASSUME IInv, OneInv, NEW h \in Handlers, Forget(h) PROVE OneInv'
<1> PICK a \in Apps : a = App(h)
  BY HandlerTyped
<1>1. copy' = copy /\ lost' = lost /\ Settled(h) /\ a \in Apps /\ handler[h].at = "forget"
  BY HandlerTyped DEF Forget, hosting, Settled, Busy, Dead, At
<1>2. (NoFault \/ Fault) /\ (pin' = pin \/ pin' = [pin EXCEPT ![a] = NoCopy]) /\ Goto(h, "auditGone")
  BY DEF Forget, WritePin
<1>3. handler'[h].at = "auditGone" /\ handler'[h].app = a /\ \A g \in Handlers \ {h} : handler'[g] = handler[g]
  BY <1>2, GotoIs
<1>4. ASSUME Quiet PROVE Known(a)' /\ Sight(handler'[h].at, handler'[h].copy, Alive(a), Stray(a)', faults' >= 1)
  <2>1. Alive(a) = {}
    BY <1>1, <1>4 DEF OneInv, Sees, Sight
  <2>2. Known(a)'
    BY <1>1, <1>2, <2>1, WritesKnown, KeepsKnown
  <2> QED
    BY <1>3, <2>2, Unwatched DEF Watched
<1> QED
  BY <1>1, <1>2, <1>3, <1>4, Writing, Numbers DEF Settled

\* The first record of a new copy may be lost: it is written again, and that write is not.
LEMMA OnePinCreated == ASSUME IInv, OneInv, NEW h \in Handlers, PinCreated(h) PROVE OneInv'
<1> PICK a \in Apps : a = App(h)
  BY HandlerTyped
<1> DEFINE mine == handler[h].copy
<1>1. copy' = copy /\ lost' = lost /\ Busy(h) /\ a \in Apps /\ mine \in Found /\ handler[h].at = "pin"
  BY HandlerTyped DEF PinCreated, hosting, Busy, Dead, At
<1>2. (pin' = [pin EXCEPT ![a] = mine] /\ NoFault) \/ (pin' = pin /\ Fault)
  BY DEF PinCreated, WritePin
<1>3. /\ handler'[h].at = "provisioned" /\ handler'[h].copy = mine /\ handler'[h].app = a
      /\ \A g \in Handlers \ {h} : handler'[g] = handler[g]
  BY GotoIs DEF PinCreated
<1>4. ASSUME Quiet PROVE Known(a)' /\ Sight(handler'[h].at, handler'[h].copy, Alive(a), Stray(a)', faults' >= 1)
  <2>1. Alive(a) \subseteq {mine}
    BY <1>1, <1>4 DEF OneInv, Sees, Sight
  <2>2. CASE pin' = [pin EXCEPT ![a] = mine]
    BY <1>1, <1>3, <2>1, <2>2, WritesKnown DEF Sight
  <2>3. CASE pin' = pin /\ Fault
    <3>1. faults' >= 1
      BY <2>3, StagingAssumption DEF IInv, HistoryTyped, Fault
    <3>2. App(h)' = a /\ At(h, "provisioned")' /\ handler'[h].copy = mine /\ Alive(a)' \subseteq {mine}
      BY <1>1, <1>3, <2>1 DEF App, At, Alive, Apart
    <3> QED
      BY <1>3, <2>1, <3>1, <3>2 DEF Known, Sight
  <2> QED
    BY <1>2, <2>2, <2>3
<1> QED
  BY <1>1, <1>2, <1>3, <1>4, Writing

LEMMA OneLookAgain == ASSUME IInv, OneInv, NEW h \in Handlers, LookAgain(h) PROVE OneInv'
<1> PICK a \in Apps : a = App(h)
  BY HandlerTyped
<1> DEFINE mine == handler[h].copy
<1>1. copy' = copy /\ lost' = lost /\ UNCHANGED hosting /\ Busy(h) /\ a \in Apps /\ mine \in Found
      /\ handler[h].at = "provisioned"
  BY HandlerTyped DEF LookAgain, hosting, Busy, Dead, At
<1>2. CASE mine = NoCopy
  <2>1. Settled(h)
    BY <1>1, <1>2 DEF Settled, At
  <2>2. PICK found \in Found : Look(a, found) /\ GotoWith(h, "auditOn", found) /\ pin' = pin
    BY <1>2 DEF LookAgain
  <2> QED
    BY <1>1, <2>1, <2>2, LookOnward, MovingOn DEF Watched
<1>3. CASE mine # NoCopy
  <2>1. (pin' = [pin EXCEPT ![a] = mine] /\ (NoFault \/ Fault)) \/ (pin' = pin /\ Fault)
    BY <1>3, LookOnward DEF LookAgain
  <2>2. PICK c : GotoWith(h, "auditOn", c)
    BY <1>3, Zenon DEF LookAgain
  <2>3. handler'[h].at = "auditOn" /\ handler'[h].app = a /\ \A g \in Handlers \ {h} : handler'[g] = handler[g]
    BY <2>2, GotoWithIs
  <2>4. ASSUME Quiet, Quiet' PROVE Known(a)' /\ Sight(handler'[h].at, handler'[h].copy, Alive(a), Stray(a)', faults' >= 1)
    <3>1. Alive(a) \subseteq {mine} /\ Known(a) /\ Alone
      BY <1>1, <1>3, <2>4 DEF OneInv, Sees, Sight
    <3>2. CASE pin' = [pin EXCEPT ![a] = mine]
      BY <1>1, <2>3, <3>1, <3>2, WritesKnown, Unwatched DEF Watched
    <3>3. CASE pin' = pin /\ Fault
      <4>1. faults = 0
        BY <2>4, <3>3, StagingAssumption DEF IInv, HistoryTyped, Fault, Quiet
      <4>2. ASSUME NEW g \in Handlers, App(g) = a, At(g, "pin") PROVE FALSE
        <5>1. Busy(g)
          BY <4>2, BusyWatched DEF At, Watched
        <5> QED
          BY <1>1, <3>1, <4>2, <5>1 DEF Alone, At
      <4>3. Alive(a) \subseteq {pin[a]}
        BY <3>1, <4>1, <4>2 DEF Known
      <4> QED
        BY <1>1, <2>3, <3>3, <4>3, KeepsKnown, Unwatched DEF Watched
    <3> QED
      BY <2>1, <3>2, <3>3
  <2> QED
    BY <1>1, <2>1, <2>3, <2>4, Writing
<1> QED
  BY <1>2, <1>3

LEMMA OneCreate == ASSUME IInv, OneInv, NEW h \in Handlers, Create(h) PROVE OneInv'
<1> PICK a \in Apps : a = App(h)
  BY HandlerTyped
<1> DEFINE new == NextCopy
<1>1. PICK name \in Names[a] : copy' = [copy EXCEPT ![new] = [is |-> "live", of |-> a, name |-> name]]
  BY DEF Create
<1>2. pin' = pin /\ Busy(h) /\ handler[h].at = "create"
  BY DEF Create, records, Busy, Dead, At
<1>3. \/ GotoWith(h, "pin", new) /\ lost' = lost /\ NoFault
      \/ (Goto(h, "create") \/ Goto(h, "provisioned")) /\ lost' = lost \union {new} /\ Fault
  BY DEF Create
<1>4. new \in Copies /\ copy[new].is = "none"
  <2>1. {c \in Copies : copy[c].is = "none"} \in SUBSET Copies /\ {c \in Copies : copy[c].is = "none"} # {}
    BY DEF Create
  <2> QED
    BY <2>1, Smallest DEF NextCopy
<1> HIDE DEF new
<1>5. handler'[h].app = a /\ \A g \in Handlers \ {h} : handler'[g] = handler[g]
  BY <1>3, GotoIs, GotoWithIs
<1>6. copy'[new] = [is |-> "live", of |-> a, name |-> name] /\ \A c \in Copies \ {new} : copy'[c] = copy[c]
  BY <1>1, <1>4 DEF IInv, HostingTyped
<1>7. Onwards
  BY <1>3, FaultsOnward
<1>8. \A b \in Apps : Apart(b)' => Apart(b) /\ (b # a => b \notin name.same)
  BY <1>4, <1>6 DEF Apart
<1>9. \A b \in Apps : /\ Alive(b)' \subseteq Alive(b) \union {new} /\ Stray(b)' \subseteq Stray(b) \union {new}
                      /\ b # a => new \notin Alive(b)' /\ new \notin Stray(b)'
  <2> TAKE b \in Apps
  <2>1. Alive(b)' \subseteq Alive(b) \union {new} /\ (b # a => new \notin Alive(b)')
    BY <1>3, <1>6, <1>8 DEF Alive
  <2>2. Stray(b)' \subseteq Stray(b) \union {new} /\ (b # a => new \notin Stray(b)')
    BY <1>4, <1>6, <1>7, <1>8 DEF Stray, NamedFor, Visible, Onwards
  <2> QED
    BY <2>1, <2>2
<1>10. ASSUME Quiet' PROVE Known(a)' /\ Unmixed(a)' /\ Sees(h)'
  <2>1. handler[h].copy = NoCopy /\ Alive(a) = {} /\ Stray(a) = {}
    BY <1>2, <1>7, <1>10 DEF Onwards, OneInv, Sees, Sight
  <2>2. App(h)' = a
    BY <1>5 DEF App
  <2>3. Alive(a)' \subseteq {new} /\ Stray(a)' \subseteq {new}
    BY <1>9, <2>1
  <2>4. CASE GotoWith(h, "pin", new)
    <3>1. handler'[h].at = "pin" /\ handler'[h].copy = new
      BY <2>4, GotoWithIs
    <3>2. Unmixed(a)'
      BY <2>3 DEF Unmixed
    <3>3. Alive(App(h))' \subseteq {new}
      BY <2>2, <2>3
    <3> QED
      BY <2>2, <2>3, <3>1, <3>2, <3>3 DEF Known, Sees, Sight, At
  <2>5. CASE (Goto(h, "create") \/ Goto(h, "provisioned")) /\ lost' = lost \union {new} /\ Fault
    <3>1. handler'[h].at \in {"create", "provisioned"} /\ handler'[h].copy = NoCopy
      BY <2>1, <2>5, GotoIs
    <3>2. new \notin Alive(a)'
      BY <2>5 DEF Alive
    <3>3. Alive(a)' = {}
      BY <2>3, <3>2
    <3>4. Stray(a)' = {}
      BY <2>5, StagingAssumption DEF Stray, Fault, IInv, HistoryTyped
    <3>5. Alive(App(h))' = {} /\ Stray(App(h))' = {}
      BY <2>2, <3>3, <3>4
    <3> QED
      BY <3>1, <3>3, <3>5 DEF Known, Unmixed, Sees, Sight
  <2> QED
    BY <1>3, <2>4, <2>5
<1>11. OthersStay(h, a)
  <2>1. ASSUME NEW b \in Apps \ {a}, Unmixed(b), Alive(b)' # {} PROVE Stray(b)' \subseteq Alive(b)'
    <3>1. Apart(b)'
      BY <2>1 DEF Alive
    <3>2. Alive(b) \subseteq Alive(b)'
      <4> SUFFICES ASSUME NEW c \in Alive(b) PROVE c \in Alive(b)'
        OBVIOUS
      <4>1. c \in Copies /\ c \notin lost /\ copy[c].of = b /\ copy[c].is = "live"
        BY DEF Alive
      <4>2. c # new
        BY <1>4, <4>1
      <4>3. c \notin lost'
        BY <1>3, <4>1, <4>2
      <4> QED
        BY <1>6, <3>1, <4>1, <4>2, <4>3 DEF Alive
    <3> QED
      BY <1>9, <2>1, <3>2 DEF Unmixed
  <2>2. \A b \in Apps \ {a} : Unmixed(b) => Unmixed(b)'
    BY <2>1 DEF Unmixed
  <2> QED
    BY <1>2, <1>5, <1>9, <2>2 DEF OthersStay
<1> QED
  BY <1>2, <1>5, <1>7, <1>10, <1>11, OwnApp

\* A step in which no change is at work: the handler it moves, if any, was idle and is idle or waiting, and the pass
\* keeps the record of every copy that is there.
LEMMA Aside ==
    ASSUME IInv, OneInv, Onwards, copy' = copy, lost' = lost,
           Quiet' => \A a \in Apps : \A c \in Alive(a) : pin[a] = c => pin'[a] = c,
           \A h \in Handlers : handler'[h] = handler[h] \/ (~Busy(h) /\ ~Busy(h)')
    PROVE  OneInv'
<1> SUFFICES ASSUME Quiet'
             PROVE  Alone' /\ (\A a \in Apps : Known(a)') /\ (\A a \in Apps : Unmixed(a)') /\ (\A h \in Handlers : Sees(h)')
  BY DEF OneInv
<1>1. Quiet /\ Alone /\ (\A a \in Apps : Known(a)) /\ (\A a \in Apps : Unmixed(a)) /\ (\A h \in Handlers : Sees(h))
  BY DEF OneInv, Onwards
<1>0. \A a \in Apps : Alive(a)' = Alive(a) /\ Stray(a)' \subseteq Stray(a) /\ Unmixed(a)'
  BY <1>1, HostingSame
<1>2. \A h \in Handlers : handler'[h] = handler[h] => App(h)' = App(h) /\ (Busy(h)' <=> Busy(h))
  BY DEF App, Busy, Dead, At
<1>3. Alone'
  BY <1>1, <1>2 DEF Alone
<1>4. ASSUME NEW a \in Apps PROVE Known(a)'
  <2> SUFFICES ASSUME NEW c \in Alive(a)', pin'[a] # c
               PROVE  \E h \in Handlers : /\ App(h)' = a /\ handler'[h].copy = c
                                          /\ At(h, "pin")' \/ (At(h, "provisioned")' /\ faults' >= 1)
    BY DEF Known
  <2>1. c \in Alive(a) /\ pin[a] # c
    BY <1>0
  <2>2. PICK h \in Handlers : /\ App(h) = a /\ handler[h].copy = c
                              /\ At(h, "pin") \/ (At(h, "provisioned") /\ faults >= 1)
    BY <1>1, <2>1 DEF Known
  <2>3. Busy(h)
    BY <2>2, BusyWatched DEF At, Watched
  <2>4. handler'[h] = handler[h] /\ App(h)' = App(h)
    BY <1>2, <2>3
  <2> QED
    BY <2>2, <2>4 DEF At, Onwards
<1>5. ASSUME NEW h \in Handlers PROVE Sees(h)'
  <2>1. CASE handler'[h] = handler[h]
    <3> PICK a \in Apps : a = App(h)
      BY HandlerTyped
    <3>1. Alive(App(h))' = Alive(a) /\ Stray(App(h))' \subseteq Stray(a)
      BY <1>0, <1>2, <2>1
    <3>2. Sight(handler[h].at, handler[h].copy, Alive(a), Stray(a), faults >= 1) /\ (faults >= 1 => faults' >= 1)
      BY <1>1 DEF Sees, Onwards
    <3> QED
      BY <2>1, <3>1, <3>2 DEF Sees, Sight
  <2>2. CASE ~Busy(h)'
    BY <2>2 DEF Sees, Sight, Busy, Dead, At
  <2> QED
    BY <2>1, <2>2
<1> QED
  BY <1>0, <1>3, <1>4, <1>5

\* A change begins when none of its app is at work, or it has overrun.
LEMMA OneLock ==
    ASSUME IInv, OneInv, NEW h \in Handlers, NEW a \in Apps, NEW kind, Lock(h, a, kind), ~Busy(h),
           UNCHANGED records, UNCHANGED hosting, faults' = faults, misread' = misread
    PROVE  OneInv'
<1> DEFINE x == [Blank EXCEPT !.at = Started(kind), !.app = a, !.kind = kind]
<1>1. handler \in [Handlers -> HandlerType] /\ handler' = [handler EXCEPT ![h] = x]
  BY DEF IInv, HandlersOwn, Lock
<1>2. x.at \in {"evidence", "disable"} /\ x.app = a
  BY BlankTyped DEF HandlerType, Started
<1> HIDE DEF x
<1>3. handler'[h] = x /\ \A g \in Handlers \ {h} : handler'[g] = handler[g]
  BY <1>1
<1>4. \A g \in Handlers \ {h} : App(g)' = App(g) /\ (Busy(g)' <=> Busy(g)) /\ (At(g, "pin")' <=> At(g, "pin"))
                                /\ (At(g, "provisioned")' <=> At(g, "provisioned"))
  BY <1>3 DEF App, Busy, Dead, At
<1>5. App(h)' = a
  BY <1>2, <1>3 DEF App
<1>6. pin' = pin /\ copy' = copy /\ lost' = lost
  BY DEF records, hosting
<1>7. ~overran' => ~overran /\ \A g \in Handlers \ {h} : Busy(g) => App(g) # a
  BY DEF Lock, Busy
<1> SUFFICES ASSUME Quiet'
             PROVE  Alone' /\ (\A b \in Apps : Known(b)') /\ (\A b \in Apps : Unmixed(b)') /\ (\A g \in Handlers : Sees(g)')
  BY DEF OneInv
<1>8. Quiet /\ Alone /\ (\A b \in Apps : Known(b)) /\ (\A b \in Apps : Unmixed(b)) /\ (\A g \in Handlers : Sees(g))
  BY <1>7 DEF OneInv, Quiet
<1>0. \A b \in Apps : Alive(b)' = Alive(b) /\ Stray(b)' \subseteq Stray(b) /\ Unmixed(b)'
  <2>1. Onwards
    BY <1>7, StagingAssumption DEF IInv, HistoryTyped, Onwards, Quiet
  <2> QED
    BY <1>6, <1>8, <2>1, HostingSame
<1>9. Alone'
  BY <1>4, <1>5, <1>7, <1>8 DEF Alone, Quiet
<1>10. ASSUME NEW b \in Apps PROVE Known(b)'
  <2> SUFFICES ASSUME NEW c \in Alive(b)', pin'[b] # c
               PROVE  \E g \in Handlers : /\ App(g)' = b /\ handler'[g].copy = c
                                          /\ At(g, "pin")' \/ (At(g, "provisioned")' /\ faults' >= 1)
    BY DEF Known
  <2>1. c \in Alive(b) /\ pin[b] # c
    BY <1>0, <1>6
  <2>2. PICK g \in Handlers : /\ App(g) = b /\ handler[g].copy = c
                              /\ At(g, "pin") \/ (At(g, "provisioned") /\ faults >= 1)
    BY <1>8, <2>1 DEF Known
  <2>3. g # h
    BY <2>2, BusyWatched DEF At, Watched
  <2> QED
    BY <1>3, <1>4, <2>2, <2>3
<1>11. ASSUME NEW g \in Handlers PROVE Sees(g)'
  <2>1. CASE g = h
    BY <1>2, <1>3, <2>1 DEF Sees, Sight
  <2>2. CASE g # h
    <3> PICK b \in Apps : b = App(g)
      BY HandlerTyped
    <3>1. handler'[g] = handler[g] /\ Alive(App(g))' = Alive(b) /\ Stray(App(g))' \subseteq Stray(b)
      BY <1>0, <1>3, <1>4, <2>2
    <3>2. Sight(handler[g].at, handler[g].copy, Alive(b), Stray(b), faults >= 1)
      BY <1>8 DEF Sees
    <3> QED
      BY <3>1, <3>2 DEF Sees, Sight
  <2> QED
    BY <2>1, <2>2
<1> QED
  BY <1>0, <1>9, <1>10, <1>11

LEMMA OneGiveUp ==
    ASSUME IInv, OneInv, NEW h \in Handlers, NEW a \in Apps, NEW kind, GiveUp(h, a, kind), At(h, "idle"),
           UNCHANGED records, UNCHANGED hosting, misread' = misread
    PROVE  OneInv'
<1>1. handler \in [Handlers -> HandlerType] /\ faults \in Nat
  BY StagingAssumption DEF IInv, HandlersOwn, HistoryTyped
<1>2. Onwards
  BY <1>1 DEF GiveUp, Onwards, Quiet
<1>3. pin' = pin /\ copy' = copy /\ lost' = lost
  BY DEF records, hosting
<1>4. handler'[h].at = "retake" /\ \A g \in Handlers \ {h} : handler'[g] = handler[g]
  BY <1>1 DEF GiveUp, HandlerType
<1>5. ~Busy(h) /\ ~Busy(h)'
  BY <1>4 DEF Busy, Dead, At
<1> QED
  BY <1>2, <1>3, <1>4, <1>5, Aside

LEMMA OneClick ==
    ASSUME IInv, OneInv, NEW q \in Requests, NEW a \in Apps, NEW kind \in Kinds, Click(q, a, kind)
    PROVE  OneInv'
<1>1. q \in Handlers /\ At(q, "idle") /\ ~Busy(q) /\ UNCHANGED records /\ UNCHANGED hosting /\ misread' = misread
  BY Numbers DEF Click, Busy, Dead, At
<1> QED
  BY <1>1, OneLock, OneGiveUp DEF Click

\* A handler that ends.
LEMMA OneEnd ==
    ASSUME IInv, OneInv, Onwards, NEW h \in Handlers, NEW a \in Apps, a = App(h), NEW at \in {"done", "crashed"}, End(h, at),
           pin' = pin, copy' = copy, lost' = lost \/ lost' = lost \union {handler[h].copy},
           lost' = lost \/ (Busy(h) /\ Fault), Busy(h) /\ Quiet /\ Quiet' => Alive(a)' \subseteq {pin[a]}
    PROVE  OneInv'
<1> DEFINE left == IF h = Retry THEN "idle" ELSE at
           x == [Blank EXCEPT !.at = left]
<1>1. handler \in [Handlers -> HandlerType] /\ handler' = [handler EXCEPT ![h] = x]
  BY DEF IInv, HandlersOwn, End
<1>2. x.at \in {"idle", "done", "crashed"}
  BY BlankTyped DEF HandlerType
<1> HIDE DEF x
<1>3. handler'[h] = x /\ \A g \in Handlers \ {h} : handler'[g] = handler[g]
  BY <1>1
<1>4. ~Busy(h)'
  BY <1>2, <1>3 DEF Busy, Dead
<1>5. CASE ~Busy(h)
  BY <1>3, <1>4, <1>5, Aside
<1>6. CASE Busy(h)
  <2>1. \A b \in Apps : Alive(b)' \subseteq Alive(b) /\ Stray(b)' \subseteq Stray(b) /\ (Unmixed(b) => Unmixed(b)')
    <3>1. CASE lost' = lost
      BY <3>1, HostingSame
    <3>2. CASE Fault
      <4>1. \A b \in Apps : Stray(b)' = {}
        BY <3>2, StagingAssumption DEF Stray, Fault, IInv, HistoryTyped
      <4>2. \A b \in Apps : Alive(b)' \subseteq Alive(b)
        BY DEF Alive, Apart
      <4> QED
        BY <4>1, <4>2 DEF Unmixed
    <3> QED
      BY <3>1, <3>2
  <2>2. OthersStay(h, a)
    BY <1>3, <2>1 DEF OthersStay
  <2>3. Sees(h)'
    BY <1>2, <1>3 DEF Sees, Sight
  <2>4. Quiet' => Known(a)' /\ Unmixed(a)'
    BY <1>6, <2>1 DEF Known, Onwards, OneInv
  <2> QED
    BY <1>2, <1>3, <1>6, <2>2, <2>3, <2>4, OwnApp
<1> QED
  BY <1>5, <1>6

LEMMA OneFinish == ASSUME IInv, OneInv, NEW h \in Handlers, Finish(h) PROVE OneInv'
<1> PICK a \in Apps : a = App(h)
  BY HandlerTyped
<1>1. pin' = pin /\ copy' = copy /\ lost' = lost /\ NoFault /\ End(h, "done") /\ Settled(h)
  BY DEF Finish, Leave, records, hosting, NoFault, Settled, Busy, Dead, At
<1>2. Onwards
  BY <1>1, FaultsOnward
<1>3. ASSUME Quiet PROVE Alive(a)' \subseteq {pin[a]}
  BY <1>1, <1>2, <1>3, Here, HostingSame
<1> QED
  BY <1>1, <1>2, <1>3, OneEnd

\* A copy that was just created is lost with its handler; one whose first record was lost cannot be: that was the fault.
LEMMA OneCrash == ASSUME IInv, OneInv, NEW h \in Handlers, Crash(h) PROVE OneInv'
<1> PICK a \in Apps : a = App(h)
  BY HandlerTyped
<1>1. pin' = pin /\ copy' = copy /\ Fault /\ End(h, "crashed") /\ ~Dead(h)
      /\ lost' = IF At(h, "pin") THEN lost \union {handler[h].copy} ELSE lost
  BY DEF Crash, records
<1>2. Onwards
  BY <1>1, FaultsOnward
<1>3. Busy(h) \/ lost' = lost
  BY <1>1 DEF Busy, At
<1>4. ASSUME Busy(h), Quiet, Quiet', NEW c \in Alive(a)', pin[a] # c PROVE FALSE
  <2>1. faults = 0
    BY <1>1, <1>4, StagingAssumption DEF IInv, HistoryTyped, Fault, Quiet
  <2>2. c \in Alive(a)
    BY <1>1, <1>4 DEF Alive, Apart
  <2>3. PICK g \in Handlers : App(g) = a /\ handler[g].copy = c /\ At(g, "pin")
    BY <1>4, <2>1, <2>2 DEF OneInv, Known
  <2>4. Busy(g)
    BY <2>3, BusyWatched DEF At, Watched
  <2>5. g # h
    BY <1>1, <1>4, <2>3 DEF Alive
  <2> QED
    BY <1>4, <2>3, <2>4, <2>5 DEF OneInv, Alone
<1> QED
  BY <1>1, <1>2, <1>3, <1>4, OneEnd

LEMMA OneRetake == ASSUME IInv, OneInv, NEW h \in Handlers, Retake(h) PROVE OneInv'
<1> PICK a \in Apps : a = App(h)
  BY HandlerTyped
<1>1. /\ ~Busy(h) /\ UNCHANGED records /\ UNCHANGED hosting /\ misread' = misread /\ faults' = faults
      /\ pin' = pin /\ copy' = copy /\ lost' = lost
  BY DEF Retake, Busy, records, hosting
<1>2. CASE Lock(h, a, handler[h].kind)
  BY <1>1, <1>2, OneLock
<1>3. CASE End(h, "done") /\ overran' = overran
  <2>1. Onwards
    BY <1>1, <1>3, StagingAssumption DEF IInv, HistoryTyped, Onwards, Quiet
  <2>2. handler \in [Handlers -> HandlerType] /\ \A g \in Handlers \ {h} : handler'[g] = handler[g]
    BY <1>3 DEF End, IInv, HandlersOwn
  <2>3. handler'[h].at \in {"idle", "done"}
    <3> DEFINE left == IF h = Retry THEN "idle" ELSE "done"
               x == [Blank EXCEPT !.at = left]
    <3>1. x.at = left
      BY BlankTyped DEF HandlerType
    <3> HIDE DEF x
    <3>2. handler' = [handler EXCEPT ![h] = x]
      BY <1>3 DEF End, x
    <3> QED
      BY <2>2, <3>1, <3>2
  <2>4. ~Busy(h)'
    BY <2>3 DEF Busy, Dead
  <2> QED
    BY <1>1, <2>1, <2>2, <2>4, Aside
<1> QED
  BY <1>2, <1>3 DEF Retake, Leave

\* The pass reads, and posts a removal as a click would.
LEMMA OneStill ==
    ASSUME IInv, OneInv, handler' = handler, pin' = pin, copy' = copy, lost' = lost,
           faults' = faults, overran' = overran, misread' = misread
    PROVE  OneInv'
<1>1. Onwards
  BY StagingAssumption DEF IInv, HistoryTyped, Onwards, Quiet
<1> QED
  BY <1>1, Aside

LEMMA OneCheckCleanup == ASSUME IInv, OneInv, NEW a \in Apps, CheckCleanup(a) PROVE OneInv'
<1>1. /\ pin' = pin /\ copy' = copy /\ lost' = lost /\ faults' = faults /\ overran' = overran /\ misread' = misread
      /\ pass.at = "cleaning"
  BY DEF CheckCleanup, records, hosting, history
<1>2. handler[Retry].at = "idle" /\ handler \in [Handlers -> HandlerType] /\ Retry \in Handlers
  BY <1>1, Numbers DEF IInv, RetryWaits, HandlersOwn
<1>3. PICK b : handler' = [handler EXCEPT ![Retry].app = b]
  BY DEF CheckCleanup
<1>4. handler'[Retry].at = "idle" /\ \A g \in Handlers \ {Retry} : handler'[g] = handler[g]
  BY <1>2, <1>3 DEF HandlerType
<1>5. ~Busy(Retry) /\ ~Busy(Retry)'
  BY <1>2, <1>4 DEF Busy, Dead
<1>6. Onwards
  BY <1>1, StagingAssumption DEF IInv, HistoryTyped, Onwards, Quiet
<1> QED
  BY <1>1, <1>4, <1>5, <1>6, Aside

LEMMA OnePostCleanup == ASSUME IInv, OneInv, PostCleanup PROVE OneInv'
<1>1. UNCHANGED records /\ UNCHANGED hosting /\ misread' = misread /\ At(Retry, "idle")
  BY DEF PostCleanup
<1>2. ~Busy(Retry) /\ Retry \in Handlers /\ App(Retry) \in Apps
  BY <1>1, Numbers, HandlerTyped DEF Busy, Dead, At
<1>3. CASE Lock(Retry, App(Retry), "burn") /\ faults' = faults
  BY <1>1, <1>2, <1>3, OneLock
<1>4. CASE GiveUp(Retry, App(Retry), "burn")
  BY <1>1, <1>2, <1>4, OneGiveUp
<1>5. CASE handler' = handler /\ faults' = faults /\ overran' = overran
  BY <1>1, <1>5, OneStill DEF records, hosting
<1> QED
  BY <1>3, <1>4, <1>5 DEF PostCleanup

\* A record the pass overwrites is of a copy that is gone, or the pass misreads.
LEMMA OneApply == ASSUME IInv, OneInv, NEW entry \in pass.plan, Apply(entry) PROVE OneInv'
<1>1. /\ handler' = handler /\ copy' = copy /\ lost' = lost /\ faults' = faults /\ overran' = overran
      /\ misread' = (misread \/ (pin[entry[2]] \in Visible /\ pin'[entry[2]] # pin[entry[2]]))
  BY DEF Apply, hosting
<1>2. Onwards
  BY <1>1, StagingAssumption DEF IInv, HistoryTyped, Onwards, Quiet
<1>3. PICK c : pin' = [pin EXCEPT ![entry[2]] = c]
  BY DEF Apply
<1>4. ASSUME Quiet', NEW a \in Apps, NEW d \in Alive(a), pin[a] = d PROVE pin'[a] = d
  <2>1. a # entry[2] => pin'[a] = pin[a]
    BY <1>3 DEF IInv, RecordsTyped
  <2>2. d \in Visible
    BY DEF Alive, Visible
  <2> QED
    BY <1>1, <1>4, <2>1, <2>2 DEF Quiet
<1> QED
  BY <1>1, <1>2, <1>4, Aside

LEMMA OneVanish == ASSUME IInv, OneInv, NEW c \in Copies, Vanish(c) PROVE OneInv'
<1>1. /\ pin' = pin /\ handler' = handler /\ lost' = lost /\ faults' = faults /\ overran' = overran /\ misread' = misread
      /\ copy' = [copy EXCEPT ![c].is = "gone"] /\ copy[c].is = "going"
  BY DEF Vanish, records, history
<1>2. Onwards
  BY <1>1, StagingAssumption DEF IInv, HistoryTyped, Onwards, Quiet
<1>3. \A d \in Copies : /\ copy'[d].of = copy[d].of /\ copy'[d].name = copy[d].name
                        /\ copy'[d].is = "none" <=> copy[d].is = "none"
                        /\ copy'[d].is = "live" <=> copy[d].is = "live"
                        /\ copy'[d].is \in {"live", "going"} => copy[d].is \in {"live", "going"}
  BY <1>1 DEF IInv, HostingTyped, CopyType
<1>4. \A a \in Apps : /\ Alive(a)' \subseteq Alive(a) /\ Stray(a)' \subseteq Stray(a)
                      /\ Quiet' /\ Unmixed(a) => Unmixed(a)'
  BY <1>1, <1>2, <1>3, Leaving
<1> SUFFICES ASSUME Quiet'
             PROVE  Alone' /\ (\A a \in Apps : Known(a)') /\ (\A a \in Apps : Unmixed(a)') /\ (\A h \in Handlers : Sees(h)')
  BY DEF OneInv
<1>5. Quiet /\ Alone /\ (\A a \in Apps : Known(a)) /\ (\A a \in Apps : Unmixed(a)) /\ (\A h \in Handlers : Sees(h))
  BY <1>2 DEF OneInv, Onwards
<1>6. Alone'
  BY <1>1, <1>5 DEF Alone, Busy, Dead, At, App
<1>7. \A a \in Apps : Known(a)'
  BY <1>1, <1>4, <1>5 DEF Known, At, App
<1>8. ASSUME NEW h \in Handlers PROVE Sees(h)'
  <2> PICK a \in Apps : a = App(h)
    BY HandlerTyped
  <2>1. App(h)' = a
    BY <1>1 DEF App
  <2>2. Alive(App(h))' \subseteq Alive(a) /\ Stray(App(h))' \subseteq Stray(a)
    BY <1>4, <2>1
  <2> QED
    BY <1>1, <1>5, <2>2 DEF Sees, Sight
<1> QED
  BY <1>4, <1>5, <1>6, <1>7, <1>8

LEMMA OneWork == ASSUME IInv, OneInv, NEW h \in Handlers, Work(h) \/ Crash(h) PROVE OneInv'
<1>1. CASE TurnOn(h)
  BY <1>1, OneReadEvidence, OneRecordClaim, OneFirstLook, OneResidueClears, OneResidueStays, OneRemoveResidue, OneEnable,
     OneLookForCopy, OneAttach, OneCheckAgain, OneCreate, OneRefused, OnePinCreated, OneLookAgain, OneAudit DEF TurnOn
<1>2. CASE TurnOff(h)
  BY <1>2, OneDisable, OneFind, OneDestroy, OneProbe, OneForget, OneAudit DEF TurnOff
<1> QED
  BY <1>1, <1>2, OneRetake, OneFinish, OneCrash DEF Work

LEMMA OneHourly == ASSUME IInv, OneInv, Hourly PROVE OneInv'
<1>1. CASE ListCopies \/ ReadRecords \/ ListCleanups \/ EndPass
  BY <1>1, OneStill DEF ListCopies, ReadRecords, ListCleanups, EndPass, records, hosting, history
<1> QED
  BY <1>1, OnePostCleanup, OneApply, OneCheckCleanup DEF Hourly

LEMMA OneNext == IInv /\ OneInv /\ [Next]_vars => OneInv'
<1> SUFFICES ASSUME IInv, OneInv, [Next]_vars PROVE OneInv'
  OBVIOUS
<1>1. CASE \E q \in Requests, a \in Apps, kind \in Kinds : Click(q, a, kind)
  BY <1>1, OneClick
<1>2. CASE \E h \in Handlers : Work(h) \/ Crash(h)
  BY <1>2, OneWork
<1>3. CASE Hourly
  BY <1>3, OneHourly
<1>4. CASE \E c \in Copies : Vanish(c)
  BY <1>4, OneVanish
<1>5. CASE UNCHANGED vars
  BY <1>5, OneStill DEF vars, records, hosting, history
<1> QED
  BY <1>1, <1>2, <1>3, <1>4, <1>5 DEF Next

LEMMA OneInit == Init => OneInv
<1> SUFFICES ASSUME Init PROVE OneInv
  OBVIOUS
<1>1. \A h \in Handlers : handler[h].at = "idle"
  BY BlankTyped DEF Init
<1>2. \A a \in Apps : Alive(a) = {} /\ Unmixed(a)
  <2>1. \A c \in Copies : copy[c].is = "none"
    BY DEF Init
  <2> QED
    BY <2>1 DEF Alive, Unmixed
<1>3. \A h \in Handlers : ~Busy(h) /\ Sees(h)
  BY <1>1 DEF Busy, Dead, Sees, Sight
<1>4. \A a \in Apps : Known(a)
  BY <1>2 DEF Known
<1> QED
  BY <1>2, <1>3, <1>4 DEF OneInv, Alone

\* When at most one thing went wrong, no two changes ran side by side and the pass misread nothing, an app has one copy
\* at most, not counting copies Jongo never heard of, while no copy of it bears another's name and none of another its
\* own: the next switch finds the copy there is.
THEOREM OnlyOne == Spec => []OneCopy
<1>1. ASSUME NEW S, NEW c, S \subseteq {c} PROVE Cardinality(S) <= 1
  <2>1. Cardinality({}) = 0
    BY FS_EmptySet, Zenon
  <2>2. Cardinality({c}) = 1
    BY FS_Singleton, Zenon
  <2>3. S = {} \/ S = {c}
    BY <1>1
  <2> QED
    BY <2>1, <2>2, <2>3
<1>2. IInv /\ OneInv => OneCopy
  <2> SUFFICES ASSUME IInv, OneInv, Quiet, NEW a \in Apps, Apart(a)
               PROVE  Cardinality({c \in Copies \ lost : copy[c].of = a /\ copy[c].is = "live"}) <= 1
    BY DEF OneCopy, Quiet
  <2>1. PICK c : Alive(a) \subseteq {c}
    BY AtMostOne
  <2>2. {d \in Copies \ lost : copy[d].of = a /\ copy[d].is = "live"} = Alive(a)
    BY DEF Alive
  <2> QED
    BY <1>1, <2>1, <2>2
<1> QED
  BY <1>2, Inductive, OneInit, OneNext, PTL DEF Spec
=============================================================================
