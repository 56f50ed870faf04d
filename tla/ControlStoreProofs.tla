------------------------- MODULE ControlStoreProofs -------------------------
(***************************************************************************)
(* Proofs about ControlStore, for any processes, tabs, routes and bound,   *)
(* whether or not processes die and writes fail.                           *)
(***************************************************************************)
EXTENDS ControlStore, TLAPS

LEMMA InvInit == Init => Inv
<1> SUFFICES ASSUME Init PROVE Inv
  OBVIOUS
<1> USE StoreAssumption DEF Init
<1>1. Defaults \in Value
  BY DEF Defaults, Value
<1>2. job \in [Proc -> Job] /\ \A p \in Proc : job[p].pc = "idle"
  BY DEF Job, IdleJob, Route, Attempt
<1>3. tab \in [Tab -> Request] /\ \A t \in Tab : tab[t].pc = "idle"
  BY <1>1 DEF Request, Route
<1>4. catalog \in Catalog /\ connections \in Route /\ live \in Route
  BY DEF Catalog, Route
<1>5. /\ status \in Status /\ written \in [catalog : Attempt, connections : Attempt]
      /\ WrittenInv
  BY DEF Status, Attempt, WrittenInv, StatusIsNotAhead
<1>6. memory \in [Proc -> Attempt] /\ clock \in Attempt
  BY <1>5 DEF Status, Attempt
<1>7. Typed
  BY <1>2, <1>3, <1>4, <1>5, <1>6 DEF Typed
<1>8. TypeOK
  BY <1>2, <1>3, <1>7 DEF TypeOK, Saving, Committing
<1> QED
  BY <1>2, <1>3, <1>5, <1>8 DEF Inv, SaveInv, JobInv

(* What is loaded is an attempt.                                           *)
LEMMA LoadTyped ==
  ASSUME Typed, NEW p \in Proc, Load(p)
  PROVE  memory' \in [Proc -> Attempt]
BY DEF Typed, Load, Status

LEMMA LoadedTyped ==
  ASSUME NEW s \in Value \cup {Absent}
  PROVE  Loaded(s) \in Value /\ Defaults \in Value
BY StoreAssumption DEF Loaded, Defaults, Value

(***************************************************************************)
(* Steps of one kind.                                                      *)
(***************************************************************************)

(* Readers, the host and the passing of time.                              *)
LEMMA QuietStep ==
  ASSUME Inv, memory' \in [Proc -> Attempt], live' \in Route, aged' \in BOOLEAN,
         up' \subseteq Proc,
         UNCHANGED <<locks, settings, catalog, connections, status, written, job, tab,
                     clock>>
  PROVE  Inv'
<1> USE DEF locks
<1>1. TypeOK'
  BY DEF Inv, TypeOK, Typed
<1> QED
  BY <1>1 DEF Inv, WrittenInv, StatusIsNotAhead, SaveInv, JobInv, Acceptable

(* A step of a save, or a look: the save takes the free lock, keeps it or  *)
(* gives it back, and only its rename changes the settings.                *)
LEMMA TabStep ==
  ASSUME Inv, NEW t \in Tab, Typed',
         \A u \in Tab \ {t} : tab'[u] = tab[u],
         tab'[t].pc \in Saving => lock' = t /\ lock \in {t, Free},
         tab'[t].pc \notin Saving => lock' = IF lock = t THEN Free ELSE lock,
         settings' # settings => lock = t,
         SaveInv(t)',
         UNCHANGED <<lease, catalog, connections, status, written, job, clock>>
  PROVE  Inv'
<1> USE StoreAssumption
<1>1. \A u \in Tab : tab'[u].pc \in Saving <=> lock' = u
  BY DEF Inv, TypeOK
<1>2. \A p \in Proc : job'[p].pc \in Committing <=> lock' = p
  BY DEF Inv, TypeOK
<1>3. TypeOK'
  BY <1>1, <1>2 DEF Inv, TypeOK
<1>4. ASSUME NEW u \in Tab \ {t} PROVE SaveInv(u)'
  <2>1. tab[u].pc \in {"compare", "rename"} => UNCHANGED settings
    BY DEF Inv, TypeOK, Saving
  <2> QED
    BY <2>1 DEF Inv, SaveInv, Acceptable
<1> QED
  BY <1>3, <1>4 DEF Inv, WrittenInv, StatusIsNotAhead, JobInv

(* A step of a refresh: it takes the free lock and the free lease, keeps   *)
(* them or gives them back; the files need the lock, the clock the lease.  *)
LEMMA JobStep ==
  ASSUME Inv, NEW p \in Proc, Typed',
         \A q \in Proc \ {p} : job'[q] = job[q],
         \A t \in Tab : tab'[t] = tab[t] \/ (tab[t].pc \notin Saving /\ tab'[t].pc \notin Saving),
         job'[p].pc \in Committing => lock' = p /\ lock \in {p, Free},
         job'[p].pc \notin Committing => lock' = IF lock = p THEN Free ELSE lock,
         job'[p].pc \notin {"idle", "lease"} => lease' = p /\ lease \in {p, Free},
         job'[p].pc \in {"idle", "lease"} => lease' = IF lease = p THEN Free ELSE lease,
         lock # p => UNCHANGED <<catalog, connections>>,
         lease # p => UNCHANGED <<written, clock>>,
         UNCHANGED settings,
         WrittenInv', JobInv(p)'
  PROVE  Inv'
<1> USE StoreAssumption
<1>1. \A t \in Tab : tab'[t].pc \in Saving <=> lock' = t
  BY DEF Inv, TypeOK
<1>2. \A q \in Proc : job'[q].pc \in Committing <=> lock' = q
  BY DEF Inv, TypeOK
<1>3. \A q \in Proc : job'[q].pc \notin {"idle", "lease"} <=> lease' = q
  BY DEF Inv, TypeOK
<1>4. TypeOK'
  BY <1>1, <1>2, <1>3 DEF TypeOK
<1>5. ASSUME NEW t \in Tab PROVE SaveInv(t)'
  <2>1. CASE tab'[t].pc \in {"compare", "rename"}
    <3>1. tab'[t] = tab[t] /\ lock = t
      BY <2>1 DEF Saving, Inv, TypeOK
    <3>2. UNCHANGED <<catalog, connections>>
      BY <3>1
    <3> QED
      BY <2>1, <3>1, <3>2 DEF Inv, SaveInv, Acceptable
  <2> QED
    BY <2>1 DEF SaveInv
<1>6. ASSUME NEW q \in Proc \ {p} PROVE JobInv(q)'
  <2>1. job[q].pc \notin {"idle", "lease", "reload"} => UNCHANGED <<written, clock>>
    BY DEF Inv, TypeOK
  <2> QED
    BY <2>1 DEF Inv, JobInv
<1> QED
  BY <1>4, <1>5, <1>6 DEF Inv

(***************************************************************************)
(* The steps.                                                              *)
(***************************************************************************)

LEMMA ReadStep ==
  ASSUME Inv, HostChanges \/ Age \/ \E p \in Proc : Reload(p) \/ Start(p)
  PROVE  Inv'
<1>1. CASE HostChanges
  BY <1>1, QuietStep DEF HostChanges, Inv, TypeOK, Typed, Route, files
<1>2. CASE Age
  BY <1>2, QuietStep DEF Age, Inv, TypeOK, Typed
<1>3. ASSUME NEW p \in Proc, Reload(p) \/ Start(p) PROVE Inv'
  <2>1. memory' \in [Proc -> Attempt]
    BY <1>3, LoadTyped DEF Inv, TypeOK, Reload, Start
  <2> QED
    BY <1>3, <2>1, QuietStep DEF Inv, TypeOK, Typed, Reload, Start, files
<1> QED
  BY <1>1, <1>2, <1>3

(* What ends a save: the editor's request is idle, the lock given back.    *)
LEMMA EndSaveStep ==
  ASSUME Inv, NEW t \in Tab, tab[t].pc \in Saving, lock' = Free,
         tab' \in [Tab -> Request], tab'[t].pc = "idle",
         \A u \in Tab \ {t} : tab'[u] = tab[u],
         memory' \in [Proc -> Attempt],
         UNCHANGED <<lease, files, live, up, job, clock>>
  PROVE  Inv'
<1> USE DEF files
<1>1. lock = t
  BY DEF Inv, TypeOK
<1>2. Typed'
  BY DEF Inv, TypeOK, Typed
<1> QED
  BY <1>1, <1>2, TabStep DEF Saving, SaveInv

LEMMA LookStep == ASSUME Inv, NEW t \in Tab, Look(t) \/ BeginSave(t) PROVE Inv'
<1> USE StoreAssumption DEF files, locks
<1>1. Typed /\ tab[t] \in Request /\ tab[t].pc = "idle" /\ lock # t
  BY DEF Inv, TypeOK, Typed, Look, BeginSave, Saving
<1>2. memory' \in [Proc -> Attempt]
  BY <1>1, LoadTyped DEF Look, BeginSave, Typed
<1>3. /\ tab' \in [Tab -> Request] /\ tab'[t].pc \in {"idle", "lock"}
      /\ \A u \in Tab \ {t} : tab'[u] = tab[u]
  <2>1. CASE Look(t)
    BY <1>1, <2>1 DEF Look, Typed, Request
  <2>2. CASE BeginSave(t)
    <3>1. PICK text \in Text,
               pin \in {Unpinned, Loaded(tab[t].base).pin, tab[t].route} \ {None} :
            tab' = [tab EXCEPT ![t].pc = "lock", ![t].draft = [text |-> text, pin |-> pin]]
      BY <2>2, Zenon DEF BeginSave
    <3>2. /\ Loaded(tab[t].base).pin \in Endpoint \cup {Unpinned}
          /\ tab[t].route \in Endpoint \cup {None}
      <4>1. tab[t].base \in Value \cup {Absent} /\ tab[t].route \in Route
        BY <1>1 DEF Request
      <4>2. Loaded(tab[t].base) \in Value
        BY <4>1, LoadedTyped
      <4> QED
        BY <4>1, <4>2 DEF Value, Route
    <3>3. [text |-> text, pin |-> pin] \in Value
      BY <3>1, <3>2 DEF Value
    <3> QED
      BY <1>1, <3>1, <3>3 DEF Typed, Request
  <2> QED
    BY <2>1, <2>2
<1>4. Typed'
  BY <1>1, <1>2, <1>3 DEF Typed, Look, BeginSave
<1> QED
  BY <1>1, <1>3, <1>4, TabStep DEF Look, BeginSave, Saving, SaveInv

LEMMA SaveStepInv == ASSUME Inv, NEW t \in Tab, SaveStep(t) PROVE Inv'
<1> USE StoreAssumption DEF files, locks
<1>1. Typed /\ tab[t] \in Request /\ (tab[t].pc \in Saving <=> lock = t)
  BY DEF Inv, TypeOK, Typed
<1>2. Load(PanelOf[t]) => memory' \in [Proc -> Attempt]
  BY <1>1, LoadTyped
<1>3. ASSUME EndSave(t), tab[t].pc \in Saving, memory' \in [Proc -> Attempt],
             UNCHANGED <<lease, files, live, up, job, clock>>
      PROVE  Inv'
  <2>1. tab' \in [Tab -> Request] /\ tab'[t].pc = "idle" /\ \A u \in Tab \ {t} : tab'[u] = tab[u]
    BY <1>1, <1>3, LoadedTyped DEF EndSave, Typed, Request
  <2> QED
    BY <1>1, <1>3, <2>1, EndSaveStep DEF EndSave
(* The save goes on to its next step, with or without the lock.            *)
<1>4. ASSUME NEW pc \in {"check", "compare", "rename"}, tab' = [tab EXCEPT ![t].pc = pc],
             lock' = t, lock \in {t, Free}, memory' \in [Proc -> Attempt],
             pc = "check" \/ Acceptable(t), UNCHANGED <<lease, files, live, up, job, clock>>
      PROVE  Inv'
  <2>1. /\ tab' \in [Tab -> Request] /\ tab'[t].pc = pc
        /\ tab'[t].base = tab[t].base /\ tab'[t].draft = tab[t].draft
        /\ tab'[t].route = tab[t].route
        /\ \A u \in Tab \ {t} : tab'[u] = tab[u]
    BY <1>1, <1>4 DEF Typed, Request
  <2>2. Typed'
    BY <1>1, <1>4, <2>1 DEF Typed
  <2>3. SaveInv(t)'
    BY <1>4, <2>1 DEF SaveInv, Acceptable
  <2> QED
    BY <1>4, <2>1, <2>2, <2>3, TabStep DEF Saving
<1>5. CASE LockForSave(t)
  BY <1>1, <1>4, <1>5 DEF LockForSave, Typed
<1>6. CASE SaveBusy(t)
  <2>1. tab' \in [Tab -> Request] /\ tab'[t].pc = "idle" /\ \A u \in Tab \ {t} : tab'[u] = tab[u]
    BY <1>1, <1>6, LoadedTyped DEF SaveBusy, Typed, Request
  <2>2. Typed' /\ lock # t
    BY <1>1, <1>6, <2>1 DEF SaveBusy, Typed, Saving
  <2> QED
    BY <1>6, <2>1, <2>2, TabStep DEF SaveBusy, Saving, SaveInv
<1>7. CASE CheckSave(t)
  BY <1>1, <1>2, <1>3, <1>4, <1>7 DEF CheckSave, Saving
<1>8. CASE CompareSave(t)
  BY <1>1, <1>3, <1>4, <1>8 DEF CompareSave, Saving, Typed, Inv, SaveInv
<1>9. CASE RenameSave(t)
  <2>1. /\ tab' \in [Tab -> Request] /\ tab'[t].pc = "answer"
        /\ \A u \in Tab \ {t} : tab'[u] = tab[u]
    BY <1>1, <1>9 DEF RenameSave, Typed, Request
  <2>2. Typed' /\ lock = t
    BY <1>1, <1>9, <2>1 DEF RenameSave, Typed, Request, Saving
  <2> QED
    BY <1>9, <2>1, <2>2, TabStep DEF RenameSave, Saving, SaveInv
<1>10. CASE AnswerSave(t)
  <2>1. tab' \in [Tab -> Request] /\ tab'[t].pc = "idle" /\ \A u \in Tab \ {t} : tab'[u] = tab[u]
    BY <1>1, <1>10, LoadedTyped DEF AnswerSave, Typed, Request
  <2> QED
    BY <1>1, <1>2, <1>10, <2>1, EndSaveStep DEF AnswerSave, Saving
<1>11. CASE SaveFails(t)
  BY <1>1, <1>3, <1>11 DEF SaveFails, Saving, Typed
<1> QED
  BY <1>5, <1>6, <1>7, <1>8, <1>9, <1>10, <1>11 DEF SaveStep

LEMMA ConnectStep == ASSUME Inv, NEW p \in Proc, Connect(p) PROVE Inv'
<1> USE StoreAssumption DEF locks
<1>1. memory' \in [Proc -> Attempt] /\ settings' \in Value
  BY LoadTyped, LoadedTyped DEF Inv, TypeOK, Typed, Connect
<1>2. TypeOK'
  BY <1>1 DEF Connect, Inv, TypeOK, Typed
<1>3. \A t \in Tab : tab'[t].pc \notin {"compare", "rename"}
  BY DEF Connect, Inv, TypeOK, Saving
<1> QED
  BY <1>2, <1>3 DEF Connect, Inv, WrittenInv, StatusIsNotAhead, SaveInv, JobInv

(* The end of a refresh, with whatever answer.                             *)
LEMMA SettleStep ==
  ASSUME Inv, NEW p \in Proc, NEW loaded \in BOOLEAN, Settle(p, loaded),
         job[p].pc # "idle",
         memory' \in [Proc -> Attempt], status' \in Status, aged' \in BOOLEAN,
         lock' = IF lock = p THEN Free ELSE lock,
         lease' = IF lease = p THEN Free ELSE lease,
         UNCHANGED <<settings, catalog, connections, written, live, up, clock>>,
         WrittenInv'
  PROVE  Inv'
<1> USE StoreAssumption
<1>1. /\ job' \in [Proc -> Job] /\ job'[p].pc = "idle"
      /\ \A q \in Proc \ {p} : job'[q] = job[q]
  BY DEF Settle, Inv, TypeOK, Typed, Job, IdleJob, Route, Attempt
<1>2. ASSUME NEW t \in Tab
      PROVE  /\ tab'[t] \in Request
             /\ tab'[t] = tab[t] \/ (tab[t].pc \notin Saving /\ tab'[t].pc \notin Saving)
  <2>1. CASE PanelOf[t] # p \/ tab[t].pc # "await"
    BY <2>1 DEF Settle, Inv, TypeOK, Typed
  <2>2. CASE PanelOf[t] = p /\ tab[t].pc = "await"
    <3>1. tab'[t] = [tab[t] EXCEPT !.pc = "idle",
                       !.base = IF loaded THEN settings ELSE @,
                       !.route = IF loaded THEN connections ELSE @]
      BY <2>2 DEF Settle
    <3>2. /\ tab[t] \in Request /\ settings \in Value \cup {Absent} /\ connections \in Route
      BY DEF Inv, TypeOK, Typed
    <3>3. tab'[t] \in Request /\ tab'[t].pc = "idle"
      BY <3>1, <3>2 DEF Request
    <3> QED
      BY <2>2, <3>3 DEF Saving
  <2> QED
    BY <2>1, <2>2
<1>3. tab' \in [Tab -> Request]
  BY <1>2 DEF Settle
<1>4. Typed'
  BY <1>1, <1>3 DEF Inv, TypeOK, Typed
<1>5. JobInv(p)'
  BY <1>1 DEF JobInv
<1> QED
  BY <1>1, <1>2, <1>4, <1>5, JobStep DEF Committing

LEMMA BeginStep ==
  ASSUME Inv, (\E p \in Proc : TimerRefresh(p)) \/ (\E t \in Tab : ClickRefresh(t))
  PROVE  Inv'
<1> USE StoreAssumption DEF files, locks
<1>1. ASSUME NEW p \in Proc, NEW b \in BOOLEAN, job[p].pc = "idle",
             job' = [job EXCEPT ![p] = StartedJob(p, b)]
      PROVE  /\ job' \in [Proc -> Job] /\ job'[p].pc = "lease"
             /\ \A q \in Proc \ {p} : job'[q] = job[q]
  BY <1>1 DEF StartedJob, IdleJob, Inv, TypeOK, Typed, Job, Route, Attempt
<1>2. ASSUME NEW p \in Proc, job[p].pc = "idle", job'[p].pc = "lease",
             \A q \in Proc \ {p} : job'[q] = job[q], job' \in [Proc -> Job],
             tab' \in [Tab -> Request],
             \A t \in Tab : tab'[t] = tab[t]
                              \/ (tab[t].pc \notin Saving /\ tab'[t].pc \notin Saving),
             UNCHANGED <<files, locks, live, memory, up, clock>>
      PROVE  Inv'
  <2>1. Typed' /\ WrittenInv'
    BY <1>2 DEF Inv, TypeOK, Typed, WrittenInv, StatusIsNotAhead
  <2>2. lock # p /\ lease # p
    BY <1>2 DEF Inv, TypeOK, Committing
  <2> QED
    BY <1>2, <2>1, <2>2, JobStep DEF JobInv, Committing
<1>3. ASSUME NEW p \in Proc, TimerRefresh(p) PROVE Inv'
  BY <1>1, <1>2, <1>3 DEF TimerRefresh, Inv, TypeOK, Typed
<1>4. ASSUME NEW t \in Tab, ClickRefresh(t) PROVE Inv'
  <2>1. tab' \in [Tab -> Request] /\ tab'[t].pc = "await"
        /\ \A u \in Tab \ {t} : tab'[u] = tab[u]
    BY <1>4 DEF ClickRefresh, Inv, TypeOK, Typed, Request
  <2>2. \A u \in Tab : tab'[u] = tab[u] \/ (tab[u].pc \notin Saving /\ tab'[u].pc \notin Saving)
    BY <1>4, <2>1 DEF ClickRefresh, Saving
  <2>3. CASE job[PanelOf[t]].pc = "idle"
    BY <1>1, <1>2, <1>4, <2>1, <2>2, <2>3 DEF ClickRefresh
  <2>4. CASE job[PanelOf[t]].pc # "idle"
    <3>1. Typed'
      BY <1>4, <2>1, <2>4 DEF ClickRefresh, Inv, TypeOK, Typed
    <3> QED
      BY <1>4, <2>1, <2>2, <2>4, <3>1, TabStep DEF ClickRefresh, Saving, SaveInv, Inv, TypeOK
  <2> QED
    BY <2>3, <2>4
<1> QED
  BY <1>3, <1>4

(* A refresh goes on to its next step; no tab hears of it yet.             *)
LEMMA ProceedStep ==
  ASSUME Inv, NEW p \in Proc, job' \in [Proc -> Job],
         \A q \in Proc \ {p} : job'[q] = job[q],
         memory' \in [Proc -> Attempt], catalog' \in Catalog, connections' \in Route,
         written' \in [catalog : Attempt, connections : Attempt], clock' \in Attempt,
         job'[p].pc \in Committing => lock' = p /\ lock \in {p, Free},
         job'[p].pc \notin Committing => lock # p /\ UNCHANGED lock,
         job'[p].pc \notin {"idle", "lease"} /\ lease' = p /\ lease \in {p, Free},
         lock # p => UNCHANGED <<catalog, connections>>,
         lease # p => UNCHANGED <<written, clock>>,
         UNCHANGED <<settings, status, aged, live, up, tab>>,
         WrittenInv', JobInv(p)'
  PROVE  Inv'
<1>1. Typed'
  BY DEF Inv, TypeOK, Typed
<1> QED
  BY <1>1, JobStep

LEMMA RefreshStepInv == ASSUME Inv, NEW p \in Proc, RefreshStep(p) PROVE Inv'
<1> USE StoreAssumption DEF files, locks
<1>1. /\ Typed /\ WrittenInv /\ job[p] \in Job /\ JobInv(p)
      /\ job[p].pc \in Committing <=> lock = p
      /\ job[p].pc \notin {"idle", "lease"} <=> lease = p
  BY DEF Inv, TypeOK, Typed
<1>2. /\ Load(p) => memory' \in [Proc -> Attempt]
      /\ UNCHANGED memory => memory' \in [Proc -> Attempt]
  BY <1>1, LoadTyped DEF Typed
<1>3. UNCHANGED <<written, clock, status>> => WrittenInv'
  BY <1>1 DEF WrittenInv, StatusIsNotAhead
(* Only the refresh's own place changes, not its attempt.                  *)
<1>4. ASSUME NEW pc, job' = [job EXCEPT ![p].pc = pc],
             pc \in {"reload", "catalog", "connections", "status"}
      PROVE  /\ job' \in [Proc -> Job] /\ job'[p].pc = pc /\ job'[p].attempt = job[p].attempt
             /\ \A q \in Proc \ {p} : job'[q] = job[q]
  BY <1>1, <1>4 DEF Typed, Job
<1>5. CASE TakeLease(p)
  <2>1. lock # p
    BY <1>1, <1>5 DEF TakeLease, Committing
  <2>2. /\ job' \in [Proc -> Job] /\ job'[p].pc = "reload"
        /\ \A q \in Proc \ {p} : job'[q] = job[q]
    BY <1>4, <1>5 DEF TakeLease
  <2>3. JobInv(p)'
    BY <2>2 DEF JobInv
  <2> QED
    BY <1>1, <1>2, <1>3, <1>5, <2>1, <2>2, <2>3, ProceedStep DEF TakeLease, Typed, Committing
<1>6. CASE LeaseBusy(p)
  BY <1>1, <1>2, <1>3, <1>6, SettleStep DEF LeaseBusy, Typed
<1>7. CASE ReloadBusy(p)
  BY <1>1, <1>2, <1>3, <1>7, SettleStep DEF ReloadBusy, Typed, Committing
<1>8. CASE Decide(p)
  <2>1. lock # p /\ lease = p
    BY <1>1, <1>8 DEF Decide
  <2>2. CASE Settle(p, TRUE) /\ lease' = Free /\ UNCHANGED clock
    BY <1>1, <1>2, <1>3, <1>8, <2>1, <2>2, SettleStep DEF Decide, Typed
  <2>3. CASE /\ clock' = clock + 1 /\ UNCHANGED <<lease, tab>>
             /\ job' = [job EXCEPT ![p].pc = "discover", ![p].attempt = clock']
    <3>1. clock' \in Attempt /\ clock < clock'
      BY <1>1, <2>3 DEF Typed, Attempt
    <3>2. /\ job' \in [Proc -> Job] /\ job'[p].pc = "discover" /\ job'[p].attempt = clock'
          /\ \A q \in Proc \ {p} : job'[q] = job[q]
      BY <1>1, <2>3, <3>1 DEF Typed, Job
    <3>3. WrittenInv'
      BY <1>1, <1>8, <3>1 DEF Decide, WrittenInv, StatusIsNotAhead, Typed, Status, Attempt
    <3>4. JobInv(p)'
      BY <3>2 DEF JobInv
    <3> QED
      BY <1>1, <1>2, <1>8, <2>1, <2>3, <3>1, <3>2, <3>3, <3>4, ProceedStep
         DEF Decide, Typed, Committing
  <2> QED
    BY <1>8, <2>2, <2>3 DEF Decide
<1>9. CASE Discover(p)
  <2>1. lock # p /\ lease = p
    BY <1>1, <1>9 DEF Discover, Committing
  <2>2. PICK complete \in BOOLEAN, priced \in BOOLEAN, found \in {live, None} :
          job' = [job EXCEPT ![p].pc = "commit", ![p].found = found,
                             ![p].complete = complete, ![p].priced = priced]
    BY <1>9 DEF Discover
  <2>3. /\ job' \in [Proc -> Job] /\ job'[p].pc = "commit"
        /\ job'[p].attempt = job[p].attempt
        /\ \A q \in Proc \ {p} : job'[q] = job[q]
    <3> DEFINE new == [job[p] EXCEPT !.pc = "commit", !.found = found,
                                     !.complete = complete, !.priced = priced]
    <3>1. found \in Route
      BY <1>1 DEF Typed, Route
    <3>2. new \in Job /\ new.pc = "commit" /\ new.attempt = job[p].attempt
      BY <1>1, <3>1 DEF Job
    <3>3. job' = [job EXCEPT ![p] = new]
      BY <2>2
    <3>4. job \in [Proc -> Job]
      BY <1>1 DEF Typed
    <3> HIDE DEF new
    <3> QED
      BY <3>2, <3>3, <3>4
  <2>4. JobInv(p)'
    BY <1>1, <1>9, <2>3 DEF Discover, JobInv
  <2> QED
    BY <1>1, <1>2, <1>3, <1>9, <2>1, <2>3, <2>4, ProceedStep DEF Discover, Typed, Committing
<1>10. CASE LockForCommit(p)
  <2>1. lease = p /\ job[p].attempt = clock
    BY <1>1, <1>10 DEF LockForCommit, JobInv
  <2> QED
    BY <1>1, <1>2, <1>3, <1>4, <1>10, <2>1, ProceedStep
       DEF LockForCommit, Typed, JobInv, Committing
<1>11. CASE CommitBusy(p)
  BY <1>1, <1>2, <1>3, <1>11, SettleStep DEF CommitBusy, Typed, Committing
<1>12. CASE WriteCatalog(p)
  <2>1. lock = p /\ lease = p /\ job[p].attempt = clock
    BY <1>1, <1>12 DEF WriteCatalog, Committing, JobInv
  <2>2. catalog' \in Catalog
    BY <1>1, <1>12 DEF WriteCatalog, Typed, Catalog, Job
  <2>3. /\ written' \in [catalog : Attempt, connections : Attempt]
        /\ written'.catalog = clock /\ written'.connections = written.connections
    BY <1>1, <1>12, <2>1 DEF WriteCatalog, Typed
  <2>4. WrittenInv'
    BY <1>1, <1>12, <2>3 DEF WriteCatalog, WrittenInv, StatusIsNotAhead, Typed, Attempt, Status
  <2>5. job'[p].pc = "connections" /\ JobInv(p)'
    <3>1. job' = [job EXCEPT ![p].pc = "connections"] /\ clock' = clock
      BY <1>12 DEF WriteCatalog
    <3>2. job'[p].pc = "connections" /\ job'[p].attempt = job[p].attempt
      BY <1>4, <3>1
    <3> QED
      BY <2>1, <2>3, <3>1, <3>2 DEF JobInv
  <2> QED
    BY <1>1, <1>2, <1>4, <1>12, <2>1, <2>2, <2>3, <2>4, <2>5, ProceedStep
       DEF WriteCatalog, Typed, Committing
<1>13. CASE WriteConnections(p)
  <2>1. /\ lock = p /\ lease = p /\ job[p].attempt = clock /\ written.catalog = clock
    BY <1>1, <1>13 DEF WriteConnections, Committing, JobInv
  <2>2. connections' \in Route
    BY <1>1, <1>13 DEF WriteConnections, Typed, Job
  <2>3. /\ written' \in [catalog : Attempt, connections : Attempt]
        /\ written'.connections = clock /\ written'.catalog = written.catalog
    BY <1>1, <1>13, <2>1 DEF WriteConnections, Typed
  <2>4. WrittenInv'
    BY <1>1, <1>13, <2>1, <2>3
       DEF WriteConnections, WrittenInv, StatusIsNotAhead, Typed, Attempt, Status
  <2>5. job'[p].pc = "status" /\ JobInv(p)'
    BY <1>4, <1>13, <2>1, <2>3 DEF WriteConnections, JobInv
  <2> QED
    BY <1>1, <1>2, <1>4, <1>13, <2>1, <2>2, <2>3, <2>4, <2>5, ProceedStep
       DEF WriteConnections, Typed, Committing
<1>14. CASE WriteStatus(p)
  <2>1. /\ lock = p /\ lease = p /\ job[p].attempt = clock
        /\ written.catalog = clock /\ written.connections = clock
    BY <1>1, <1>14 DEF WriteStatus, Committing, JobInv
  <2>2. /\ status' \in Status
        /\ status'.attempted = clock
        /\ status'.discovered \in {clock, status.discovered}
        /\ status'.succeeded \in {clock, status.succeeded}
    BY <1>1, <1>14, <2>1 DEF WriteStatus, Typed, Status
  <2>3. memory' \in [Proc -> Attempt] /\ aged' \in BOOLEAN
    BY <1>1, <1>14, <2>2 DEF WriteStatus, Typed, Status
  <2>4. WrittenInv'
    BY <1>1, <1>14, <2>1, <2>2
       DEF WriteStatus, WrittenInv, StatusIsNotAhead, Typed, Attempt, Status
  <2> QED
    BY <1>14, <2>1, <2>2, <2>3, <2>4, SettleStep DEF WriteStatus
<1>15. CASE RefreshFails(p)
  <2>1. lock = p /\ lease = p /\ job[p].pc # "idle"
    BY <1>1, <1>15 DEF RefreshFails, Committing
  <2>2. memory' \in [Proc -> Attempt]
    BY <1>1, <1>15 DEF RefreshFails, Typed, Job
  <2> QED
    BY <1>1, <1>3, <1>15, <2>1, <2>2, SettleStep DEF RefreshFails, Typed
<1> QED
  BY <1>5, <1>6, <1>7, <1>8, <1>9, <1>10, <1>11, <1>12, <1>13, <1>14, <1>15 DEF RefreshStep

LEMMA CrashStep == ASSUME Inv, NEW p \in Proc, Crash(p) PROVE Inv'
<1> USE StoreAssumption DEF Crash, files
<1>1. /\ job' \in [Proc -> Job] /\ job'[p].pc = "idle"
      /\ \A q \in Proc \ {p} : job'[q] = job[q]
  BY DEF Inv, TypeOK, Typed, Job, IdleJob, Route, Attempt
<1>2. ASSUME NEW t \in Tab
      PROVE  /\ tab'[t] \in Request
             /\ PanelOf[t] = p => tab'[t].pc = "idle"
             /\ PanelOf[t] # p => tab'[t] = tab[t]
  <2>1. tab[t] \in Request
    BY DEF Inv, TypeOK, Typed
  <2>2. CASE PanelOf[t] = p
    <3>1. tab'[t] = [tab[t] EXCEPT !.pc = "idle", !.draft = Defaults]
      BY <2>2
    <3> QED
      BY <2>1, <2>2, <3>1, LoadedTyped DEF Request
  <2>3. CASE PanelOf[t] # p
    BY <2>1, <2>3
  <2> QED
    BY <2>2, <2>3
<1>3. tab' \in [Tab -> Request]
  BY <1>2
<1>4. Typed'
  BY <1>1, <1>3 DEF Inv, TypeOK, Typed
<1>5. ASSUME NEW t \in Tab PROVE tab'[t].pc \in Saving <=> lock' = t
  <2>1. CASE PanelOf[t] = p
    BY <1>2, <2>1 DEF Inv, TypeOK, Saving
  <2>2. CASE PanelOf[t] # p
    <3>1. tab'[t] = tab[t] /\ (tab[t].pc \in Saving <=> lock = t)
      BY <1>2, <2>2 DEF Inv, TypeOK
    <3>2. lock' = t <=> lock = t
      BY <2>2
    <3> QED
      BY <3>1, <3>2
  <2> QED
    BY <2>1, <2>2
<1>6. ASSUME NEW q \in Proc PROVE job'[q].pc \in Committing <=> lock' = q
  <2>1. job[q].pc \in Committing <=> lock = q
    BY DEF Inv, TypeOK
  <2>2. q \notin Tab /\ q # Free
    OBVIOUS
  <2>3. lock' = IF lock = p \/ lock \in {t \in Tab : PanelOf[t] = p} THEN Free ELSE lock
    OBVIOUS
  <2>4. CASE q = p
    BY <1>1, <2>2, <2>3, <2>4 DEF Committing
  <2>5. CASE q # p
    BY <1>1, <2>1, <2>2, <2>3, <2>5
  <2> QED
    BY <2>4, <2>5
<1>7. \A q \in Proc : job'[q].pc \notin {"idle", "lease"} <=> lease' = q
  BY <1>1 DEF Inv, TypeOK
<1>8. ASSUME NEW t \in Tab PROVE SaveInv(t)'
  BY <1>2 DEF Inv, SaveInv, Acceptable
<1>9. ASSUME NEW q \in Proc PROVE JobInv(q)'
  BY <1>1 DEF Inv, JobInv
<1> QED
  BY <1>4, <1>5, <1>6, <1>7, <1>8, <1>9 DEF Inv, TypeOK, WrittenInv, StatusIsNotAhead

LEMMA InvStep == Inv /\ [Next]_vars => Inv'
<1> SUFFICES ASSUME Inv, [Next]_vars PROVE Inv'
  OBVIOUS
<1>1. CASE UNCHANGED vars
  BY <1>1, QuietStep DEF vars, files, locks, Inv, TypeOK, Typed
<1>2. CASE Next
  BY <1>2, ReadStep, LookStep, SaveStepInv, ConnectStep, BeginStep, RefreshStepInv, CrashStep
     DEF Next
<1> QED
  BY <1>1, <1>2

LEMMA InvAlways == Spec => []Inv
BY InvInit, InvStep, PTL DEF Spec

(***************************************************************************)
(* The theorems.                                                           *)
(***************************************************************************)

(* Everything has its type, and the lock and the lease are with the one    *)
(* request that has come to the part that needs them (withStateLock,       *)
(* withRefreshLease).                                                      *)
THEOREM TypeCorrect == Spec => []TypeOK
<1>1. Inv => TypeOK
  BY DEF Inv
<1> QED
  BY <1>1, InvAlways, PTL

(* commitRefresh writes the status last: no status tells of an attempt     *)
(* whose catalog or connections a crash or a failed write kept from disk.  *)
THEOREM StatusFollows == Spec => []StatusIsNotAhead
<1>1. Inv => StatusIsNotAhead
  BY DEF Inv, WrittenInv
<1> QED
  BY <1>1, InvAlways, PTL

(* Without a crash or a failure the two files are written one after the    *)
(* other under the lock, and no other step writes either.                  *)
LEMMA AgreeStep ==
  ASSUME ~MayCrash, ~MayFail, Inv, AgreeInv, [Next]_vars
  PROVE  AgreeInv'
<1> USE StoreAssumption
<1>1. ASSUME NEW p \in Proc
      PROVE  job[p] \in Job /\ (job[p].pc \in Committing <=> lock = p)
  BY DEF Inv, TypeOK, Typed
(* A step that writes neither, and leaves every refresh at the same        *)
(* distance from writing the connections.                                  *)
<1>2. ASSUME UNCHANGED <<catalog, connections>>,
             \A p \in Proc : /\ job'[p].pc = "connections" <=> job[p].pc = "connections"
                             /\ job[p].pc = "connections" =>
                                  /\ job'[p].found = job[p].found
                                  /\ job'[p].complete = job[p].complete
      PROVE  AgreeInv'
  BY <1>2 DEF AgreeInv, Committed
<1>3. ASSUME NEW p \in Proc, job[p].pc # "connections", job'[p].pc # "connections",
             \A q \in Proc \ {p} : job'[q] = job[q], UNCHANGED <<catalog, connections>>
      PROVE  AgreeInv'
  BY <1>2, <1>3
<1>4. CASE UNCHANGED vars
  BY <1>2, <1>4 DEF vars, files
<1>5. ASSUME NEW t \in Tab, Look(t) \/ BeginSave(t) \/ SaveStep(t) PROVE AgreeInv'
  BY <1>2, <1>5 DEF Look, BeginSave, SaveStep, LockForSave, SaveBusy, CheckSave, CompareSave,
       RenameSave, AnswerSave, SaveFails, EndSave, files
<1>6. ASSUME NEW p \in Proc, job' = [job EXCEPT ![p] = StartedJob(p, TRUE)]
                               \/ job' = [job EXCEPT ![p] = StartedJob(p, FALSE)],
             job[p].pc = "idle", UNCHANGED files
      PROVE  AgreeInv'
  <2>1. job'[p].pc = "lease" /\ \A q \in Proc \ {p} : job'[q] = job[q]
    <3>1. PICK b \in BOOLEAN : job' = [job EXCEPT ![p] = StartedJob(p, b)]
      BY <1>6
    <3>2. StartedJob(p, b).pc = "lease"
      BY DEF StartedJob, IdleJob
    <3> QED
      BY <3>1, <3>2 DEF Inv, TypeOK, Typed
  <2> QED
    BY <1>3, <1>6, <2>1 DEF files
<1>7. ASSUME NEW t \in Tab, ClickRefresh(t) PROVE AgreeInv'
  <2>1. CASE job[PanelOf[t]].pc = "idle"
    BY <1>6, <1>7, <2>1 DEF ClickRefresh
  <2>2. CASE job[PanelOf[t]].pc # "idle"
    BY <1>2, <1>7, <2>2 DEF ClickRefresh, files
  <2> QED
    BY <2>1, <2>2
<1>8. ASSUME NEW p \in Proc, Reload(p) \/ Connect(p) \/ TimerRefresh(p) \/ Start(p)
      PROVE  AgreeInv'
  BY <1>2, <1>6, <1>8 DEF Reload, Connect, TimerRefresh, Start, files
<1>9. ASSUME NEW p \in Proc, RefreshStep(p) PROVE AgreeInv'
  <2>1. ASSUME NEW loaded \in BOOLEAN, Settle(p, loaded)
        PROVE  job'[p].pc = "idle" /\ \A q \in Proc \ {p} : job'[q] = job[q]
    BY <2>1 DEF Settle, Inv, TypeOK, Typed, IdleJob
  <2>2. CASE TakeLease(p)
    <3>1. job'[p].pc = "reload" /\ \A q \in Proc \ {p} : job'[q] = job[q]
      BY <2>2 DEF TakeLease, Inv, TypeOK, Typed, Job
    <3> QED
      BY <1>3, <2>2, <3>1 DEF TakeLease, files
  <2>3. CASE LeaseBusy(p) \/ ReloadBusy(p) \/ CommitBusy(p) \/ WriteStatus(p)
    BY <1>3, <2>1, <2>3 DEF LeaseBusy, ReloadBusy, CommitBusy, WriteStatus, files
  <2>4. CASE Decide(p)
    <3>1. job[p].pc = "reload" /\ UNCHANGED files
      BY <2>4 DEF Decide
    <3>2. Settle(p, TRUE)
            \/ job' = [job EXCEPT ![p].pc = "discover", ![p].attempt = clock']
      BY <2>4 DEF Decide
    <3>3. job'[p].pc \in {"idle", "discover"} /\ \A q \in Proc \ {p} : job'[q] = job[q]
      <4>1. CASE Settle(p, TRUE)
        BY <2>1, <4>1
      <4>2. CASE job' = [job EXCEPT ![p].pc = "discover", ![p].attempt = clock']
        BY <4>2 DEF Inv, TypeOK, Typed, Job
      <4> QED
        BY <3>2, <4>1, <4>2
    <3> QED
      BY <1>3, <3>1, <3>3 DEF files
  <2>5. CASE Discover(p)
    <3>1. PICK complete \in BOOLEAN, priced \in BOOLEAN, found \in {live, None} :
            job' = [job EXCEPT ![p].pc = "commit", ![p].found = found,
                               ![p].complete = complete, ![p].priced = priced]
      BY <2>5 DEF Discover
    <3>2. job'[p].pc = "commit" /\ \A q \in Proc \ {p} : job'[q] = job[q]
      BY <3>1 DEF Inv, TypeOK, Typed, Job
    <3> QED
      BY <1>3, <2>5, <3>2 DEF Discover, files
  <2>6. CASE LockForCommit(p)
    <3>1. job'[p].pc = "catalog" /\ \A q \in Proc \ {p} : job'[q] = job[q]
      BY <2>6 DEF LockForCommit, Inv, TypeOK, Typed, Job
    <3> QED
      BY <1>3, <2>6, <3>1 DEF LockForCommit, files
  <2>7. CASE WriteCatalog(p)
    <3>1. /\ job'[p].pc = "connections" /\ job'[p].found = job[p].found
          /\ job'[p].complete = job[p].complete
          /\ \A q \in Proc \ {p} : job'[q] = job[q]
      BY <2>7 DEF WriteCatalog, Inv, TypeOK, Typed, Job
    <3>2. lock = p /\ job[p].pc = "catalog"
      BY <1>1, <2>7 DEF WriteCatalog, Committing
    <3>3. \A q \in Proc : job[q].pc # "connections"
      BY <1>1, <3>2 DEF Committing
    <3>4. catalog.available => connections = catalog.endpoint
      BY <3>3 DEF AgreeInv
    <3>5. catalog'.available => Committed(job[p]) = catalog'.endpoint
      BY <2>7, <3>4 DEF WriteCatalog, Committed, Inv, TypeOK, Typed, Catalog
    <3> QED
      BY <2>7, <3>1, <3>3, <3>5 DEF WriteCatalog, AgreeInv, Committed
  <2>8. CASE WriteConnections(p)
    <3>1. job'[p].pc = "status" /\ \A q \in Proc \ {p} : job'[q] = job[q]
      BY <2>8 DEF WriteConnections, Inv, TypeOK, Typed, Job
    <3>2. lock = p /\ job[p].pc = "connections"
      BY <1>1, <2>8 DEF WriteConnections, Committing
    <3>3. \A q \in Proc \ {p} : job[q].pc # "connections"
      BY <1>1, <3>2 DEF Committing
    <3>4. connections' = Committed(job[p]) /\ UNCHANGED catalog
      BY <2>8 DEF WriteConnections, Committed
    <3> QED
      BY <3>1, <3>2, <3>3, <3>4 DEF AgreeInv
  <2> QED
    BY <1>9, <2>2, <2>3, <2>4, <2>5, <2>6, <2>7, <2>8 DEF RefreshStep, RefreshFails
<1> QED
  BY <1>2, <1>4, <1>5, <1>7, <1>8, <1>9 DEF Next, HostChanges, Age, Crash, files

(* commitRefresh writes the catalog and the connections one after the      *)
(* other under the lock: where no process dies between the two writes and  *)
(* none of them fails, whoever reads under the lock finds a pinned model   *)
(* offered only at the route it was pinned to.                             *)
THEOREM StoredRoute ==
  ASSUME ~MayCrash, ~MayFail
  PROVE  Spec => []StoredRouteIsReviewed
<1>1. Init => AgreeInv
  BY DEF Init, AgreeInv, IdleJob
<1>2. Inv /\ AgreeInv /\ [Next]_vars => AgreeInv'
  BY AgreeStep
<1>3. Inv /\ AgreeInv => StoredRouteIsReviewed
  <2> SUFFICES ASSUME Inv, AgreeInv, lock = Free, Offered(Loaded(settings).pin, catalog, connections)
               PROVE  catalog.endpoint = Loaded(settings).pin
    BY DEF StoredRouteIsReviewed, Reviewed
  <2>1. \A p \in Proc : job[p].pc # "connections"
    BY StoreAssumption DEF Inv, TypeOK, Committing
  <2> QED
    BY <2>1 DEF AgreeInv, Offered
<1> QED
  BY <1>1, <1>2, <1>3, InvAlways, PTL DEF Spec

(* Under the refresh lease no attempt overwrites the status of a later one.*)
THEOREM FreshnessAdvances == Spec => FreshnessOnlyAdvances
<1>1. Inv /\ [Next]_vars =>
        [/\ status'.attempted >= status.attempted
         /\ status'.discovered >= status.discovered
         /\ status'.succeeded >= status.succeeded]_status
  <2> SUFFICES ASSUME Inv, [Next]_vars, status' # status
               PROVE  /\ status'.attempted >= status.attempted
                      /\ status'.discovered >= status.discovered
                      /\ status'.succeeded >= status.succeeded
    OBVIOUS
  <2>1. PICK p \in Proc : WriteStatus(p)
    <3> USE DEF files
    <3>1. ASSUME NEW t \in Tab, Look(t) \/ BeginSave(t) \/ ClickRefresh(t) PROVE FALSE
      BY <3>1 DEF Look, BeginSave, ClickRefresh
    <3>2. ASSUME NEW t \in Tab, SaveStep(t) PROVE FALSE
      <4>1. ~(LockForSave(t) \/ SaveBusy(t) \/ CheckSave(t) \/ CompareSave(t))
        BY DEF LockForSave, SaveBusy, CheckSave, CompareSave
      <4>2. ~(RenameSave(t) \/ AnswerSave(t) \/ SaveFails(t))
        BY DEF RenameSave, AnswerSave, SaveFails
      <4> QED
        BY <3>2, <4>1, <4>2 DEF SaveStep
    <3>3. ASSUME NEW q \in Proc, Reload(q) \/ Connect(q) \/ TimerRefresh(q) PROVE FALSE
      BY <3>3 DEF Reload, Connect, TimerRefresh
    <3>4. ASSUME NEW q \in Proc, RefreshStep(q) PROVE WriteStatus(q)
      <4>1. ~(TakeLease(q) \/ LeaseBusy(q) \/ ReloadBusy(q) \/ Decide(q) \/ Discover(q))
        BY DEF TakeLease, LeaseBusy, ReloadBusy, Decide, Discover
      <4>2. ~(LockForCommit(q) \/ CommitBusy(q) \/ WriteCatalog(q))
        BY DEF LockForCommit, CommitBusy, WriteCatalog
      <4>3. ~(WriteConnections(q) \/ RefreshFails(q))
        BY DEF WriteConnections, RefreshFails
      <4> QED
        BY <3>4, <4>1, <4>2, <4>3 DEF RefreshStep
    <3>5. ASSUME NEW q \in Proc, Crash(q) \/ Start(q) PROVE FALSE
      BY <3>5 DEF Crash, Start
    <3>6. ~(HostChanges \/ Age) /\ ~UNCHANGED vars
      BY DEF HostChanges, Age, vars
    <3> HIDE DEF files
    <3> QED
      BY <3>1, <3>2, <3>3, <3>4, <3>5, <3>6 DEF Next
  <2>2. job[p].attempt = clock
    BY <2>1 DEF WriteStatus, Inv, JobInv
  <2>3. /\ status \in Status /\ clock \in Nat /\ status.attempted <= clock
        /\ status.discovered <= clock /\ status.succeeded <= clock
    BY DEF Inv, TypeOK, Typed, WrittenInv, StatusIsNotAhead, Attempt, Status
  <2> QED
    BY <2>1, <2>2, <2>3 DEF WriteStatus, Status, Attempt
<1> QED
  BY <1>1, InvAlways, PTL DEF Spec, FreshnessOnlyAdvances

(* No other step changes the settings of an installation that has any.     *)
LEMMA SettingsWriters ==
  ASSUME Inv, Next, settings' # settings
  PROVE  \/ \E t \in Tab : RenameSave(t)
         \/ settings = Absent /\ \E p \in Proc : Connect(p)
<1> USE DEF files
<1>1. ASSUME NEW t \in Tab, Look(t) \/ BeginSave(t) \/ ClickRefresh(t) PROVE FALSE
  BY <1>1 DEF Look, BeginSave, ClickRefresh
<1>2. ASSUME NEW t \in Tab, SaveStep(t) PROVE RenameSave(t)
  <2>1. ~(LockForSave(t) \/ SaveBusy(t) \/ CheckSave(t) \/ CompareSave(t))
    BY DEF LockForSave, SaveBusy, CheckSave, CompareSave
  <2>2. ~(AnswerSave(t) \/ SaveFails(t))
    BY DEF AnswerSave, SaveFails
  <2> QED
    BY <1>2, <2>1, <2>2 DEF SaveStep
<1>3. ASSUME NEW p \in Proc, Reload(p) \/ TimerRefresh(p) \/ Crash(p) \/ Start(p) PROVE FALSE
  BY <1>3 DEF Reload, TimerRefresh, Crash, Start
<1>4. ASSUME NEW p \in Proc, Connect(p) PROVE settings = Absent
  BY <1>4 DEF Connect, Loaded
<1>5. ASSUME NEW p \in Proc, RefreshStep(p) PROVE FALSE
  <2>1. ~(TakeLease(p) \/ LeaseBusy(p) \/ ReloadBusy(p) \/ Decide(p) \/ Discover(p))
    BY DEF TakeLease, LeaseBusy, ReloadBusy, Decide, Discover
  <2>2. ~(LockForCommit(p) \/ CommitBusy(p) \/ WriteCatalog(p))
    BY DEF LockForCommit, CommitBusy, WriteCatalog
  <2>3. ~(WriteConnections(p) \/ WriteStatus(p) \/ RefreshFails(p))
    BY DEF WriteConnections, WriteStatus, RefreshFails
  <2> QED
    BY <1>5, <2>1, <2>2, <2>3 DEF RefreshStep
<1>6. ~(HostChanges \/ Age)
  BY DEF HostChanges, Age
<1> HIDE DEF files
<1> QED
  BY <1>1, <1>2, <1>3, <1>4, <1>5, <1>6 DEF Next

(* updateSettings: what was checked of the pin under the lock still holds  *)
(* at the rename.                                                          *)
THEOREM PinIsCurrent == Spec => PinIsCurrentWhenSaved
<1>1. Inv /\ [Next]_vars =>
        [settings' # settings /\ settings'.pin \notin {Unpinned, Loaded(settings).pin} =>
           settings'.pin = connections /\ catalog.available]_vars
  <2> SUFFICES ASSUME Inv, Next, settings' # settings,
                      settings'.pin \notin {Unpinned, Loaded(settings).pin}
               PROVE  settings'.pin = connections /\ catalog.available
    OBVIOUS
  <2>1. CASE \E t \in Tab : RenameSave(t)
    <3>1. PICK t \in Tab : RenameSave(t)
      BY <2>1
    <3> QED
      BY <3>1 DEF RenameSave, Inv, SaveInv, Acceptable
  <2>2. CASE settings = Absent /\ \E p \in Proc : Connect(p)
    BY <2>2 DEF Connect, Loaded
  <2> QED
    BY <2>1, <2>2, SettingsWriters
<1> QED
  BY <1>1, InvAlways, PTL DEF Spec, PinIsCurrentWhenSaved

(* The base of every tab, and how each step changes it.                    *)
LEMMA Views ==
  ASSUME Inv, [Next]_vars, UNCHANGED settings
  PROVE  \E group \in SUBSET Tab : \A t \in Tab :
           tab'[t].base = IF t \in group THEN settings ELSE tab[t].base
<1> SUFFICES \A t \in Tab : tab'[t].base \in {settings, tab[t].base}
  <2> DEFINE g == {t \in Tab : tab'[t].base = settings}
  <2>1. g \in SUBSET Tab
    OBVIOUS
  <2> QED
    BY <2>1
<1> SUFFICES ASSUME NEW u \in Tab PROVE tab'[u].base \in {settings, tab[u].base}
  OBVIOUS
<1> USE DEF Inv, TypeOK, Typed
<1>1. tab[u] \in Request
  OBVIOUS
<1>2. ASSUME NEW p \in Proc, NEW b \in BOOLEAN, Settle(p, b)
      PROVE  tab'[u].base \in {settings, tab[u].base}
  <2>1. CASE PanelOf[u] # p \/ tab[u].pc # "await"
    BY <1>2, <2>1 DEF Settle
  <2>2. CASE PanelOf[u] = p /\ tab[u].pc = "await"
    <3>1. tab'[u] = [tab[u] EXCEPT !.pc = "idle",
                       !.base = IF b THEN settings ELSE @,
                       !.route = IF b THEN connections ELSE @]
      BY <1>2, <2>2 DEF Settle
    <3> QED
      BY <1>1, <3>1 DEF Request
  <2> QED
    BY <2>1, <2>2
<1>3. ASSUME NEW t \in Tab, Look(t) \/ BeginSave(t) \/ ClickRefresh(t) \/ SaveStep(t)
      PROVE  tab'[u].base \in {settings, tab[u].base}
  <2>1. CASE u # t
    BY <1>3, <2>1 DEF Look, BeginSave, ClickRefresh, SaveStep, LockForSave, SaveBusy, CheckSave,
                CompareSave, RenameSave, AnswerSave, SaveFails, EndSave
  <2>2. CASE Look(u)
    BY <1>1, <2>2 DEF Look, Request
  <2>3. CASE BeginSave(u)
    BY <1>1, <2>3 DEF BeginSave, Request
  <2>4. CASE ClickRefresh(u)
    BY <1>1, <2>4 DEF ClickRefresh, Request
  <2>5. CASE LockForSave(u) \/ SaveBusy(u) \/ CompareSave(u) \/ RenameSave(u)
    BY <1>1, <2>5 DEF LockForSave, SaveBusy, CompareSave, RenameSave, EndSave, Request
  <2>6. CASE CheckSave(u) \/ AnswerSave(u) \/ SaveFails(u)
    BY <1>1, <2>6 DEF CheckSave, AnswerSave, SaveFails, EndSave, Request
  <2> QED
    BY <1>3, <2>1, <2>2, <2>3, <2>4, <2>5, <2>6 DEF SaveStep
<1>4. ASSUME NEW p \in Proc, RefreshStep(p) PROVE tab'[u].base \in {settings, tab[u].base}
  BY <1>2, <1>4 DEF RefreshStep, TakeLease, LeaseBusy, ReloadBusy, Decide, Discover,
       LockForCommit, CommitBusy, WriteCatalog, WriteConnections, WriteStatus, RefreshFails
<1>5. ASSUME NEW p \in Proc, Crash(p) PROVE tab'[u].base \in {settings, tab[u].base}
  <2>1. tab'[u] \in {tab[u], [tab[u] EXCEPT !.pc = "idle", !.draft = Defaults]}
    BY <1>5 DEF Crash
  <2> QED
    BY <1>1, <2>1 DEF Request
<1> QED
  BY <1>3, <1>4, <1>5 DEF Next, vars, Reload, Connect, TimerRefresh, Start, HostChanges, Age

(* Saving implements SettingsRegister: RenameSave is its Save, the first   *)
(* Connect its WriteDefault, and every answer a Look.                      *)
THEOREM SavingIsCompareAndSet == Spec => SavesAreCompareAndSet
<1> DEFINE view == [t \in Tab |-> tab[t].base]
<1>1. Init => Register!Init
  BY DEF Init, Register!Init
<1>2. Inv /\ [Next]_vars => [Register!Next]_<<settings, view>>
  <2> SUFFICES ASSUME Inv, [Next]_vars
               PROVE  Register!Next \/ UNCHANGED <<settings, view>>
    OBVIOUS
  <2>1. CASE UNCHANGED settings
    <3>1. PICK group \in SUBSET Tab : \A t \in Tab :
            tab'[t].base = IF t \in group THEN settings ELSE tab[t].base
      BY <2>1, Views
    <3>2. Register!Look(group)
      BY <2>1, <3>1 DEF Register!Look
    <3> QED
      BY <3>2 DEF Register!Next
  <2>2. CASE \E t \in Tab : RenameSave(t)
    <3>1. PICK t \in Tab : RenameSave(t)
      BY <2>2
    <3>2. settings' \in Value /\ \A u \in Tab : tab'[u].base = tab[u].base
      BY <3>1 DEF RenameSave, Inv, TypeOK, Typed, Request
    <3>3. tab[t].base = settings
      BY <3>1 DEF RenameSave, Inv, SaveInv, Acceptable
    <3>4. Register!Save(t)
      BY <3>2, <3>3 DEF Register!Save
    <3> QED
      BY <3>4 DEF Register!Next
  <2>3. CASE settings = Absent /\ \E p \in Proc : Connect(p)
    BY <2>3 DEF Connect, Loaded, Register!Next, Register!WriteDefault
  <2> QED
    BY <2>1, <2>2, <2>3, SettingsWriters DEF vars, files
<1> QED
  BY <1>1, <1>2, InvAlways, PTL DEF Spec, SavesAreCompareAndSet, Register!Spec
=============================================================================
