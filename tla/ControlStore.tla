---------------------------- MODULE ControlStore ----------------------------
(***************************************************************************)
(* The local state that the panel and the MCP servers share: settings,     *)
(* catalog snapshot, connections and refresh status, four files that       *)
(* service.js and the stores read and write under one state lock, and the  *)
(* catalog refresh that a lease serialises across processes.               *)
(*                                                                         *)
(* The state lock and the refresh lease are the mutex of Mutex.tla, which  *)
(* FileLock implements; a holder that dies loses them.  One provider       *)
(* serves one model: its route is the endpoint a saved pin is bound to.    *)
(* Revisions are content hashes, so they are equal when contents are.      *)
(* Each write of a file is one step (a rename); between two of them the    *)
(* process may die or the write may fail.                                  *)
(***************************************************************************)
EXTENDS Naturals

CONSTANTS
  Proc,         (* the panel and the MCP servers                           *)
  Tab,          (* the editors: browser tabs of a panel                    *)
  PanelOf,      (* the process that serves a tab                           *)
  Endpoint,     (* what the provider's route may be                        *)
  Text,         (* all of the settings but the pinned model                *)
  Default,      (* the member of Text written for a new user               *)
  Unpinned,     (* no model is pinned                                      *)
  None,         (* no endpoint: the provider is not there                  *)
  Absent,       (* no settings file                                        *)
  Free,         (* nobody holds the lock                                   *)
  MaxAttempts,  (* bound on the refreshes begun                            *)
  MayCrash,     (* processes may die                                       *)
  MayFail       (* a write may fail, e.g. for lack of space                *)

ASSUME StoreAssumption ==
  /\ PanelOf \in [Tab -> Proc]
  /\ Default \in Text
  /\ {Unpinned, None} \cap Endpoint = {} /\ Unpinned # None
  /\ Free \notin Proc \cup Tab /\ Proc \cap Tab = {}
  /\ MaxAttempts \in Nat

VARIABLES
  lock,         (* settings.json.lock: the process refreshing, or the tab  *)
  lease,        (* settings.json.refresh-lease: the process refreshing     *)
  settings,     (* settings.json                                           *)
  catalog,      (* catalog-snapshot.json                                   *)
  connections,  (* connections.json: the route the connection is bound to  *)
  status,       (* catalog-refresh.json                                    *)
  written,      (* the attempts that last wrote catalog and connections    *)
  aged,         (* CATALOG_REFRESH_MS have passed since status.attempted   *)
  live,         (* the route OpenCode has for the provider                 *)
  memory,       (* the attempt of the status that each process has loaded   *)
  up,           (* the processes that run                                  *)
  job,          (* the refresh of each process: its one refreshPromise     *)
  tab,          (* each editor and its request                             *)
  clock         (* attempts so far; an attempt's number is its attemptedAt *)

files == <<settings, catalog, connections, status, written, aged>>
locks == <<lock, lease>>
vars == <<locks, files, live, memory, up, job, tab, clock>>

-----------------------------------------------------------------------------

Value == [text : Text, pin : Endpoint \cup {Unpinned}]
Defaults == [text |-> Default, pin |-> Unpinned]
Loaded(s) == IF s = Absent THEN Defaults ELSE s

Attempt == Nat
Route == Endpoint \cup {None}
Catalog == [endpoint : Route, available : BOOLEAN]
Status == [attempted : Attempt, discovered : Attempt, succeeded : Attempt]
IdleJob == [pc |-> "idle", staleOnly |-> FALSE, observed |-> 0, attempt |-> 0,
            found |-> None, complete |-> FALSE, priced |-> FALSE]

Job == [pc : {"idle", "lease", "reload", "discover", "commit", "catalog", "connections",
              "status"},
        staleOnly : BOOLEAN, observed : Attempt, attempt : Attempt,
        found : Route, complete : BOOLEAN, priced : BOOLEAN]
Request == [pc : {"idle", "lock", "check", "compare", "rename", "answer", "await"},
            base : Value \cup {Absent}, route : Route, draft : Value]

Saving == {"check", "compare", "rename", "answer"}
Committing == {"catalog", "connections", "status"}

Typed ==
  /\ lock \in Proc \cup Tab \cup {Free} /\ lease \in Proc \cup {Free}
  /\ settings \in Value \cup {Absent}
  /\ catalog \in Catalog /\ connections \in Route /\ status \in Status
  /\ written \in [catalog : Attempt, connections : Attempt]
  /\ aged \in BOOLEAN /\ live \in Route /\ up \subseteq Proc
  /\ memory \in [Proc -> Attempt]
  /\ job \in [Proc -> Job] /\ tab \in [Tab -> Request]
  /\ clock \in Attempt

(* Everything has its type, and a lock is held by someone who has reached  *)
(* the part of the request that needs it.                                  *)
TypeOK ==
  /\ Typed
  /\ \A t \in Tab : tab[t].pc \in Saving <=> lock = t
  /\ \A p \in Proc : job[p].pc \in Committing <=> lock = p
  /\ \A p \in Proc : job[p].pc \notin {"idle", "lease"} <=> lease = p

(* A new installation, or one whose last refresh, by a process before      *)
(* these, was complete.                                                    *)
Init ==
  /\ lock = Free /\ lease = Free
  /\ settings = Absent
  /\ connections \in Route
  /\ catalog = [endpoint |-> connections, available |-> connections # None]
  /\ clock = 1
  /\ LET last == IF connections = None THEN 0 ELSE 1 IN
     /\ status = [attempted |-> last, discovered |-> last, succeeded |-> last]
     /\ written = [catalog |-> last, connections |-> last]
  /\ aged = FALSE
  /\ live \in Endpoint
  /\ memory = [p \in Proc |-> status.attempted]
  /\ up = Proc
  /\ job = [p \in Proc |-> IdleJob]
  /\ tab = [t \in Tab |-> [pc |-> "idle", base |-> Absent, route |-> None,
                           draft |-> Defaults]]

-----------------------------------------------------------------------------
(* Reading.  A reader holds the state lock for all of it, so it is one     *)
(* step that needs the lock to be free.                                    *)

Load(p) == memory' = [memory EXCEPT ![p] = status.attempted]

Reload(p) ==
  /\ p \in up /\ lock = Free
  /\ Load(p)
  /\ UNCHANGED <<files, locks, live, up, job, tab, clock>>

(* GET /api/state: the tab starts its draft from what it sees.             *)
Look(t) ==
  /\ PanelOf[t] \in up /\ tab[t].pc = "idle" /\ lock = Free
  /\ Load(PanelOf[t])
  /\ tab' = [tab EXCEPT ![t].base = settings, ![t].route = connections]
  /\ UNCHANGED <<files, locks, live, up, job, clock>>

-----------------------------------------------------------------------------
(* PUT /api/settings: updateSettings.                                      *)

(* The draft keeps the pin, drops it, or pins the model to the connection  *)
(* the tab saw.                                                            *)
BeginSave(t) ==
  /\ PanelOf[t] \in up /\ tab[t].pc = "idle"
  /\ \E text \in Text, pin \in {Unpinned, Loaded(tab[t].base).pin, tab[t].route} \ {None} :
       tab' = [tab EXCEPT ![t].pc = "lock", ![t].draft = [text |-> text, pin |-> pin]]
  /\ UNCHANGED <<files, locks, live, memory, up, job, clock>>

(* Mutant: the save does not wait for the lock.                            *)
LockForSaveAnyway(t) ==
  /\ tab[t].pc = "lock"
  /\ lock' = t
  /\ tab' = [tab EXCEPT ![t].pc = "check"]
  /\ UNCHANGED <<lease, files, live, memory, up, job, clock>>

LockForSave(t) ==
  /\ tab[t].pc = "lock" /\ lock = Free
  /\ lock' = t
  /\ tab' = [tab EXCEPT ![t].pc = "check"]
  /\ UNCHANGED <<lease, files, live, memory, up, job, clock>>

(* STATE_BUSY: no lock within waitMs.                                      *)
SaveBusy(t) ==
  /\ tab[t].pc = "lock" /\ lock # Free
  /\ tab' = [tab EXCEPT ![t].pc = "idle", ![t].draft = Defaults]
  /\ UNCHANGED <<files, locks, live, memory, up, job, clock>>

(* Mutant: only the settings revision is compared.                         *)
AcceptableBySettings(t) == tab[t].base = settings

(* A changed pin needs the connection the tab saw to be the current one,   *)
(* and a new pin needs the model to be available over it.                  *)
Acceptable(t) ==
  LET draft == tab[t].draft IN
  /\ tab[t].base = settings
  /\ draft.pin # Loaded(settings).pin =>
       /\ tab[t].route = connections
       /\ draft.pin # Unpinned => catalog.available /\ draft.pin = connections

(* Mutant: a rejected save keeps the lock.                                 *)
EndSaveKeepingLock(t) ==
  /\ UNCHANGED lock
  /\ tab' = [tab EXCEPT ![t].pc = "idle", ![t].draft = Defaults]

EndSave(t) ==
  /\ lock' = Free
  /\ tab' = [tab EXCEPT ![t].pc = "idle", ![t].draft = Defaults]

CheckSave(t) ==
  /\ tab[t].pc = "check"
  /\ Load(PanelOf[t])
  /\ \/ /\ Acceptable(t)
        /\ tab' = [tab EXCEPT ![t].pc = "compare"]
        /\ UNCHANGED lock
     \/ ~Acceptable(t) /\ EndSave(t)
  /\ UNCHANGED <<lease, files, live, up, job, clock>>

(* writeSettings reads the file once more before it renames the new one    *)
(* over it.                                                                *)
CompareSave(t) ==
  /\ tab[t].pc = "compare"
  /\ IF tab[t].base = settings
     THEN tab' = [tab EXCEPT ![t].pc = "rename"] /\ UNCHANGED lock
     ELSE EndSave(t)
  /\ UNCHANGED <<lease, files, live, memory, up, job, clock>>

RenameSave(t) ==
  /\ tab[t].pc = "rename"
  /\ settings' = tab[t].draft
  /\ tab' = [tab EXCEPT ![t].pc = "answer"]
  /\ UNCHANGED <<locks, catalog, connections, status, written, aged, live, memory, up,
                 job, clock>>

(* The reload after the rename, the release and the response.              *)
AnswerSave(t) ==
  /\ tab[t].pc = "answer"
  /\ Load(PanelOf[t])
  /\ lock' = Free
  /\ tab' = [tab EXCEPT ![t] = [pc |-> "idle", base |-> settings, route |-> connections,
                                draft |-> Defaults]]
  /\ UNCHANGED <<lease, files, live, up, job, clock>>

SaveFails(t) ==
  /\ MayFail /\ tab[t].pc = "rename"
  /\ EndSave(t)
  /\ UNCHANGED <<lease, files, live, memory, up, job, clock>>

(* installOpenCodeIntegration writes the settings it has just read.        *)
Connect(p) ==
  /\ p \in up /\ lock = Free
  /\ settings' = Loaded(settings)
  /\ UNCHANGED <<locks, catalog, connections, status, written, aged, live, up, job,
                 tab, clock>>
  /\ Load(p)

-----------------------------------------------------------------------------
(* refreshCatalog.                                                         *)

StartedJob(p, staleOnly) ==
  [IdleJob EXCEPT !.pc = "lease", !.staleOnly = staleOnly,
                  !.observed = memory[p]]

(* The 15-minute timer, and the refresh of initialize.                     *)
TimerRefresh(p) ==
  /\ p \in up /\ job[p].pc = "idle" /\ clock < MaxAttempts
  /\ job' = [job EXCEPT ![p] = StartedJob(p, TRUE)]
  /\ UNCHANGED <<files, locks, live, memory, up, tab, clock>>

(* POST /api/catalog/refresh, "Update available models": a refresh that is *)
(* under way in the process answers this request too.                      *)
ClickRefresh(t) ==
  LET p == PanelOf[t] IN
  /\ p \in up /\ tab[t].pc = "idle" /\ clock < MaxAttempts
  /\ tab' = [tab EXCEPT ![t].pc = "await"]
  /\ job' = IF job[p].pc = "idle"
            THEN [job EXCEPT ![p] = StartedJob(p, FALSE)]
            ELSE job
  /\ UNCHANGED <<files, locks, live, memory, up, clock>>

(* The promise settles: every tab that awaits it gets the state, if it was *)
(* reloaded, or an error.                                                  *)
Settle(p, loaded) ==
  /\ job' = [job EXCEPT ![p] = IdleJob]
  /\ tab' = [t \in Tab |->
       IF PanelOf[t] # p \/ tab[t].pc # "await" THEN tab[t]
       ELSE [tab[t] EXCEPT !.pc = "idle",
               !.base = IF loaded THEN settings ELSE @,
               !.route = IF loaded THEN connections ELSE @]]

(* Mutant: the lease is not exclusive.                                     *)
TakeLeaseAnyway(p) ==
  /\ job[p].pc = "lease"
  /\ lease' = p
  /\ job' = [job EXCEPT ![p].pc = "reload"]
  /\ UNCHANGED <<lock, files, live, memory, up, tab, clock>>

TakeLease(p) ==
  /\ job[p].pc = "lease" /\ lease = Free
  /\ lease' = p
  /\ job' = [job EXCEPT ![p].pc = "reload"]
  /\ UNCHANGED <<lock, files, live, memory, up, tab, clock>>

(* No lease within waitMs: reload and return what another refresh left.    *)
LeaseBusy(p) ==
  /\ job[p].pc = "lease" /\ lease # Free /\ lock = Free
  /\ Load(p)
  /\ UNCHANGED <<files, locks, live, up, clock>>
  /\ Settle(p, TRUE)

(* No state lock within waitMs for the reload: the refresh is rejected.     *)
ReloadBusy(p) ==
  /\ job[p].pc = "reload" \/ (job[p].pc = "lease" /\ lease # Free)
  /\ lock # Free
  /\ lease' = IF lease = p THEN Free ELSE lease
  /\ UNCHANGED <<lock, files, live, memory, up, clock>>
  /\ Settle(p, FALSE)

(* The early returns after the reload, or an attempt.                *)
Decide(p) ==
  /\ job[p].pc = "reload" /\ lock = Free
  /\ Load(p)
  /\ UNCHANGED <<lock, files, live, up>>
  /\ LET coalesced == status.attempted \notin {0, job[p].observed}
         recent == job[p].staleOnly /\ status.attempted # 0 /\ ~aged
     IN \/ /\ coalesced \/ recent
           /\ lease' = Free
           /\ Settle(p, TRUE)
           /\ UNCHANGED clock
        \/ /\ ~coalesced /\ ~recent
           /\ clock' = clock + 1
           /\ job' = [job EXCEPT ![p].pc = "discover", ![p].attempt = clock']
           /\ UNCHANGED <<lease, tab>>

(* Discovery lists the provider or, when incomplete, may miss it; the      *)
(* public metadata arrive or not.                                          *)
Discover(p) ==
  /\ job[p].pc = "discover"
  /\ \E complete, priced \in BOOLEAN :
     \E found \in IF complete THEN {live} ELSE {live, None} :
       job' = [job EXCEPT ![p].pc = "commit", ![p].found = found,
                          ![p].complete = complete, ![p].priced = priced]
  /\ UNCHANGED <<files, locks, live, memory, up, tab, clock>>

LockForCommit(p) ==
  /\ job[p].pc = "commit" /\ lock = Free
  /\ lock' = p
  /\ Load(p)
  /\ job' = [job EXCEPT ![p].pc = "catalog"]
  /\ UNCHANGED <<lease, files, live, up, tab, clock>>

(* Mutant: the lease is not released when the commit finds no lock.        *)
CommitBusyKeepingLease(p) ==
  /\ job[p].pc = "commit" /\ lock # Free
  /\ UNCHANGED <<lock, lease, files, live, memory, up, clock>>
  /\ Settle(p, FALSE)

CommitBusy(p) ==
  /\ job[p].pc = "commit" /\ lock # Free
  /\ lease' = Free
  /\ UNCHANGED <<lock, files, live, memory, up, clock>>
  /\ Settle(p, FALSE)

(* Mutant: the status is written before the connections.                   *)
WriteCatalogThenStatus(p) ==
  /\ job[p].pc = "catalog"
  /\ LET j == job[p] IN
     catalog' =
       [endpoint  |-> IF j.found # None THEN j.found ELSE catalog.endpoint,
        available |-> j.found # None \/ (~j.complete /\ catalog.available)]
  /\ written' = [written EXCEPT !.catalog = job[p].attempt]
  /\ job' = [job EXCEPT ![p].pc = "status"]
  /\ UNCHANGED <<locks, settings, connections, status, aged, live, memory, up, tab, clock>>

(* mergeDiscoveredCatalog, and the retention of what an incomplete         *)
(* discovery does not list.                                                *)
WriteCatalog(p) ==
  /\ job[p].pc = "catalog"
  /\ LET j == job[p] IN
     catalog' =
       [endpoint  |-> IF j.found # None THEN j.found ELSE catalog.endpoint,
        available |-> j.found # None \/ (~j.complete /\ catalog.available)]
  /\ written' = [written EXCEPT !.catalog = job[p].attempt]
  /\ job' = [job EXCEPT ![p].pc = "connections"]
  /\ UNCHANGED <<locks, settings, connections, status, aged, live, memory, up, tab, clock>>

(* Mutant: an incomplete discovery keeps every prior connection.           *)
WriteConnectionsKeeping(p) ==
  /\ job[p].pc = "connections"
  /\ LET j == job[p] IN
     connections' = IF j.complete \/ connections = None THEN j.found ELSE connections
  /\ written' = [written EXCEPT !.connections = job[p].attempt]
  /\ job' = [job EXCEPT ![p].pc = "status"]
  /\ UNCHANGED <<locks, settings, catalog, status, aged, live, memory, up, tab, clock>>

(* observeConnections, with the prior ones kept by an incomplete discovery.*)
WriteConnections(p) ==
  /\ job[p].pc = "connections"
  /\ LET j == job[p] IN
     connections' = IF j.found # None \/ j.complete THEN j.found ELSE connections
  /\ written' = [written EXCEPT !.connections = job[p].attempt]
  /\ job' = [job EXCEPT ![p].pc = "status"]
  /\ UNCHANGED <<locks, settings, catalog, status, aged, live, memory, up, tab, clock>>

(* writeRefreshStatus, the last reload, both releases and the answer.      *)
WriteStatus(p) ==
  /\ job[p].pc = "status"
  /\ LET j == job[p] IN
     /\ status' = [attempted  |-> j.attempt,
                   discovered |-> IF j.complete THEN j.attempt ELSE status.discovered,
                   succeeded  |-> IF j.complete /\ j.priced THEN j.attempt
                                  ELSE status.succeeded]
     /\ aged' = FALSE
     /\ UNCHANGED <<settings, catalog, connections, written>>
     /\ memory' = [memory EXCEPT ![p] = status'.attempted]
     /\ lock' = Free /\ lease' = Free
     /\ Settle(p, TRUE)
  /\ UNCHANGED <<live, up, clock>>

(* this.refreshState is assigned before the status is written.             *)
RefreshFails(p) ==
  /\ MayFail /\ job[p].pc \in Committing
  /\ lock' = Free /\ lease' = Free
  /\ memory' = IF job[p].pc = "status"
               THEN [memory EXCEPT ![p] = job[p].attempt]
               ELSE memory
  /\ UNCHANGED <<files, live, up, clock>>
  /\ Settle(p, FALSE)

-----------------------------------------------------------------------------
(* The environment.                                                        *)

HostChanges ==
  /\ \E e \in Endpoint \cup {None} : e # live /\ live' = e
  /\ UNCHANGED <<files, locks, memory, up, job, tab, clock>>

Age ==
  /\ ~aged /\ status.attempted # 0
  /\ aged' = TRUE
  /\ UNCHANGED <<settings, catalog, connections, status, written, locks, live,
                 memory, up, job, tab, clock>>

Crash(p) ==
  /\ MayCrash /\ p \in up
  /\ up' = up \ {p}
  /\ lease' = IF lease = p THEN Free ELSE lease
  /\ lock' = IF lock = p \/ lock \in {t \in Tab : PanelOf[t] = p} THEN Free ELSE lock
  /\ job' = [job EXCEPT ![p] = IdleJob]
  /\ tab' = [t \in Tab |-> IF PanelOf[t] = p 
                           THEN [tab[t] EXCEPT !.pc = "idle", !.draft = Defaults]
                           ELSE tab[t]]
  /\ UNCHANGED <<files, live, memory, clock>>

(* initialize reloads before it does anything else.                        *)
Start(p) ==
  /\ p \notin up /\ lock = Free
  /\ up' = up \cup {p}
  /\ Load(p)
  /\ UNCHANGED <<files, locks, live, job, tab, clock>>

-----------------------------------------------------------------------------

SaveStep(t) ==
  LockForSave(t) \/ SaveBusy(t) \/ CheckSave(t) \/ CompareSave(t) \/ RenameSave(t)
    \/ AnswerSave(t) \/ SaveFails(t)

RefreshStep(p) ==
  TakeLease(p) \/ LeaseBusy(p) \/ ReloadBusy(p) \/ Decide(p) \/ Discover(p) \/ LockForCommit(p)
    \/ CommitBusy(p) \/ WriteCatalog(p) \/ WriteConnections(p) \/ WriteStatus(p)
    \/ RefreshFails(p)

Next ==
  \/ \E t \in Tab : Look(t) \/ BeginSave(t) \/ ClickRefresh(t) \/ SaveStep(t)
  \/ \E p \in Proc : Reload(p) \/ Connect(p) \/ TimerRefresh(p) \/ RefreshStep(p)
  \/ \E p \in Proc : Crash(p) \/ Start(p)
  \/ HostChanges \/ Age

Spec == Init /\ [][Next]_vars

(* A request that has begun goes on: the event loop of a live process runs *)
(* its continuations, waiting for a lock ends after waitMs, and discovery  *)
(* has its own time limit.                                                 *)
FairSpec ==
  /\ Spec
  /\ \A t \in Tab : WF_vars(SaveStep(t))
  /\ \A p \in Proc : WF_vars(RefreshStep(p))
-----------------------------------------------------------------------------
(* Properties.                                                             *)

(* Saving is compare-and-set on the settings file: no save is lost to, or  *)
(* built on, a version its editor did not see, whoever else saves, connects*)
(* or refreshes, and whatever dies or fails on the way.                    *)
Register == INSTANCE SettingsRegister WITH
  Editor <- Tab, Default <- Defaults, value <- settings,
  view <- [t \in Tab |-> tab[t].base]
SavesAreCompareAndSet == Register!Spec

(* A newly pinned model is available over the connection it is bound to at *)
(* the moment the pin is saved, not only when it was checked.              *)
PinIsCurrentWhenSaved ==
  [][settings' # settings /\ settings'.pin \notin {Unpinned, Loaded(settings).pin} =>
       settings'.pin = connections /\ catalog.available]_vars

(* The refresh status never tells of an attempt whose catalog or           *)
(* connections are not yet in their files.                                 *)
StatusIsNotAhead ==
  /\ status.attempted <= written.connections
  /\ written.connections <= written.catalog

(* Of two refreshes, in whatever processes, the later attempt is recorded  *)
(* last: none of the three times in the status goes back.                  *)
FreshnessOnlyAdvances ==
  [][/\ status'.attempted >= status.attempted
     /\ status'.discovered >= status.discovered
     /\ status'.succeeded >= status.succeeded]_status

(* What the planner does with an explicit assignment: the pinned model is  *)
(* offered while the saved binding is the connection's.                    *)
Offered(pin, cat, conn) == pin # Unpinned /\ cat.available /\ pin = conn
Reviewed(pin, cat, conn) == Offered(pin, cat, conn) => cat.endpoint = pin

(* Whoever reads the files under the lock never offers a pinned model at   *)
(* an endpoint other than the one the user bound it to ("a freshly         *)
(* observed endpoint change still invalidates saved bindings").            *)
StoredRouteIsReviewed ==
  lock = Free => Reviewed(Loaded(settings).pin, catalog, connections)

(* A refresh that has begun ends, and gives back the lease and the lock.   *)
RefreshEnds == \A p \in Proc : lease = p ~> lease # p

-----------------------------------------------------------------------------
(* The inductive invariant behind the properties of saving and of the      *)
(* status.  Nobody writes what a save was checked against while the save   *)
(* has the lock, and only the holder of the lease has an attempt, the last *)
(* one that was begun.                                                     *)
SaveInv(t) == tab[t].pc \in {"compare", "rename"} => Acceptable(t)
JobInv(p) ==
  /\ job[p].pc \notin {"idle", "lease", "reload"} => job[p].attempt = clock
  /\ job[p].pc \in {"connections", "status"} => written.catalog = clock
  /\ job[p].pc = "status" => written.connections = clock
WrittenInv ==
  /\ StatusIsNotAhead
  /\ written.catalog <= clock /\ status.discovered <= clock /\ status.succeeded <= clock

Inv == TypeOK /\ WrittenInv /\ (\A t \in Tab : SaveInv(t)) /\ (\A p \in Proc : JobInv(p))

(* Behind StoredRouteIsReviewed, where nothing dies or fails.  The catalog *)
(* and the connections agree on the route, or the refresh that has written *)
(* the one is about to write the other.                                    *)
Committed(j) == IF j.found # None \/ j.complete THEN j.found ELSE connections
AgreeInv ==
  catalog.available =>
    IF \E p \in Proc : job[p].pc = "connections"
    THEN \A p \in Proc : job[p].pc = "connections" => Committed(job[p]) = catalog.endpoint
    ELSE connections = catalog.endpoint
=============================================================================
