---------------------------- MODULE CatalogRefresh ----------------------------
(***************************************************************************)
(* Refreshing the catalog: the cached publication of prices, the discovery *)
(* of models, and what is stored of both (src/server/models-dev.js,        *)
(* src/server/service.js).  Plans are made from what is stored.            *)
(*                                                                         *)
(* One refresh runs at a time, as the refresh lease has it, and its commit *)
(* is one step: ControlStore has its writes one by one.  Publications are  *)
(* numbered, and the number of one is its validator (ETag, Last-Modified). *)
(***************************************************************************)
EXTENDS RoutePlanner

CONSTANTS
  Publications,   (* sequence of what models.dev publishes, one after the other *)
  Listings,       (* what the OpenCode CLI may list                        *)
  Settings, Tasks,
  MaxClock, MaxRefreshes

ASSUME RefreshAssumption ==
  /\ MaxClock \in Nat /\ MaxRefreshes \in Nat /\ Fail \notin Listings
  /\ Len(Publications) \in Nat \ {0} /\ DOMAIN Publications = 1..Len(Publications)

(* Rates are numbers; only a listing nests the rates of a cache.           *)
ASSUME ReportsAssumption ==
  /\ \A n \in DOMAIN Publications : \A m \in DOMAIN Publications[n] :
       LET model == Publications[n][m]
       IN IsApi(model.api) /\ HasNumbers(model.cost) /\ "cache" \notin DOMAIN model.cost
  /\ \A listing \in Listings : DOMAIN listing \subseteq Model /\ \A m \in DOMAIN listing :
       LET model == listing[m]
       IN /\ DOMAIN model = {"api", "cost", "input", "output", "tools", "status"}
          /\ IsApi(model.api) /\ HasNumbers(model.cost)
          /\ DOMAIN model.cost = {"base", "tiers", "over200k", "modes", "cache"}
          /\ \/ model.cost.cache \in {None, Invalid}
             \/ \A d \in DOMAIN model.cost.cache : model.cost.cache[d] \in Int

(* How a model may have been listed last, with whether it still counts.    *)
Reports == {[r[1][r[2]] EXCEPT !.status = r[3]] :
              r \in {x \in Listings \X Model \X BOOLEAN : x[2] \in DOMAIN x[1]}}

(* What is read from a publication.                                        *)
Snapshots == [n \in DOMAIN Publications |-> normalizeModelsDev(Publications[n], 0)]

ASSUME NoneIsNoReport ==
  /\ None \notin Reports
  /\ \A n \in DOMAIN Publications, t \in 0..MaxClock : [Snapshots[n] EXCEPT !.fetchedAt = t] # None

VARIABLES
  clock,
  published,      (* the publication that models.dev serves now            *)
  cache,          (* models-dev-cache.json                                 *)
  refresh,        (* the refresh under way                                 *)
  refreshes,
  catalog, connections,
  served,         (* history: what was published when                      *)
  seen,           (* history: how each model was listed last               *)
  contradicted    (* history: models whose listing contradicts a free price *)

stored == <<catalog, connections>>
history == <<seen, contradicted>>
vars == <<clock, published, cache, refresh, refreshes, stored, served, history>>

idle == [phase |-> "idle", cached |-> None, answer |-> None]

-----------------------------------------------------------------------------
(* The cached publication: its number stands for the snapshot.             *)

SnapshotOf(cached) ==
  IF cached = None THEN None
  ELSE [Snapshots[cached.content] EXCEPT !.fetchedAt = cached.fetchedAt]

(* An answer is "not modified", or a publication.                          *)
NotModified == 0

(* Mutant: what failed to be written leaves its validator.                 *)
keptWithNewValidator(cached, answer) ==
  IF cached = None \/ answer \in {None, NotModified} THEN cached
  ELSE [cached EXCEPT !.validator = answer]

(* After any failure the cached snapshot stays what it was.                *)
kept(cached, answer) == cached

(* Only what was conditional on the cached snapshot renews it.             *)
refreshModelsDev(cached, answer, now) ==
  IF answer = NotModified THEN [cached EXCEPT !.fetchedAt = now]
  ELSE [content |-> answer, validator |-> answer, fetchedAt |-> now]

-----------------------------------------------------------------------------
(* The history.                                                            *)

Numbers(cost) ==
  (UNION {{block[2][d] : d \in DOMAIN block[2]} : block \in Blocks(cost)})
  \cup (IF "cache" \in DOMAIN cost /\ cost.cache \notin {None, Invalid}
        THEN {cost.cache[d] : d \in DOMAIN cost.cache} ELSE {})

(* A publication says of an API of a model that it is free: it is for this *)
(* very API, which is one, and its price is one, and zero throughout.      *)
SaysFree(publication, m, api) ==
  /\ m \in DOMAIN publication
  /\ publication[m].api = api /\ api.id = m /\ api.npm # None /\ api.url # Invalid
  /\ ~ConflictingTiers(publication[m].cost)
  /\ \A block \in Blocks(publication[m].cost) : WellFormed(block[2])
  /\ Numbers(publication[m].cost) = {0}

Record(found, committed, cached, catalog2) ==
  LET listing == found.listing
      listed == DOMAIN listing
      contradicts(m) ==
        /\ Numbers(listing[m].cost) # {0}
        /\ IF cached = None
           THEN m \in DOMAIN catalog /\ classifyModelPricing(m, catalog[m].pricing, clock) = "free"
           ELSE SaysFree(Publications[cached.content], m, listing[m].api)
      settled(m) == classifyModelPricing(m, catalog2[m].pricing, clock) # "unknown"
  IN IF committed
     THEN /\ seen' = [m \in Model |->
               CASE m \in listed -> [listing[m] EXCEPT !.status = @ # "deprecated"]
                 [] m \notin listed /\ found.complete /\ seen[m] # None ->
                      [seen[m] EXCEPT !.status = FALSE]
                 [] OTHER -> seen[m]]
          /\ contradicted' = {m \in Model :
               \/ m \in listed /\ contradicts(m)
               \/ m \in contradicted /\ (m \in listed => ~settled(m))}
     ELSE UNCHANGED history

-----------------------------------------------------------------------------

Init ==
  /\ clock = 0 /\ published = 1 /\ cache = None /\ refresh = idle /\ refreshes = 0
  /\ catalog = unavailableCatalog /\ connections = [p \in Provider |-> None]
  /\ served = {<<0, 1>>} /\ seen = [m \in Model |-> None]
  /\ contradicted = {}

(* The refresh reads its cache and asks for what is published, unless that *)
(* is what it has.                                                         *)
Begin ==
  /\ refresh.phase = "idle" /\ refreshes < MaxRefreshes
  /\ refreshes' = refreshes + 1
  /\ refresh' = [idle EXCEPT !.phase = "fetch", !.cached = cache]
  /\ UNCHANGED <<clock, published, cache, stored, served, history>>

(* models.dev answers.                                                     *)
Answer ==
  /\ refresh.phase = "fetch"
  /\ refresh' = [refresh EXCEPT !.phase = "answered",
       !.answer = IF refresh.cached # None /\ refresh.cached.validator = published
                  THEN NotModified ELSE published]
  /\ UNCHANGED <<clock, published, cache, refreshes, stored, served, history>>

(* The answer arrives in time and is cached.                               *)
Receive ==
  /\ refresh.phase = "answered"
  /\ cache' = refreshModelsDev(refresh.cached, refresh.answer, clock)
  /\ refresh' = [refresh EXCEPT !.phase = "merge", !.cached = cache', !.answer = None]
  /\ UNCHANGED <<clock, published, refreshes, stored, served, history>>

(* There is no answer in time, or none that is one, or it is not written:  *)
(* the old snapshot is kept and written again, which may fail as well.     *)
Miss ==
  /\ refresh.phase \in {"fetch", "answered"}
  /\ LET old == kept(refresh.cached, refresh.answer)
     IN /\ refresh' = [refresh EXCEPT !.phase = "merge", !.cached = old, !.answer = None]
        /\ cache' \in {cache, IF old = None THEN cache ELSE old}
  /\ UNCHANGED <<clock, published, refreshes, stored, served, history>>

(* What discovery may find: the version command fails or not, and so do    *)
(* the two listings.                                                       *)
Discovery(version, canonical, pure) ==
  LET found == discoverOpenCode(version, canonical, pure)
  IN [complete |-> found.complete, models |-> found.models,
      listing |-> CASE found.models = <<>> -> <<>>
                    [] found.complete -> canonical
                    [] OTHER -> pure]

Discoveries ==
  {Discovery(Fail, Fail, Fail)}
  \cup {Discovery("version", listing, Fail) : listing \in Listings}
  \cup {Discovery("version", Fail, listing) : listing \in Listings}

(* Mutant: what is merged is written whatever it is.                       *)
CommitUnchecked(found) ==
  LET merged == retainOmitted(catalog, found,
                  mergeDiscoveredCatalog(catalog, found.models,
                                         SnapshotOf(refresh.cached), clock))
  IN /\ refresh.phase = "merge"
     /\ refresh' = idle
     /\ catalog' = merged
     /\ connections' = observeConnections(catalog, connections, found)
     /\ Record(found, TRUE, refresh.cached, merged)
     /\ UNCHANGED <<clock, published, cache, refreshes, served>>

(* Discovery has ended too.  A merged catalog that is not valid is not     *)
(* written, and the refresh fails.                                         *)
Commit(found) ==
  LET merged == retainOmitted(catalog, found,
                  mergeDiscoveredCatalog(catalog, found.models,
                                         SnapshotOf(refresh.cached), clock))
      valid == validateCatalog(merged)
  IN /\ refresh.phase = "merge"
     /\ refresh' = idle
     /\ IF valid
        THEN /\ catalog' = merged
             /\ connections' = observeConnections(catalog, connections, found)
        ELSE UNCHANGED stored
     /\ Record(found, valid, refresh.cached, merged)
     /\ UNCHANGED <<clock, published, cache, refreshes, served>>

(* The process ends, and another one goes on.                              *)
Crash ==
  /\ refresh.phase # "idle" /\ refresh' = idle
  /\ UNCHANGED <<clock, published, cache, refreshes, stored, served, history>>

(* The cache is lost, or it is no longer one.                              *)
LoseCache ==
  /\ cache # None /\ cache' = None
  /\ UNCHANGED <<clock, published, refresh, refreshes, stored, served, history>>

Publish ==
  /\ published < Len(Publications) /\ published' = published + 1
  /\ served' = served \cup {<<clock, published'>>}
  /\ UNCHANGED <<clock, cache, refresh, refreshes, stored, history>>

(* Time passes; an answer is stamped within its time limit.                *)
Tick ==
  /\ clock < MaxClock /\ refresh.phase # "answered"
  /\ clock' = clock + 1
  /\ served' = served \cup {<<clock', published>>}
  /\ UNCHANGED <<published, cache, refresh, refreshes, stored, history>>

Next ==
  Begin \/ Answer \/ Receive \/ Miss \/ (\E found \in Discoveries : Commit(found)) \/ Crash \/ LoseCache \/ Publish \/ Tick

Spec == Init /\ [][Next]_vars

-----------------------------------------------------------------------------
(* Properties.                                                             *)

(* The variables have their types, and what is stored is a valid catalog.  *)
TypeOK ==
  /\ clock \in 0..MaxClock /\ published \in DOMAIN Publications
  /\ refreshes \in 0..MaxRefreshes
  /\ refresh.phase \in {"idle", "fetch", "answered", "merge"}
  /\ DOMAIN Curated \subseteq DOMAIN catalog /\ DOMAIN catalog \subseteq Model
  /\ \A m \in DOMAIN catalog :
       /\ catalog[m].pricing.class \in {"free", "paid", "unknown"}
       /\ DOMAIN catalog[m].roles \subseteq MODEL_ROLES
  /\ validateCatalog(catalog)
  /\ DOMAIN connections = Provider /\ contradicted \subseteq Model

(* Free is what was published, for this very API and at most a day ago, as *)
(* free in every dimension and block, of a provider without plans, and     *)
(* with no listing since that says otherwise: classifyModelPricing over    *)
(* any sequence of refreshes, revalidations, failures and omissions        *)
(* (pricing.js, opencode-cli.js, models-dev.js).                           *)
Earned(m) ==
  /\ seen[m] # None /\ m \notin contradicted /\ ~isPlanProvider(m)
  /\ \E s \in served : clock - TTL < s[1] /\ SaysFree(Publications[s[2]], m, seen[m].api)

FreeIsEarned ==
  \A m \in DOMAIN catalog :
    classifyModelPricing(m, catalog[m].pricing, clock) = "free" => Earned(m)

(* Whatever is planned was listed last with the tools and modalities that  *)
(* the assignment needs, is not missing from a complete discovery since,   *)
(* is not disabled, and is free where only that is allowed: planRoute over *)
(* what mergeDiscoveredCatalog and retainOmitted left.                     *)
PlannedModelIsReported ==
  \A settings \in Settings, task \in Tasks :
    LET plan == planRoute(task, catalog, connections, settings, clock)
    IN \A role \in DOMAIN plan :
         LET m == plan[role].modelId
             last == seen[m]
         IN /\ last # None /\ last.status
            /\ plan[role].modalities \subseteq last.input
            /\ "text" \in last.output
            /\ (plan[role].access = "write" \/ role # "reviewer") => last.tools
            /\ settings.controls[m] # "disabled" /\ m \notin settings.unavailable
            /\ settings.roleAssignments[role] \in {"auto", m}
            /\ settings.costPolicy = "free-only" => Earned(m)

(* The revision a pin is bound to says over which route the model goes:    *)
(* while the connection has the revision that some inventory has, every    *)
(* available model of it has its route (deriveBindingRevision, the merge   *)
(* of incomplete discoveries in #refresh).                                 *)
RouteOf(api) == <<api.npm, IF api.url = Invalid THEN None ELSE api.url>>

Inventory(listing, p) ==
  [m \in {x \in DOMAIN listing : ProviderOf[x] = p} |-> normalizeApiIdentity(listing[m].api)]

BindingNamesRoute ==
  \A listing \in Listings, p \in Provider :
    LET apis == Inventory(listing, p)
    IN apis # <<>> /\ connections[p] = deriveBindingRevision(apis) =>
         \A m \in DOMAIN apis \cap DOMAIN catalog :
           catalog[m].available => RouteOf(seen[m].api) = RouteOf(apis[m])

(* A snapshot that is dated was published then: revalidation, failed       *)
(* writes and late answers never renew the date of other prices            *)
(* (refreshModelsDev).                                                     *)
SnapshotIsServed ==
  \A cached \in {cache, refresh.cached} \ {None} : <<cached.fetchedAt, cached.content>> \in served
=============================================================================
