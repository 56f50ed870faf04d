----------------------------- MODULE ModelCatalog -----------------------------
(***************************************************************************)
(* The catalog of models: what OpenCode lists and what is published about  *)
(* prices, merged into what was known before                               *)
(* (src/server/opencode-cli.js, src/core/catalog.js,                       *)
(* src/core/connections.js, src/opencode/connection-observer.js).          *)
(*                                                                         *)
(* A catalog maps the models it knows to entries.  "media" stands for the  *)
(* modalities other than text.  Labels, limits, the parts of an entry that *)
(* are only shown, and the curated status are left out.                    *)
(***************************************************************************)
EXTENDS PricingEvidence, SequencesExt

CONSTANTS
  Curated,    (* models of the bundled catalog, with their entries there   *)
  Fail        (* a command that failed                                     *)

MODEL_ROLES == {"orchestrator", "code-worker", "vision-worker", "reviewer"}
MODALITIES == {"text", "media"}

-----------------------------------------------------------------------------
(* Entries.                                                                *)

IsEntry(e) ==
  /\ DOMAIN e = {"api", "pricing", "input", "output", "toolCall", "access", "canOrchestrate",
                 "roles", "available", "discovered", "profileSource"}
  /\ e = [k \in DOMAIN e |-> e[k]]
  /\ IsPricing(e.pricing) /\ e.roles \in [DOMAIN e.roles -> Nat] /\ DOMAIN e.roles \subseteq MODEL_ROLES
  /\ e.available \in BOOLEAN /\ e.discovered \in BOOLEAN

(* One entry that is not valid makes the catalog invalid.                  *)
validateCatalog(catalog) ==
  \A m \in DOMAIN catalog : LET e == catalog[m] IN
    /\ e.input # {} /\ e.output # {} /\ e.access # {}
    /\ "orchestrator" \in DOMAIN e.roles => e.canOrchestrate
    /\ "vision-worker" \in DOMAIN e.roles => "media" \in e.input
    /\ "code-worker" \in DOMAIN e.roles => "write" \in e.access

(* Models of the bundled catalog have roles, but neither an API nor a price *)
(* that anything is evidence of.                                           *)
ASSUME CuratedAssumption ==
  /\ DOMAIN Curated \subseteq Model /\ validateCatalog(Curated)
  /\ \A m \in DOMAIN Curated :
       /\ IsEntry(Curated[m]) /\ Curated[m].api.id = None
       /\ Curated[m].pricing.source = "none"

-----------------------------------------------------------------------------
(* What the OpenCode CLI reports.                                          *)

(* The first function wins where both are defined.                         *)
Over(f, g) == [d \in DOMAIN f \cup DOMAIN g |-> IF d \in DOMAIN f THEN f[d] ELSE g[d]]

(* OpenCode nests the rates of its cache; what contradicts the flat ones,  *)
(* or is no pair of rates, ends up in a dimension that nobody knows.  The  *)
(* other blocks, where it does the same, nest nothing here.                *)
normalizeCliCost(cost) ==
  [cost EXCEPT !.base =
     LET nested == cost.cache IN
     CASE nested = None -> @
       [] nested = Invalid -> Over([unsupported_cache |-> 0], @)
       [] OTHER -> IF \E d \in DOMAIN nested \cap DOMAIN @ : nested[d] # @[d]
                   THEN Over([conflicting_cache |-> 0], Over(nested, @))
                   ELSE Over(nested, @)]

parseOpenCodeVerboseCatalog(listing) ==
  [m \in DOMAIN listing |->
     [api |-> normalizeApiIdentity(listing[m].api),
      reported |-> analyzeRates(normalizeCliCost(listing[m].cost)),
      input |-> listing[m].input, output |-> listing[m].output,
      tools |-> listing[m].tools,
      active |-> listing[m].status \in {"active", "beta", "alpha"}]]

failedDiscovery == [models |-> <<>>, complete |-> FALSE]

successfulDiscovery(listing, complete) ==
  IF DOMAIN listing = {} THEN failedDiscovery
  ELSE [models |-> parseOpenCodeVerboseCatalog(listing), complete |-> complete]

(* The version, then the models with plugins, then without.                *)
discoverOpenCode(version, canonical, pure) ==
  IF version = Fail \/ (canonical = Fail /\ pure = Fail) THEN failedDiscovery
  ELSE IF canonical # Fail THEN successfulDiscovery(canonical, TRUE)
  ELSE successfulDiscovery(pure, FALSE)

capabilityRoleProfile(live) ==
  LET converses == "text" \in live.input /\ "text" \in live.output
      acts == converses /\ live.tools
  IN [access |-> IF live.tools THEN {"read", "write"} ELSE {"read"},
      canOrchestrate |-> acts,
      roles |-> [r \in {x \in MODEL_ROLES :
                          CASE x = "reviewer" -> converses
                            [] x = "vision-worker" -> acts /\ "media" \in live.input
                            [] OTHER -> acts} |-> 25]]

-----------------------------------------------------------------------------
(* Merging.                                                                *)

Conflicts == {"conflicting-cli-rates", "identity-or-rate-conflict"}

(* Mutant: what was seen before does not count.                            *)
retainNoConflict(pricing, prior) == pricing

retainCliConflict(pricing, prior) ==
  LET conflicts == prior.reasons \cap Conflicts
  IN IF conflicts = {} THEN pricing ELSE Unknown(pricing, pricing.reasons \cup conflicts)

CapabilityDerived(m, catalog) ==
  LET source == catalog[m].profileSource
  IN /\ m \notin DOMAIN Curated
     /\ \/ m \notin DOMAIN catalog \/ source = "capability"
        \/ source = "none" /\ catalog[m].discovered

(* A model that OpenCode did not list.                                     *)
Omitted(m, prior, snapshot) ==
  LET profile == IF m \in DOMAIN Curated THEN Curated[m] ELSE prior
  IN [prior EXCEPT
        !.pricing = IF snapshot = None THEN @
                    ELSE retainCliConflict(resolveModelEvidence(m, prior.api, snapshot), @),
        !.access = profile.access, !.canOrchestrate = profile.canOrchestrate,
        !.roles = profile.roles,
        !.profileSource = IF m \in DOMAIN Curated THEN "curated" ELSE @,
        !.available = FALSE, !.discovered = FALSE]

(* The price of a model that it did list: the published one where that is  *)
(* for this API and no positive rate contradicts it, else the one of the   *)
(* last publication, else what OpenCode reports if that is positive.       *)
PublicPricing(m, catalog, live, snapshot) ==
  LET prior == catalog[m]
      contradicted(pricing) ==
        \/ live.reported.class = "unknown"
        \/ \E r \in live.reported.rates : r[3] > 0 /\ r \notin pricing.rates
      found == resolveModelEvidence(m, live.api, snapshot)
  IN CASE snapshot # None ->
            IF found.class # "unknown" /\ contradicted(found)
            THEN Unknown(found, {"conflicting-cli-rates"}) ELSE found
       [] snapshot = None /\ m \in DOMAIN catalog /\ prior.pricing.source = "models.dev" ->
            IF ~live.api.urlValid \/ live.api # prior.api \/ contradicted(prior.pricing)
            THEN Unknown(prior.pricing, {"identity-or-rate-conflict"}) ELSE prior.pricing
       [] OTHER -> unknownPricing("no-independent-pricing-evidence")

ListedPricing(m, catalog, live, snapshot, now) ==
  LET public == PublicPricing(m, catalog, live, snapshot)
      pricing == IF /\ snapshot = None \/ m \notin DOMAIN snapshot.models
                    /\ public.source # "models.dev"
                    /\ live.reported.class = "paid" /\ live.api.urlValid
                 THEN Evidence(live.reported, "reported-paid", now) ELSE public
  IN IF m \in DOMAIN catalog /\ classifyPricingEvidence(pricing, now) = "unknown"
     THEN retainCliConflict(pricing, catalog[m].pricing) ELSE pricing

(* A model that it did list.  A profile that is not derived from what it   *)
(* reports is restricted to that.                                          *)
Listed(m, catalog, live, snapshot, now) ==
  LET able == capabilityRoleProfile(live)
      prior == catalog[m]
      profile == IF m \in DOMAIN Curated THEN Curated[m]
                 ELSE IF CapabilityDerived(m, catalog) THEN able ELSE prior
  IN [api |-> live.api, pricing |-> ListedPricing(m, catalog, live, snapshot, now),
      input |-> live.input, output |-> live.output, toolCall |-> live.tools,
      access |-> profile.access \cap able.access,
      canOrchestrate |-> profile.canOrchestrate /\ able.canOrchestrate,
      roles |-> [r \in DOMAIN profile.roles \cap DOMAIN able.roles |-> profile.roles[r]],
      available |-> live.active, discovered |-> TRUE,
      profileSource |-> IF m \in DOMAIN Curated THEN "curated"
                        ELSE IF m \notin DOMAIN catalog \/ prior.profileSource = "none" THEN "capability"
                        ELSE prior.profileSource]

mergeDiscoveredCatalog(catalog, live, snapshot, now) ==
  [m \in DOMAIN catalog \cup DOMAIN live |->
     IF m \in DOMAIN live
     THEN Listed(m, catalog, live[m], snapshot, now)
     ELSE Omitted(m, catalog[m], snapshot)]

(* Mutant: what an incomplete discovery omits is gone, as after a complete *)
(* one, but its old listing counts.                                        *)
retainOmittedAvailable(catalog, discovered, merged) ==
  [m \in DOMAIN merged |->
     IF m \in DOMAIN discovered.models \/ m \notin DOMAIN catalog
     THEN merged[m]
     ELSE [merged[m] EXCEPT !.available = catalog[m].available,
                            !.discovered = catalog[m].discovered]]

(* An incomplete discovery does not make unavailable what it omits.        *)
retainOmitted(catalog, discovered, merged) ==
  [m \in DOMAIN merged |->
     IF discovered.complete \/ m \in DOMAIN discovered.models \/ m \notin DOMAIN catalog
     THEN merged[m]
     ELSE [merged[m] EXCEPT !.available = catalog[m].available,
                            !.discovered = catalog[m].discovered]]

(* The bundled catalog before anything was discovered.                     *)
unavailableCatalog ==
  [m \in DOMAIN Curated |->
     [Curated[m] EXCEPT !.available = FALSE, !.discovered = FALSE]]

-----------------------------------------------------------------------------
(* Connections.  The identity of one is its provider; its binding revision *)
(* is a digest of its routes, and stands for what is digested.             *)

RoutesOf(apis) == {[npm |-> apis[m].npm, url |-> apis[m].url] : m \in DOMAIN apis}

(* Mutant: the set of routes is enough, whichever model has which.         *)
bindingBySet(apis) == [routes |-> RoutesOf(apis), models |-> None]

(* Adapter and URL where the models of a provider share them, else all     *)
(* identities by model.                                                    *)
deriveBindingRevision(apis) ==
  IF Cardinality(RoutesOf(apis)) = 1 THEN [routes |-> RoutesOf(apis), models |-> None]
  ELSE [routes |-> {}, models |-> apis]

(* What an incomplete discovery omits of a provider it did see counts with *)
(* its last API; a provider that it did not see keeps its connection.      *)
observeConnections(catalog, connections, discovered) ==
  LET seen == {ProviderOf[m] : m \in DOMAIN discovered.models}
      cached == IF discovered.complete THEN {}
                ELSE {m \in DOMAIN catalog \ DOMAIN discovered.models :
                        catalog[m].discovered /\ ProviderOf[m] \in seen}
      apis(p) == [m \in {x \in DOMAIN discovered.models \cup cached : ProviderOf[x] = p} |->
                    IF m \in DOMAIN discovered.models THEN discovered.models[m].api
                    ELSE catalog[m].api]
  IN [p \in Provider |-> CASE p \in seen -> deriveBindingRevision(apis(p))
                           [] p \notin seen /\ discovered.complete -> None
                           [] OTHER -> connections[p]]
=============================================================================
