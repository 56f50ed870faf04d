----------------------------- MODULE RoutePlanner -----------------------------
(***************************************************************************)
(* Which models a role may use, and the plan for a task                    *)
(* (src/core/eligibility.js, catalog.js, planner.js, settings.js).         *)
(*                                                                         *)
(* Settings are a record: the cost policy and preference, whether a        *)
(* configured connection is enough where the price is unknown, an          *)
(* assignment and perhaps a connection for each role, the billing that the *)
(* user declared for connections, a selection for each model, the models   *)
(* that the user excluded as unavailable, and the switches                 *)
(* autoIncludeNewModels and maxDelegationDepth.  Settings and tasks that   *)
(* the validation refuses are left out, and so are the warnings and the    *)
(* entitlement of a connection, which nothing ever reports as revoked.     *)
(***************************************************************************)
EXTENDS ModelCatalog

CONSTANTS
  Quality,    (* qualified scores: role -> model -> score, both partial    *)
  IdOrder     (* Model -> Nat, the order of the identifiers                *)

(* No two models have one identifier.                                      *)
ASSUME PlannerAssumption ==
  /\ IsFiniteSet(Model) /\ IdOrder \in [Model -> Nat]
  /\ \A m, n \in Model : m # n => IdOrder[m] # IdOrder[n]
  /\ \A role \in DOMAIN Quality : \A m \in DOMAIN Quality[role] : Quality[role][m] \in Int

-----------------------------------------------------------------------------
(* Eligibility.                                                            *)

modelEnabled(settings, m) ==
  \/ settings.controls[m] = "enabled"
  \/ settings.controls[m] = "policy" /\ settings.autoIncludeNewModels

modelSupports(e, role, modalities, access) ==
  /\ role \in DOMAIN e.roles /\ e.roles[role] > 0
  /\ role = "orchestrator" => e.canOrchestrate
  /\ role # "reviewer" => e.toolCall
  /\ access \in e.access
  /\ modalities \subseteq e.input /\ "text" \in e.output

(* What is known of a provider's connection.  A declaration holds for the  *)
(* binding that it was made for.                                           *)
applyBillingDeclarations(connections, declarations) ==
  [p \in Provider |->
     IF connections[p] = None THEN None
     ELSE [id |-> p, bindingRevision |-> connections[p],
           billing |-> IF /\ p \in DOMAIN declarations
                          /\ declarations[p].bindingRevision = connections[p]
                       THEN declarations[p].kind ELSE "unknown"]]

(* The reasons that block a model from a role.                             *)
resolveEligibility(m, e, connection, settings, role, modalities, access, now) ==
  LET price == classifyModelPricing(m, e.pricing, now)
      saved == settings.roleConnections[role]
      blocked ==
        [disabled     |-> ~modelEnabled(settings, m),
         missing      |-> ~e.available \/ m \in settings.unavailable,
         endpoint     |-> ~e.api.urlValid,
         rebound      |-> /\ saved # None
                          /\ connection = None
                             \/ saved.connectionId # connection.id
                             \/ saved.bindingRevision # connection.bindingRevision,
         unverified   |-> /\ settings.costPolicy = "free-only"
                          /\ \/ price # "free"
                             \/ connection # None /\ connection.billing = "subscription",
         unpriced     |-> /\ settings.costPolicy # "free-only"
                          /\ settings.paidEligibility = "verified-pricing"
                          /\ price = "unknown",
         incompatible |-> ~modelSupports(e, role, modalities, access)]
  IN {reason \in DOMAIN blocked : blocked[reason]}

-----------------------------------------------------------------------------
(* Ranking.                                                                *)

costRank(m, e, preference, now) ==
  LET price == classifyModelPricing(m, e.pricing, now)
  IN IF price = (IF preference = "paid-first" THEN "paid" ELSE "free") THEN 0 ELSE 1

(* Qualified evidence first, and the higher score; then the preferred      *)
(* class, the score for the role, and the identifier.                      *)
RankOf(m, e, role, preference, now) ==
  LET qualified == role \in DOMAIN Quality /\ m \in DOMAIN Quality[role]
  IN << IF qualified THEN 0 ELSE 1, IF qualified THEN -Quality[role][m] ELSE 0,
        costRank(m, e, preference, now), -e.roles[role], IdOrder[m] >>

compareEligibleModels(left, right) ==
  \E i \in DOMAIN left : left[i] < right[i] /\ \A j \in 1..(i - 1) : left[j] = right[j]

eligibleModelsForRole(catalog, connections, settings, role, requirements, now) ==
  LET known == applyBillingDeclarations(connections, settings.billingDeclarations)
  IN {m \in DOMAIN catalog :
        resolveEligibility(m, catalog[m], known[ProviderOf[m]], settings, role,
                           requirements.modalities, requirements.access, now) = {}}

-----------------------------------------------------------------------------
(* Planning.                                                               *)

(* A task: kind, complexity, modalities, access, cohesive, requiresReview, *)
(* delegationDepth.                                                        *)
routeFor(task) ==
  LET plain == task.modalities = {"text"} /\ ~task.requiresReview
      small == task.kind = "code" /\ task.complexity = "small" /\ task.cohesive
      joint == \/ task.requiresReview /\ task.kind # "review"
               \/ task.kind = "code" /\ task.modalities # {"text"}
  IN IF plain /\ (task.kind = "general" \/ small) THEN "direct"
     ELSE IF joint THEN "orchestrator"
     ELSE CASE task.kind = "code" -> "code-worker"
            [] task.kind = "vision" -> "vision-worker"
            [] task.kind = "review" -> "reviewer"
            [] OTHER -> "orchestrator"

rolesFor(route, task) ==
  IF route # "orchestrator" THEN {"orchestrator", route} \ {"direct"}
  ELSE {"orchestrator"}
       \cup {r \in {"code-worker"} : task.access = "write" \/ task.kind \in {"code", "mixed"}}
       \cup {r \in {"vision-worker"} : task.modalities # {"text"}}
       \cup {r \in {"reviewer"} : task.requiresReview}

requirementsFor(role, route, task) ==
  [modalities |-> IF role = "vision-worker" \/ (role = "reviewer" /\ route = "reviewer")
                  THEN task.modalities ELSE {"text"},
   access |-> CASE role = "orchestrator" -> task.access
                [] role = "code-worker" -> "write"
                [] OTHER -> "read"]

(* Mutant: an explicit assignment is taken as it is.                       *)
assignmentForUnchecked(role, route, task, catalog, connections, settings, now) ==
  LET candidates == eligibleModelsForRole(catalog, connections, settings, role,
                                          requirementsFor(role, route, task), now)
      configured == settings.roleAssignments[role]
  IN IF configured # "auto" THEN IF configured \in DOMAIN catalog THEN configured ELSE None
     ELSE IF candidates = {} THEN None
     ELSE CHOOSE m \in candidates : TRUE

(* The model for a role: the first candidate, or the one that was pinned   *)
(* if it is one.                                                           *)
assignmentFor(role, route, task, catalog, connections, settings, now) ==
  LET candidates == eligibleModelsForRole(catalog, connections, settings, role,
                                          requirementsFor(role, route, task), now)
      configured == settings.roleAssignments[role]
      rank(m) == RankOf(m, catalog[m], role, settings.costPreference, now)
  IN IF configured # "auto" THEN IF configured \in candidates THEN configured ELSE None
     ELSE IF candidates = {} THEN None
     ELSE CHOOSE m \in candidates :
            \A other \in candidates \ {m} : compareEligibleModels(rank(m), rank(other))

(* The assignments of a task, or none where a role finds no model or       *)
(* delegation is not allowed.                                              *)
planRoute(task, catalog, connections, settings, now) ==
  LET route == routeFor(task)
      assigned == [role \in rolesFor(route, task) |->
        assignmentFor(role, route, task, catalog, connections, settings, now)]
  IN IF \/ task.delegationDepth > 0
        \/ route # "direct" /\ settings.maxDelegationDepth = 0
        \/ \E role \in DOMAIN assigned : assigned[role] = None
     THEN <<>>
     ELSE [role \in DOMAIN assigned |->
             LET needs == requirementsFor(role, route, task)
             IN [modelId |-> assigned[role], modalities |-> needs.modalities,
                 access |-> needs.access]]
=============================================================================
