--------------------------- MODULE MCCatalogRefresh ---------------------------
(* m1 is in the bundled catalog and takes media, m2 is not, m3 is of a     *)
(* provider with plans.                                                    *)
EXTENDS CatalogRefresh

CONSTANTS m1, m2, m3, p, q

MCProviderOf == m1 :> p @@ m2 :> p @@ m3 :> q

Api(id, url) == [id |-> id, npm |-> "sdk", url |-> url]
Rates(in, out) == "input" :> in @@ "output" :> out
Flat(in, out) == [base |-> Rates(in, out), tiers |-> <<>>, over200k |-> None, modes |-> <<>>]
Tiered(n) == [Flat(0, 0) EXCEPT !.tiers = <<[size |-> 32, rates |-> Rates(0, n)]>>]

MCCurated ==
  m1 :> [api |-> [id |-> None, npm |-> None, url |-> None, urlValid |-> TRUE],
         pricing |-> unknownPricing("historical-catalog-evidence"),
         input |-> MODALITIES, output |-> {"text"}, toolCall |-> TRUE,
         access |-> {"read", "write"}, canOrchestrate |-> FALSE,
         roles |-> "code-worker" :> 70 @@ "vision-worker" :> 100 @@ "reviewer" :> 75,
         available |-> FALSE, discovered |-> FALSE, profileSource |-> "curated"]

Published(id, url, cost) == [api |-> Api(id, url), cost |-> cost]

MCPublications ==
  << m1 :> Published(m1, "u1", Flat(0, 0)) @@ m2 :> Published(m2, "u2", Flat(0, 0))
       @@ m3 :> Published(m3, "u1", Flat(0, 0)),
     m1 :> Published(m1, "u1", Tiered(2)) @@ m2 :> Published(m2, "u2", Flat(0, 0)),
     m1 :> Published(m1, "u1", Flat(0, 0)) @@ m3 :> Published(m3, "u1", Flat(0, 0)) >>

Reported(id, url, input, tools, cost, cached) ==
  [api |-> Api(id, url), cost |-> [cache |-> cached] @@ cost, input |-> input,
   output |-> {"text"}, tools |-> tools, status |-> "active"]

Free(id, url) == Reported(id, url, MODALITIES, TRUE, Flat(0, 0), None)

(* As published; the routes of two models exchanged; a price for the cache *)
(* only, and a model without tools; a model that no longer takes media;    *)
(* one that is deprecated, with the first one gone.                        *)
MCListings ==
  { m1 :> Free(m1, "u1") @@ m2 :> Free(m2, "u2") @@ m3 :> Free(m3, "u1"),
    m1 :> Free(m1, "u2") @@ m2 :> Free(m2, "u1"),
    m1 :> Reported(m1, "u1", MODALITIES, TRUE, Flat(0, 0), "cache_read" :> 1)
      @@ m2 :> Reported(m2, "u2", {"text"}, FALSE, Flat(0, 0), None),
    m1 :> Reported(m1, "u1", {"text"}, TRUE, Flat(0, 0), None),
    m2 :> [Free(m2, "u2") EXCEPT !.status = "deprecated"] @@ m3 :> Free(m3, "u1") }

Base ==
  [costPolicy |-> "known-cost", costPreference |-> "free-first",
   paidEligibility |-> "configured-connections",
   roleAssignments |-> [r \in MODEL_ROLES |-> "auto"],
   roleConnections |-> [r \in MODEL_ROLES |-> None],
   billingDeclarations |-> <<>>,
   controls |-> [m \in Model |-> "policy"], unavailable |-> {},
   autoIncludeNewModels |-> TRUE, maxDelegationDepth |-> 1]

(* The connection of a provider as the first listing has it.               *)
Reviewed(c) ==
  [connectionId |-> c, kind |-> "subscription",
   bindingRevision |-> deriveBindingRevision(
     CASE c = p -> m1 :> normalizeApiIdentity(Api(m1, "u1")) @@ m2 :> normalizeApiIdentity(Api(m2, "u2"))
       [] OTHER -> m3 :> normalizeApiIdentity(Api(m3, "u1")))]

MCSettings ==
  { Base,
    [Base EXCEPT !.costPolicy = "free-only", !.controls[m2] = "disabled",
                 !.unavailable = {m3}, !.billingDeclarations = q :> Reviewed(q),
                 !.roleAssignments["code-worker"] = m1],
    [Base EXCEPT !.paidEligibility = "verified-pricing", !.costPreference = "paid-first",
                 !.autoIncludeNewModels = FALSE, !.controls[m1] = "enabled",
                 !.controls[m2] = "enabled",
                 !.roleConnections["vision-worker"] = Reviewed(p),
                 !.roleAssignments["vision-worker"] = m1] }

Task(kind, modalities, access, review) ==
  [kind |-> kind, complexity |-> "medium", modalities |-> modalities, access |-> access,
   cohesive |-> FALSE, requiresReview |-> review, delegationDepth |-> 0]

MCTasks ==
  { Task("general", {"text"}, "read", FALSE), Task("mixed", MODALITIES, "write", TRUE),
    Task("code", {"text"}, "write", FALSE), Task("vision", {"media"}, "read", FALSE) }

MCQuality == "code-worker" :> (m2 :> 90)
MCIdOrder == m1 :> 1 @@ m2 :> 2 @@ m3 :> 3
=============================================================================
