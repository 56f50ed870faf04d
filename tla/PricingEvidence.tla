--------------------------- MODULE PricingEvidence ---------------------------
(***************************************************************************)
(* What a price is evidence of (src/core/pricing.js, access-policy.js):    *)
(* rates as they are reported, the identity of the API they are for, and   *)
(* the class free / paid / unknown that routing may rely on.               *)
(*                                                                         *)
(* A block of rates is a function from dimensions to numbers; a number     *)
(* below zero stands for whatever is no finite rate.  Time is counted in   *)
(* units of which TTL make a day.  The digest and the expiry of evidence   *)
(* follow from its source and from fetchedAt, and are left out.            *)
(***************************************************************************)
EXTENDS Integers, FiniteSets, Sequences, TLC

CONSTANTS
  Model, Provider,
  ProviderOf,     (* Model -> Provider                                     *)
  PlanProvider,   (* providers whose zero rates describe included usage    *)
  TTL,            (* how long fetched prices count                         *)
  None,
  Invalid         (* a URL that is none                                    *)

ASSUME EvidenceAssumption ==
  /\ ProviderOf \in [Model -> Provider] /\ PlanProvider \subseteq Provider
  /\ TTL \in Nat \ {0} /\ None # Invalid /\ None \notin Model

DIMENSIONS == {"input", "output", "reasoning", "cache_read", "cache_write",
               "input_audio", "output_audio"}

Elements(seq) == {seq[i] : i \in DOMAIN seq}

-----------------------------------------------------------------------------
(* Rates.                                                                  *)

(* All blocks of a reported cost, each with the path of its rates.         *)
Blocks(cost) ==
  {<< <<"base", 0>>, cost.base >>}
  \cup {<< <<"context", tier.size>>, tier.rates >> : tier \in Elements(cost.tiers)}
  \cup (IF cost.over200k = None THEN {} ELSE {<< <<"over", 200>>, cost.over200k >>})
  \cup {<< <<"mode", i>>, cost.modes[i] >> : i \in DOMAIN cost.modes}

HasNumbers(cost) == \A block \in Blocks(cost) : \A d \in DOMAIN block[2] : block[2][d] \in Int

WellFormed(block) ==
  /\ {"input", "output"} \subseteq DOMAIN block /\ DOMAIN block \subseteq DIMENSIONS
  /\ \A d \in DOMAIN block : block[d] >= 0

ConflictingTiers(cost) ==
  \/ \E i, j \in DOMAIN cost.tiers : i # j /\ cost.tiers[i].size = cost.tiers[j].size
  \/ /\ cost.over200k # None
     /\ \E tier \in Elements(cost.tiers) : tier.size = 200 /\ tier.rates # cost.over200k

ClassOf(rates) == IF \E r \in rates : r[3] > 0 THEN "paid" ELSE "free"

(* Rates are triples of path, dimension and number.                        *)
analyzeRates(cost) ==
  LET rates == UNION {{<<b[1], d, b[2][d]>> :
                         d \in {x \in DOMAIN b[2] \cap DIMENSIONS : b[2][x] >= 0}}
                      : b \in Blocks(cost)}
  IN IF ~ConflictingTiers(cost) /\ \A b \in Blocks(cost) : WellFormed(b[2])
     THEN [class |-> ClassOf(rates), rates |-> rates, reasons |-> {}]
     ELSE [class |-> "unknown", rates |-> rates, reasons |-> {"rates"}]

-----------------------------------------------------------------------------
(* The identity of an API: model id, adapter, endpoint.                    *)

IsApi(api) == api = [id |-> api.id, npm |-> api.npm, url |-> api.url]

normalizeApiIdentity(api) ==
  [id |-> api.id, npm |-> api.npm, url |-> IF api.url = Invalid THEN None ELSE api.url,
   urlValid |-> api.url # Invalid]

SameIdentity(pub, live) ==
  /\ pub.urlValid /\ live.urlValid /\ pub.id # None /\ pub.npm # None
  /\ pub.id = live.id /\ pub.npm = live.npm

publicRatesApply(pub, live) == SameIdentity(pub, live) /\ pub.url = live.url

-----------------------------------------------------------------------------
(* Evidence.                                                               *)

Evidence(analysis, source, fetchedAt) ==
  [class |-> analysis.class, rates |-> analysis.rates, reasons |-> analysis.reasons,
   source |-> source, fetchedAt |-> fetchedAt]

IsPricing(pricing) ==
  /\ DOMAIN pricing = {"class", "rates", "reasons", "source", "fetchedAt"}
  /\ pricing = [k \in DOMAIN pricing |-> pricing[k]]
  /\ pricing.class \in {"free", "paid", "unknown"}
  /\ pricing.source \in {"none", "models.dev", "reported-paid"} /\ pricing.fetchedAt \in Int

Unknown(pricing, reasons) == [pricing EXCEPT !.class = "unknown", !.reasons = reasons]

unknownPricing(reason) ==
  [class |-> "unknown", rates |-> {}, reasons |-> {reason}, source |-> "none", fetchedAt |-> -1]

isPlanProvider(m) == ProviderOf[m] \in PlanProvider

guardPlanPricing(m, pricing) ==
  IF ~isPlanProvider(m) \/ pricing.class # "free" THEN pricing
  ELSE Unknown(pricing, pricing.reasons \cup {"plan-access-unverified"})

(* A publication gives each model it knows an API and a cost.              *)
normalizeModelsDev(raw, now) ==
  [fetchedAt |-> now,
   models |-> [m \in DOMAIN raw |->
     LET api == normalizeApiIdentity(raw[m].api)
         rates == analyzeRates(raw[m].cost)
     IN [api |-> api,
         pricing |-> guardPlanPricing(m,
           IF api.id # m \/ api.npm = None \/ ~api.urlValid
           THEN Unknown(rates, rates.reasons \cup {"identity-conflict"}) ELSE rates)]]]

(* Mutant: rates apply wherever the model is served.                       *)
resolveModelEvidenceAnywhere(m, api, snapshot) ==
  IF m \notin DOMAIN snapshot.models THEN unknownPricing("model-not-in-public-source")
  ELSE LET record == snapshot.models[m]
           found == Evidence(guardPlanPricing(m, record.pricing), "models.dev",
                             snapshot.fetchedAt)
       IN IF SameIdentity(record.api, api) THEN found
          ELSE Unknown(found, {"identity-conflict"})

resolveModelEvidence(m, api, snapshot) ==
  IF m \notin DOMAIN snapshot.models THEN unknownPricing("model-not-in-public-source")
  ELSE LET record == snapshot.models[m]
           found == Evidence(guardPlanPricing(m, record.pricing), "models.dev",
                             snapshot.fetchedAt)
       IN IF ~SameIdentity(record.api, api) THEN Unknown(found, {"identity-conflict"})
          ELSE IF publicRatesApply(record.api, api) THEN found
          ELSE Unknown(found, {"public-price-route-mismatch"})

classifyPricingEvidence(pricing, now) ==
  LET actual == ClassOf(pricing.rates)
      stated(d) == \E r \in pricing.rates : r[1] = <<"base", 0>> /\ r[2] = d
  IN IF /\ pricing.source # "none" /\ pricing.reasons = {}
        /\ pricing.fetchedAt <= now /\ now < pricing.fetchedAt + TTL
        /\ stated("input") /\ stated("output")
        /\ pricing.class = actual
        /\ pricing.source = "reported-paid" => actual = "paid"
     THEN actual ELSE "unknown"

classifyModelPricing(m, pricing, now) ==
  classifyPricingEvidence(guardPlanPricing(m, pricing), now)
=============================================================================
