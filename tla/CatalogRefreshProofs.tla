------------------------- MODULE CatalogRefreshProofs -------------------------
(***************************************************************************)
(* Proofs about CatalogRefresh, for any publications, listings, settings   *)
(* and tasks.                                                              *)
(***************************************************************************)
EXTENDS CatalogRefresh, FiniteSetTheorems, WellFoundedInduction, TLAPS

Cached == [content : Nat \ {0}, validator : Nat \ {0}, fetchedAt : Nat]

(* The snapshot was published when it is dated, and its validator is that  *)
(* of what was published.                                                  *)
Genuine(cached) ==
  cached # None =>
    cached \in Cached /\ cached.validator = cached.content
    /\ <<cached.fetchedAt, cached.content>> \in served

(* What models.dev answered is what it serves at this moment.              *)
CacheInv ==
  /\ clock \in Nat /\ published \in Nat \ {0} /\ <<clock, published>> \in served
  /\ Genuine(cache) /\ Genuine(refresh.cached)
  /\ refresh \in [phase : {"idle", "fetch", "answered", "merge"},
                  cached : Cached \cup {None}, answer : Nat \cup {None}]
  /\ refresh.phase = "answered" =>
       IF refresh.answer = NotModified
       THEN refresh.cached # None /\ <<clock, refresh.cached.content>> \in served
       ELSE refresh.answer \in Nat /\ <<clock, refresh.answer>> \in served

LEMMA CacheInit == Init => CacheInv
BY DEF Init, CacheInv, Genuine, idle

(* A step that keeps what a refresh has, or ends it.                       *)
LEMMA KeepCache ==
  ASSUME CacheInv, UNCHANGED <<clock, published, served>>,
         refresh' = refresh \/ refresh' = idle,
         cache' = cache \/ cache' = None
  PROVE  CacheInv'
BY DEF CacheInv, Genuine, idle

LEMMA BeginStep == ASSUME CacheInv, Begin PROVE CacheInv'
<1>1. /\ refresh' = [phase |-> "fetch", cached |-> cache, answer |-> None]
      /\ UNCHANGED <<clock, published, cache, served>>
  BY DEF Begin, idle
<1> QED
  BY <1>1 DEF CacheInv, Genuine

LEMMA AnswerStep == ASSUME CacheInv, Answer PROVE CacheInv'
<1> DEFINE answer == IF refresh.cached # None /\ refresh.cached.validator = published
                     THEN NotModified ELSE published
<1>1. /\ refresh' = [refresh EXCEPT !.phase = "answered", !.answer = answer]
      /\ UNCHANGED <<clock, published, cache, served>>
  BY DEF Answer
<1>2. /\ answer \in Nat
      /\ answer = NotModified =>
           refresh.cached # None /\ <<clock, refresh.cached.content>> \in served
      /\ answer # NotModified => answer = published
  BY DEF CacheInv, Genuine, NotModified
<1> HIDE DEF answer
<1>3. /\ refresh'.phase = "answered" /\ refresh'.answer = answer
      /\ refresh'.cached = refresh.cached
      /\ refresh' \in [phase : {"idle", "fetch", "answered", "merge"},
                       cached : Cached \cup {None}, answer : Nat \cup {None}]
  BY <1>1, <1>2 DEF CacheInv
<1> QED
  BY <1>1, <1>2, <1>3 DEF CacheInv, Genuine

(* A 304 dates the snapshot that it was asked for, and that is the one     *)
(* that is served now.                                                     *)
LEMMA ReceiveStep == ASSUME CacheInv, Receive PROVE CacheInv'
<1> DEFINE new == refreshModelsDev(refresh.cached, refresh.answer, clock)
<1>1. /\ refresh.phase = "answered" /\ cache' = new
      /\ refresh' = [refresh EXCEPT !.phase = "merge", !.cached = new, !.answer = None]
      /\ UNCHANGED <<clock, published, served>>
  BY DEF Receive
<1>2. new \in Cached /\ new.validator = new.content /\ <<new.fetchedAt, new.content>> \in served
  <2>1. CASE refresh.answer = NotModified
    <3>1. /\ refresh.cached \in Cached /\ refresh.cached.validator = refresh.cached.content
          /\ <<clock, refresh.cached.content>> \in served /\ clock \in Nat
      BY <1>1, <2>1 DEF CacheInv, Genuine
    <3>2. new = [refresh.cached EXCEPT !.fetchedAt = clock]
      BY <2>1 DEF refreshModelsDev
    <3> QED
      BY <3>1, <3>2 DEF Cached
  <2>2. CASE refresh.answer # NotModified
    <3>1. /\ refresh.answer \in Nat \ {0} /\ <<clock, refresh.answer>> \in served
          /\ clock \in Nat
      BY <1>1, <2>2 DEF CacheInv, NotModified
    <3>2. new = [content |-> refresh.answer, validator |-> refresh.answer,
                 fetchedAt |-> clock]
      BY <2>2 DEF refreshModelsDev
    <3> QED
      BY <3>1, <3>2 DEF Cached
  <2> QED
    BY <2>1, <2>2
<1> HIDE DEF new
<1>3. /\ refresh'.phase = "merge" /\ refresh'.cached = new
      /\ refresh' \in [phase : {"idle", "fetch", "answered", "merge"},
                       cached : Cached \cup {None}, answer : Nat \cup {None}]
  BY <1>1, <1>2 DEF CacheInv
<1> QED
  BY <1>1, <1>2, <1>3 DEF CacheInv, Genuine

LEMMA MissStep == ASSUME CacheInv, Miss PROVE CacheInv'
<1>1. /\ refresh' = [refresh EXCEPT !.phase = "merge", !.cached = refresh.cached,
                                    !.answer = None]
      /\ cache' \in {cache, refresh.cached}
      /\ UNCHANGED <<clock, published, served>>
  BY DEF Miss, kept
<1>2. /\ refresh'.phase = "merge" /\ refresh'.cached = refresh.cached
      /\ refresh' \in [phase : {"idle", "fetch", "answered", "merge"},
                       cached : Cached \cup {None}, answer : Nat \cup {None}]
  BY <1>1 DEF CacheInv
<1> QED
  BY <1>1, <1>2 DEF CacheInv, Genuine

LEMMA PublishStep == ASSUME CacheInv, Publish PROVE CacheInv'
BY DEF Publish, CacheInv, Genuine

LEMMA TickStep == ASSUME CacheInv, Tick PROVE CacheInv'
BY DEF Tick, CacheInv, Genuine

LEMMA CacheInvStep == CacheInv /\ [Next]_vars => CacheInv'
<1>1. CacheInv /\ LoseCache => CacheInv'
  BY KeepCache DEF LoseCache
<1>2. CacheInv /\ Crash => CacheInv'
  BY KeepCache DEF Crash
<1>3. ASSUME CacheInv, NEW found \in Discoveries, Commit(found) PROVE CacheInv'
  BY <1>3, KeepCache DEF Commit
<1>4. CacheInv /\ UNCHANGED vars => CacheInv'
  BY KeepCache DEF vars
<1> QED
  BY <1>1, <1>2, <1>3, <1>4, BeginStep, AnswerStep, ReceiveStep, MissStep, PublishStep,
     TickStep DEF Next

(* A snapshot of public prices that is dated was published then, for any   *)
(* sequence of publications, answers, lost caches and crashes: the prices  *)
(* that count as fresh are never older ones than their date says           *)
(* (refreshModelsDev).                                                     *)
THEOREM DatesAreTrue == Spec => []SnapshotIsServed
<1>1. CacheInv => SnapshotIsServed
  BY DEF CacheInv, Genuine, SnapshotIsServed
<1> QED
  BY <1>1, CacheInit, CacheInvStep, PTL DEF Spec

-----------------------------------------------------------------------------
(* Prices.                                                                 *)

(* All blocks of a cost are well-formed, and no two contradict each other. *)
Sound(cost) == ~ConflictingTiers(cost) /\ \A b \in Blocks(cost) : WellFormed(b[2])

NoneIsPositive(rates) == \A r \in rates : ~(r[3] > 0)

LEMMA AnalysisFacts ==
  ASSUME NEW cost
  PROVE  LET a == analyzeRates(cost)
         IN /\ a = [class |-> a.class, rates |-> a.rates, reasons |-> a.reasons]
            /\ a.class \in {"free", "paid", "unknown"}
            /\ Sound(cost) => a.reasons = {} /\ a.class = ClassOf(a.rates)
            /\ ~Sound(cost) => a.reasons = {"rates"} /\ a.class = "unknown"
            /\ \A b \in Blocks(cost) : \A d \in DOMAIN b[2] \cap DIMENSIONS :
                 b[2][d] >= 0 => <<b[1], d, b[2][d]>> \in a.rates
            /\ \A r \in a.rates : \E b \in Blocks(cost) : \E d \in DOMAIN b[2] : r[3] = b[2][d]
<1> DEFINE rates == UNION {{<<b[1], d, b[2][d]>> :
                         d \in {x \in DOMAIN b[2] \cap DIMENSIONS : b[2][x] >= 0}}
                      : b \in Blocks(cost)}
           a == analyzeRates(cost)
<1>1. a = IF Sound(cost) THEN [class |-> ClassOf(rates), rates |-> rates, reasons |-> {}]
          ELSE [class |-> "unknown", rates |-> rates, reasons |-> {"rates"}]
  BY DEF analyzeRates, Sound
<1>2. ASSUME NEW b \in Blocks(cost), NEW d \in DOMAIN b[2] \cap DIMENSIONS, b[2][d] >= 0
      PROVE  <<b[1], d, b[2][d]>> \in rates
  BY <1>2
<1>3. ASSUME NEW r \in rates
      PROVE  \E b \in Blocks(cost) : \E d \in DOMAIN b[2] : r[3] = b[2][d]
  <2>1. PICK b \in Blocks(cost) : \E d \in DOMAIN b[2] : r = <<b[1], d, b[2][d]>>
    BY <1>3
  <2> QED
    BY <2>1
<1>4. ClassOf(rates) \in {"free", "paid"}
  BY DEF ClassOf
<1> HIDE DEF rates, a
<1>5. a.rates = rates /\ a = [class |-> a.class, rates |-> a.rates, reasons |-> a.reasons]
  BY <1>1
<1>6. /\ a.class \in {"free", "paid", "unknown"}
      /\ Sound(cost) => a.reasons = {} /\ a.class = ClassOf(rates)
      /\ ~Sound(cost) => a.reasons = {"rates"} /\ a.class = "unknown"
  BY <1>1, <1>4
<1>7. \A b \in Blocks(cost) : \A d \in DOMAIN b[2] \cap DIMENSIONS :
        b[2][d] >= 0 => <<b[1], d, b[2][d]>> \in rates
  BY <1>2
<1> QED
  BY <1>3, <1>5, <1>6, <1>7 DEF a

LEMMA ClassFacts ==
  ASSUME NEW rates
  PROVE  ClassOf(rates) \in {"free", "paid"} /\ (ClassOf(rates) = "free" <=> NoneIsPositive(rates))
BY DEF ClassOf, NoneIsPositive

(* A cost whose rates are well-formed and not positive is zero throughout. *)
LEMMA ZeroFacts ==
  ASSUME NEW cost, HasNumbers(cost), Sound(cost), NoneIsPositive(analyzeRates(cost).rates)
  PROVE  \A b \in Blocks(cost) : \A d \in DOMAIN b[2] : b[2][d] = 0
<1> SUFFICES ASSUME NEW b \in Blocks(cost), NEW d \in DOMAIN b[2] PROVE b[2][d] = 0
  OBVIOUS
<1>1. d \in DIMENSIONS /\ b[2][d] >= 0 /\ b[2][d] \in Int
  BY DEF Sound, WellFormed, HasNumbers
<1>2. <<b[1], d, b[2][d]>> \in analyzeRates(cost).rates
  BY <1>1, AnalysisFacts
<1>3. ~(<<b[1], d, b[2][d]>>[3] > 0)
  BY <1>2 DEF NoneIsPositive
<1> QED
  BY <1>1, <1>3

LEMMA BaseFacts ==
  ASSUME NEW cost
  PROVE  << <<"base", 0>>, cost.base >> \in Blocks(cost) /\ \E b \in Blocks(cost) : b[2] = cost.base
<1>1. << <<"base", 0>>, cost.base >> \in Blocks(cost)
  BY DEF Blocks
<1>2. << <<"base", 0>>, cost.base >>[2] = cost.base
  OBVIOUS
<1> QED
  BY <1>1, <1>2

(* A published price that is free is zero throughout, and the other way    *)
(* round.                                                                  *)
LEMMA FreePublished ==
  ASSUME NEW cost, HasNumbers(cost), "cache" \notin DOMAIN cost
  PROVE  /\ analyzeRates(cost).class = "free" => Sound(cost) /\ Numbers(cost) = {0}
         /\ Sound(cost) /\ Numbers(cost) = {0} => analyzeRates(cost).class = "free"
<1>1. Numbers(cost) = UNION {{block[2][d] : d \in DOMAIN block[2]} : block \in Blocks(cost)}
  BY DEF Numbers
<1>2. ASSUME analyzeRates(cost).class = "free"
      PROVE  Sound(cost) /\ Numbers(cost) = {0}
  <2>1. Sound(cost) /\ NoneIsPositive(analyzeRates(cost).rates)
    BY <1>2, AnalysisFacts, ClassFacts
  <2>2. \A b \in Blocks(cost) : \A d \in DOMAIN b[2] : b[2][d] = 0
    BY <2>1, ZeroFacts
  <2>3. \E b \in Blocks(cost) : "input" \in DOMAIN b[2]
    BY <2>1, BaseFacts DEF Sound, WellFormed
  <2> QED
    BY <1>1, <2>1, <2>2, <2>3
<1>3. ASSUME Sound(cost), Numbers(cost) = {0}
      PROVE  analyzeRates(cost).class = "free"
  <2>1. \A b \in Blocks(cost) : \A d \in DOMAIN b[2] : b[2][d] = 0
    BY <1>1, <1>3
  <2>2. NoneIsPositive(analyzeRates(cost).rates)
    BY <2>1, AnalysisFacts DEF NoneIsPositive
  <2> QED
    BY <1>3, <2>2, AnalysisFacts, ClassFacts
<1> QED
  BY <1>2, <1>3

(* A listing whose rates are well-formed and not positive, those of its    *)
(* cache included, is zero throughout.                                     *)
LEMMA FreeListed ==
  ASSUME NEW cost, HasNumbers(cost),
         DOMAIN cost = {"base", "tiers", "over200k", "modes", "cache"},
         \/ cost.cache \in {None, Invalid}
         \/ \A d \in DOMAIN cost.cache : cost.cache[d] \in Int,
         NEW a, a = analyzeRates(normalizeCliCost(cost)), a.class # "unknown",
         NoneIsPositive(a.rates)
  PROVE  Numbers(cost) = {0}
<1> DEFINE flat == normalizeCliCost(cost)
           nested == cost.cache
<1>1. /\ flat.tiers = cost.tiers /\ flat.over200k = cost.over200k /\ flat.modes = cost.modes
      /\ flat.base = CASE nested = None -> cost.base
                       [] nested = Invalid -> Over([unsupported_cache |-> 0], cost.base)
                       [] OTHER -> IF \E d \in DOMAIN nested \cap DOMAIN cost.base : nested[d] # cost.base[d]
                                   THEN Over([conflicting_cache |-> 0], Over(nested, cost.base))
                                   ELSE Over(nested, cost.base)
  BY DEF normalizeCliCost
<1> HIDE DEF flat
<1>2. /\ \A b \in Blocks(flat) : b \in Blocks(cost) \/ b = << <<"base", 0>>, flat.base >>
      /\ \A b \in Blocks(cost) : b \in Blocks(flat) \/ b = << <<"base", 0>>, cost.base >>
  BY <1>1 DEF Blocks
<1>3. Sound(flat)
  BY AnalysisFacts DEF flat
<1>4. WellFormed(flat.base)
  <2>1. << <<"base", 0>>, flat.base >> \in Blocks(flat)
    BY BaseFacts
  <2> QED
    BY <1>3, <2>1 DEF Sound
<1>5. nested # Invalid \/ nested = None
  <2> SUFFICES ASSUME nested = Invalid, nested # None PROVE FALSE
    OBVIOUS
  <2>1. flat.base = Over([unsupported_cache |-> 0], cost.base)
    BY <1>1
  <2>2. "unsupported_cache" \in DOMAIN flat.base
    BY <2>1 DEF Over
  <2> QED
    BY <1>4, <2>2 DEF WellFormed, DIMENSIONS
<1>6. CASE nested = None
  <2>1. flat.base = cost.base
    BY <1>1, <1>6, EvidenceAssumption
  <2>2. Blocks(flat) = Blocks(cost)
    BY <1>1, <2>1 DEF Blocks
  <2>3. HasNumbers(flat)
    BY <2>2 DEF HasNumbers
  <2>4. \A b \in Blocks(flat) : \A d \in DOMAIN b[2] : b[2][d] = 0
    BY <1>3, <2>3, ZeroFacts DEF flat
  <2>5. \E b \in Blocks(flat) : "input" \in DOMAIN b[2]
    <3>1. PICK b \in Blocks(flat) : b[2] = flat.base
      BY BaseFacts
    <3> QED
      BY <1>4, <3>1 DEF WellFormed
  <2>6. Numbers(cost) = UNION {{block[2][d] : d \in DOMAIN block[2]} : block \in Blocks(cost)}
    BY <1>6 DEF Numbers
  <2> QED
    BY <2>2, <2>4, <2>5, <2>6
<1>7. CASE nested # None /\ nested # Invalid
  <2>1. ~ \E d \in DOMAIN nested \cap DOMAIN cost.base : nested[d] # cost.base[d]
    <3> SUFFICES ASSUME \E d \in DOMAIN nested \cap DOMAIN cost.base : nested[d] # cost.base[d]
                 PROVE FALSE
      OBVIOUS
    <3>1. flat.base = Over([conflicting_cache |-> 0], Over(nested, cost.base))
      BY <1>1, <1>7
    <3>2. "conflicting_cache" \in DOMAIN flat.base
      BY <3>1 DEF Over
    <3> QED
      BY <1>4, <3>2 DEF WellFormed, DIMENSIONS
  <2>2. flat.base = Over(nested, cost.base)
    BY <1>1, <1>7, <2>1
  <2>3. /\ DOMAIN flat.base = DOMAIN nested \cup DOMAIN cost.base
        /\ \A d \in DOMAIN nested : flat.base[d] = nested[d]
        /\ \A d \in DOMAIN cost.base : flat.base[d] = cost.base[d]
    BY <2>1, <2>2 DEF Over
  <2>4. HasNumbers(flat)
    <3>1. \A d \in DOMAIN cost.base : cost.base[d] \in Int
      <4>1. PICK b \in Blocks(cost) : b[2] = cost.base
        BY BaseFacts
      <4> QED
        BY <4>1 DEF HasNumbers
    <3>2. \A d \in DOMAIN flat.base : flat.base[d] \in Int
      BY <1>7, <2>3, <3>1
    <3> QED
      BY <1>2, <3>2 DEF HasNumbers
  <2>5. \A b \in Blocks(flat) : \A d \in DOMAIN b[2] : b[2][d] = 0
    BY <1>3, <2>4, ZeroFacts DEF flat
  <2>6. \A d \in DOMAIN flat.base : flat.base[d] = 0
    <3>1. PICK b \in Blocks(flat) : b[2] = flat.base
      BY BaseFacts
    <3> QED
      BY <2>5, <3>1
  <2>7. \A b \in Blocks(cost) : \A d \in DOMAIN b[2] : b[2][d] = 0
    BY <1>2, <2>3, <2>5, <2>6
  <2>8. \A x : x \in Numbers(cost) <=>
          \/ \E b \in Blocks(cost) : \E d \in DOMAIN b[2] : x = b[2][d]
          \/ \E d \in DOMAIN nested : x = nested[d]
    <3> DEFINE blocks == UNION {{block[2][d] : d \in DOMAIN block[2]} : block \in Blocks(cost)}
               more == {cost.cache[d] : d \in DOMAIN cost.cache}
    <3>0. "cache" \in DOMAIN cost /\ cost.cache \notin {None, Invalid}
      BY <1>7
    <3>1. Numbers(cost) = blocks \cup (IF "cache" \in DOMAIN cost /\ cost.cache \notin {None, Invalid}
                                      THEN more ELSE {})
      BY DEF Numbers
    <3>2. \A x : x \in more <=> \E d \in DOMAIN nested : x = nested[d]
      OBVIOUS
    <3>3. \A x : x \in blocks <=> \E b \in Blocks(cost) : \E d \in DOMAIN b[2] : x = b[2][d]
      OBVIOUS
    <3> HIDE DEF blocks, more
    <3> QED
      BY <3>0, <3>1, <3>2, <3>3
  <2>9. PICK b \in Blocks(cost) : b[2] = cost.base
    BY BaseFacts
  <2>10. \A d \in DOMAIN nested : nested[d] = 0
    BY <2>3, <2>6
  <2>11. "input" \in DOMAIN b[2] \/ "input" \in DOMAIN nested
    BY <1>4, <2>3, <2>9 DEF WellFormed
  <2>12. 0 \in Numbers(cost)
    <3>1. CASE "input" \in DOMAIN b[2]
      BY <3>1, <2>7, <2>8
    <3>2. CASE "input" \in DOMAIN nested
      BY <3>2, <2>8, <2>10
    <3> QED
      BY <2>11, <3>1, <3>2
  <2>13. Numbers(cost) \subseteq {0}
    BY <2>7, <2>8, <2>10
  <2> QED
    BY <2>12, <2>13
<1> QED
  BY <1>5, <1>6, <1>7

(* Only free prices of providers with plans are guarded.                   *)
LEMMA GuardFacts ==
  ASSUME NEW m, NEW p, {"class", "reasons"} \subseteq DOMAIN p
  PROVE  LET g == guardPlanPricing(m, p)
         IN /\ g.class = "free" => g = p /\ p.class = "free" /\ ~isPlanProvider(m)
            /\ ~isPlanProvider(m) \/ p.class # "free" => g = p
            /\ isPlanProvider(m) /\ p.class = "free" =>
                 /\ g = [p EXCEPT !.class = "unknown", !.reasons = g.reasons]
                 /\ g.class = "unknown"
BY DEF guardPlanPricing, Unknown

(* What a publication says of a model, for an API.                         *)
LEMMA ResolvedFacts ==
  ASSUME NEW n \in DOMAIN Publications, NEW t \in Int, NEW m, NEW live, NEW snapshot,
         snapshot.fetchedAt = t, snapshot.models = Snapshots[n].models
  PROVE  LET f == resolveModelEvidence(m, live, snapshot)
             model == Publications[n][m]
             a == analyzeRates(model.cost)
             api == normalizeApiIdentity(model.api)
             fits == /\ m \in DOMAIN Publications[n] /\ live.urlValid /\ api.urlValid
                     /\ api.id = m /\ api.npm # None
                     /\ api.id # None /\ api.id = live.id /\ api.npm = live.npm /\ api.url = live.url
         IN /\ IsPricing(f)
            /\ \/ f.source = "none" /\ f.class = "unknown" /\ m \notin DOMAIN snapshot.models
                  /\ f.fetchedAt = -1
               \/ f.source = "models.dev" /\ f.fetchedAt = t /\ m \in DOMAIN Publications[n]
            /\ f.class = "free" <=> fits /\ a.class = "free" /\ ~isPlanProvider(m)
            /\ f.class # "unknown" => f.rates = a.rates /\ f.reasons = {}
<1> DEFINE f == resolveModelEvidence(m, live, snapshot)
           model == Publications[n][m]
           a == analyzeRates(model.cost)
           api == normalizeApiIdentity(model.api)
           record == snapshot.models[m]
           base == IF api.id # m \/ api.npm = None \/ ~api.urlValid
                   THEN Unknown(a, a.reasons \cup {"identity-conflict"}) ELSE a
           guarded == guardPlanPricing(m, guardPlanPricing(m, base))
           found == Evidence(guarded, "models.dev", snapshot.fetchedAt)
<1>1. CASE m \notin DOMAIN Publications[n]
  <2>1. m \notin DOMAIN snapshot.models
    BY <1>1 DEF Snapshots, normalizeModelsDev
  <2>2. f = unknownPricing("model-not-in-public-source")
    BY <2>1 DEF resolveModelEvidence
  <2> QED
    BY <1>1, <2>1, <2>2 DEF unknownPricing, IsPricing
<1>2. CASE m \in DOMAIN Publications[n]
  <2>1. /\ m \in DOMAIN snapshot.models
        /\ record = [api |-> api, pricing |-> guardPlanPricing(m, base)]
    BY <1>2 DEF Snapshots, normalizeModelsDev
  <2>2. f = IF ~SameIdentity(api, live) THEN Unknown(found, {"identity-conflict"})
            ELSE IF publicRatesApply(api, live) THEN found
            ELSE Unknown(found, {"public-price-route-mismatch"})
    BY <2>1 DEF resolveModelEvidence
  <2>3. /\ a = [class |-> a.class, rates |-> a.rates, reasons |-> a.reasons]
        /\ a.class \in {"free", "paid", "unknown"}
        /\ a.class # "unknown" => a.reasons = {}
    BY AnalysisFacts
  <2> HIDE DEF a
  <2>4. /\ base = [class |-> base.class, rates |-> base.rates, reasons |-> base.reasons]
        /\ base.rates = a.rates
        /\ base.class \in {"free", "paid", "unknown"}
        /\ base.class # "unknown" =>
             /\ base = a /\ ~(api.id # m \/ api.npm = None \/ ~api.urlValid)
        /\ ~(api.id # m \/ api.npm = None \/ ~api.urlValid) => base = a
    BY <2>3 DEF Unknown
  <2> HIDE DEF base
  <2>5. /\ guarded = [class |-> guarded.class, rates |-> guarded.rates, reasons |-> guarded.reasons]
        /\ guarded.rates = base.rates
        /\ guarded.class \in {"free", "paid", "unknown"}
        /\ guarded.class = "free" <=> base.class = "free" /\ ~isPlanProvider(m)
        /\ guarded.class # "unknown" => guarded = base
    BY <2>4 DEF guardPlanPricing, Unknown
  <2> HIDE DEF guarded
  <2>6. /\ found.source = "models.dev" /\ found.fetchedAt = t /\ found.class = guarded.class
        /\ found.rates = guarded.rates /\ found.reasons = guarded.reasons /\ IsPricing(found)
    BY <2>5 DEF Evidence, IsPricing
  <2> HIDE DEF found
  <2>7. \A reasons : LET u == Unknown(found, reasons)
                     IN u.source = "models.dev" /\ u.fetchedAt = t /\ u.class = "unknown" /\ IsPricing(u)
    BY <2>6 DEF Unknown, IsPricing
  <2>8. SameIdentity(api, live) /\ publicRatesApply(api, live) <=>
          /\ api.urlValid /\ live.urlValid /\ api.id # None /\ api.npm # None
          /\ api.id = live.id /\ api.npm = live.npm /\ api.url = live.url
    BY DEF SameIdentity, publicRatesApply
  <2>9. /\ IsPricing(f) /\ f.source = "models.dev" /\ f.fetchedAt = t
        /\ f.class # "unknown" => f = found /\ SameIdentity(api, live) /\ publicRatesApply(api, live)
        /\ SameIdentity(api, live) /\ publicRatesApply(api, live) => f = found
    BY <2>2, <2>6, <2>7
  <2> HIDE DEF f, api
  <2>10. /\ f.class # "unknown" => f.rates = a.rates /\ f.reasons = {}
    BY <2>3, <2>4, <2>5, <2>6, <2>9
  <2>11. f.class = "free" => /\ live.urlValid /\ api.urlValid
                             /\ api.id = m /\ api.npm # None
                             /\ api.id # None /\ api.id = live.id /\ api.npm = live.npm /\ api.url = live.url
                             /\ a.class = "free" /\ ~isPlanProvider(m)
    BY <2>4, <2>5, <2>6, <2>8, <2>9
  <2>12. ASSUME live.urlValid, api.urlValid, api.id = m, api.npm # None,
                api.id # None, api.id = live.id, api.npm = live.npm, api.url = live.url,
                a.class = "free", ~isPlanProvider(m)
         PROVE  f.class = "free"
    <3>1. base = a
      BY <2>4, <2>12
    <3>2. guarded.class = "free"
      BY <2>5, <2>12, <3>1
    <3>3. f = found
      BY <2>8, <2>9, <2>12
    <3> QED
      BY <2>6, <3>2, <3>3
  <2> QED
    BY <1>2, <2>9, <2>10, <2>11, <2>12 DEF f, a, api
<1> QED
  BY <1>1, <1>2

LEMMA ClassifyFacts ==
  ASSUME NEW m, NEW p, IsPricing(p), NEW now \in Int
  PROVE  /\ classifyModelPricing(m, p, now) = "free" =>
              /\ p.class = "free" /\ p.reasons = {} /\ p.source = "models.dev"
              /\ ~isPlanProvider(m) /\ NoneIsPositive(p.rates)
              /\ p.fetchedAt <= now /\ now < p.fetchedAt + TTL
         /\ ~isPlanProvider(m) => classifyModelPricing(m, p, now) = classifyPricingEvidence(p, now)
         /\ classifyPricingEvidence(p, now) # "unknown" => p.class # "unknown" /\ p.reasons = {}
         /\ p.class = "unknown" => classifyPricingEvidence(p, now) = "unknown"
<1>1. ASSUME NEW q, classifyPricingEvidence(q, now) # "unknown"
      PROVE  /\ q.source # "none" /\ q.reasons = {} /\ q.fetchedAt <= now /\ now < q.fetchedAt + TTL
             /\ q.class = classifyPricingEvidence(q, now)
             /\ classifyPricingEvidence(q, now) = ClassOf(q.rates)
             /\ q.source = "reported-paid" => ClassOf(q.rates) = "paid"
  BY <1>1 DEF classifyPricingEvidence
<1>2. classifyPricingEvidence(p, now) # "unknown" => p.class # "unknown" /\ p.reasons = {}
  BY <1>1, ClassFacts
<1>3. ~isPlanProvider(m) => guardPlanPricing(m, p) = p
  BY DEF guardPlanPricing
<1>4. ASSUME classifyModelPricing(m, p, now) = "free"
      PROVE  /\ p.class = "free" /\ p.reasons = {} /\ p.source = "models.dev"
             /\ ~isPlanProvider(m) /\ NoneIsPositive(p.rates)
             /\ p.fetchedAt <= now /\ now < p.fetchedAt + TTL
  <2>1. /\ guardPlanPricing(m, p).class = "free" /\ ClassOf(guardPlanPricing(m, p).rates) = "free"
        /\ guardPlanPricing(m, p).source # "none" /\ guardPlanPricing(m, p).reasons = {}
        /\ guardPlanPricing(m, p).source # "reported-paid"
        /\ guardPlanPricing(m, p).fetchedAt <= now /\ now < guardPlanPricing(m, p).fetchedAt + TTL
    BY <1>1, <1>4 DEF classifyModelPricing
  <2>2. guardPlanPricing(m, p) = p /\ ~isPlanProvider(m)
    BY <2>1, GuardFacts DEF IsPricing
  <2> QED
    BY <2>1, <2>2, ClassFacts DEF IsPricing
<1> QED
  BY <1>2, <1>3, <1>4 DEF classifyModelPricing

(* Two APIs that are valid and look the same are the same.                 *)
LEMMA SameApi ==
  ASSUME NEW a, NEW b, IsApi(a), IsApi(b),
         normalizeApiIdentity(a).urlValid, normalizeApiIdentity(b).urlValid,
         normalizeApiIdentity(a).id = normalizeApiIdentity(b).id,
         normalizeApiIdentity(a).npm = normalizeApiIdentity(b).npm,
         normalizeApiIdentity(a).url = normalizeApiIdentity(b).url
  PROVE  a = b /\ a.url # Invalid
<1>1. a.id = b.id /\ a.npm = b.npm /\ a.url # Invalid /\ a.url = b.url
  BY DEF normalizeApiIdentity
<1> QED
  BY <1>1 DEF IsApi

(* A price that a publication gives for an API.                            *)
LEMMA PublishedFree ==
  ASSUME NEW n \in DOMAIN Publications, NEW t \in Int, NEW m, NEW raw, IsApi(raw), NEW snapshot,
         snapshot.fetchedAt = t, snapshot.models = Snapshots[n].models
  PROVE  LET f == resolveModelEvidence(m, normalizeApiIdentity(raw), snapshot)
         IN /\ f.class = "free" => SaysFree(Publications[n], m, raw) /\ ~isPlanProvider(m)
            /\ SaysFree(Publications[n], m, raw) /\ ~isPlanProvider(m) /\ m # None =>
                 f.class = "free" /\ f.source = "models.dev" /\ NoneIsPositive(f.rates)
<1> DEFINE f == resolveModelEvidence(m, normalizeApiIdentity(raw), snapshot)
           model == Publications[n][m]
           live == normalizeApiIdentity(raw)
           api == normalizeApiIdentity(model.api)
           fits == /\ m \in DOMAIN Publications[n] /\ live.urlValid /\ api.urlValid
                   /\ api.id = m /\ api.npm # None
                   /\ api.id # None /\ api.id = live.id /\ api.npm = live.npm /\ api.url = live.url
<1>1. /\ f.class = "free" <=> fits /\ analyzeRates(model.cost).class = "free" /\ ~isPlanProvider(m)
      /\ f.class # "unknown" => f.rates = analyzeRates(model.cost).rates /\ f.reasons = {}
      /\ f.source = "none" => f.class = "unknown"
      /\ f.source \in {"none", "models.dev"}
  BY ResolvedFacts
<1>2. m \in DOMAIN Publications[n] => /\ IsApi(model.api) /\ HasNumbers(model.cost)
                                      /\ "cache" \notin DOMAIN model.cost
  BY ReportsAssumption
<1>3. fits => /\ model.api = raw /\ raw.url # Invalid /\ raw.id = m /\ raw.npm # None
  <2> SUFFICES ASSUME fits PROVE /\ model.api = raw /\ raw.url # Invalid /\ raw.id = m /\ raw.npm # None
    OBVIOUS
  <2>1. model.api = raw /\ model.api.url # Invalid
    BY <1>2, SameApi
  <2> QED
    BY <2>1 DEF normalizeApiIdentity
<1>4. ASSUME m \in DOMAIN Publications[n], model.api = raw, raw.url # Invalid, raw.id = m,
             raw.npm # None, m # None
      PROVE  fits
  <2>1. api = live
    BY <1>4
  <2>2. live.id = raw.id /\ live.npm = raw.npm
    BY DEF normalizeApiIdentity
  <2>3. live.urlValid
    BY <1>4 DEF normalizeApiIdentity
  <2> HIDE DEF live, api
  <2> QED
    BY <1>4, <2>1, <2>2, <2>3
<1>5. m \in DOMAIN Publications[n] =>
        (analyzeRates(model.cost).class = "free" <=> Sound(model.cost) /\ Numbers(model.cost) = {0})
  BY <1>2, FreePublished
<1>6. analyzeRates(model.cost).class = "free" => NoneIsPositive(analyzeRates(model.cost).rates)
  BY AnalysisFacts, ClassFacts
<1>7. SaysFree(Publications[n], m, raw) <=>
        /\ m \in DOMAIN Publications[n]
        /\ model.api = raw /\ raw.id = m /\ raw.npm # None /\ raw.url # Invalid
        /\ Sound(model.cost) /\ Numbers(model.cost) = {0}
  BY DEF SaysFree, Sound
<1> HIDE DEF f, fits, model
<1>8. f.class = "free" => SaysFree(Publications[n], m, raw) /\ ~isPlanProvider(m)
  BY <1>1, <1>3, <1>5, <1>7 DEF fits
<1>9. SaysFree(Publications[n], m, raw) /\ ~isPlanProvider(m) /\ m # None =>
        f.class = "free" /\ f.source = "models.dev" /\ NoneIsPositive(f.rates)
  BY <1>1, <1>4, <1>5, <1>6, <1>7
<1> QED
  BY <1>8, <1>9 DEF f

-----------------------------------------------------------------------------
(* The price of a model that is listed.                                    *)

IsReport(report) ==
  /\ IsApi(report.api) /\ HasNumbers(report.cost)
  /\ DOMAIN report.cost = {"base", "tiers", "over200k", "modes", "cache"}
  /\ \/ report.cost.cache \in {None, Invalid}
     \/ \A d \in DOMAIN report.cost.cache : report.cost.cache[d] \in Int

IsLive(live, report) ==
  /\ live.api = normalizeApiIdentity(report.api)
  /\ live.reported = analyzeRates(normalizeCliCost(report.cost))

IsSnapshot(snapshot, n, t) ==
  /\ snapshot # None /\ n \in DOMAIN Publications /\ t \in Int
  /\ snapshot.fetchedAt = t /\ snapshot.models = Snapshots[n].models

Contradicts(live, pricing) ==
  \/ live.reported.class = "unknown"
  \/ \E r \in live.reported.rates : r[3] > 0 /\ r \notin pricing.rates

(* What does not contradict a free price is zero throughout.               *)
LEMMA AgreesFree ==
  ASSUME NEW report, IsReport(report), NEW live, IsLive(live, report),
         NEW pricing, NoneIsPositive(pricing.rates), ~Contradicts(live, pricing)
  PROVE  Numbers(report.cost) = {0}
<1>1. live.reported.class # "unknown" /\ NoneIsPositive(live.reported.rates)
  BY DEF Contradicts, NoneIsPositive
<1> QED
  BY <1>1, FreeListed DEF IsReport, IsLive

LEMMA UnknownFacts ==
  ASSUME NEW p, IsPricing(p), NEW reasons
  PROVE  /\ IsPricing(Unknown(p, reasons)) /\ Unknown(p, reasons).class = "unknown"
         /\ Unknown(p, reasons).reasons = reasons /\ Unknown(p, reasons).source = p.source
         /\ Unknown(p, reasons).fetchedAt = p.fetchedAt
BY DEF IsPricing, Unknown

LEMMA UnknownPricingFacts ==
  ASSUME NEW reason
  PROVE  /\ IsPricing(unknownPricing(reason)) /\ unknownPricing(reason).class = "unknown"
         /\ unknownPricing(reason).source = "none" /\ unknownPricing(reason).fetchedAt = -1
BY DEF IsPricing, unknownPricing

(* With a publication: its price, unless the listing contradicts it.       *)
KnownPrice(p, m, report, snapshot, n, t) ==
  /\ IsPricing(p) /\ p.fetchedAt \in {-1, t}
  /\ p.source \in {"none", "models.dev"}
  /\ p.class = "free" => /\ SaysFree(Publications[n], m, report.api) /\ ~isPlanProvider(m)
                         /\ Numbers(report.cost) = {0} /\ p.fetchedAt = t
  /\ SaysFree(Publications[n], m, report.api) /\ ~isPlanProvider(m) /\ Numbers(report.cost) # {0} =>
       p.class = "unknown" /\ p.source = "models.dev" /\ p.reasons = {"conflicting-cli-rates"}

LEMMA PublicKnown ==
  ASSUME NEW m \in Model, NEW cat, NEW report, IsReport(report), NEW live, IsLive(live, report),
         NEW snapshot, NEW n, NEW t, IsSnapshot(snapshot, n, t)
  PROVE  KnownPrice(PublicPricing(m, cat, live, snapshot), m, report, snapshot, n, t)
<1> DEFINE p == PublicPricing(m, cat, live, snapshot)
           f == resolveModelEvidence(m, live.api, snapshot)
<1>1. p = IF f.class # "unknown" /\ Contradicts(live, f) THEN Unknown(f, {"conflicting-cli-rates"}) ELSE f
  BY DEF PublicPricing, IsSnapshot, Contradicts
<1>2. /\ IsPricing(f)
      /\ \/ f.source = "none" /\ f.class = "unknown" /\ m \notin DOMAIN snapshot.models
            /\ f.fetchedAt = -1
         \/ f.source = "models.dev" /\ f.fetchedAt = t
      /\ f.class = "free" => SaysFree(Publications[n], m, report.api) /\ ~isPlanProvider(m)
      /\ SaysFree(Publications[n], m, report.api) /\ ~isPlanProvider(m) =>
           f.class = "free" /\ f.source = "models.dev" /\ NoneIsPositive(f.rates)
  BY ResolvedFacts, PublishedFree, EvidenceAssumption DEF IsSnapshot, IsReport, IsLive
<1> HIDE DEF f
<1>3. /\ IsPricing(p) /\ p.fetchedAt = f.fetchedAt /\ p.source = f.source
      /\ p.class = "free" => p = f /\ ~Contradicts(live, f)
      /\ f.class # "unknown" /\ Contradicts(live, f) =>
           p.class = "unknown" /\ p.reasons = {"conflicting-cli-rates"}
  BY <1>1, <1>2, UnknownFacts
<1>4. NoneIsPositive(f.rates) /\ ~Contradicts(live, f) => Numbers(report.cost) = {0}
  BY AgreesFree
<1> HIDE DEF p
<1> QED
  BY <1>2, <1>3, <1>4 DEF p, KnownPrice

(* Without one: the price of the last publication, unless the listing is   *)
(* of another API or contradicts it.                                       *)
LEMMA PublicRemembered ==
  ASSUME NEW m \in Model, NEW cat, NEW report, IsReport(report), NEW live, IsLive(live, report),
         m \in DOMAIN cat => IsPricing(cat[m].pricing)
  PROVE  LET p == PublicPricing(m, cat, live, None)
         IN /\ IsPricing(p) /\ p.source \in {"none", "models.dev"}
            /\ p.fetchedAt = -1 \/ (m \in DOMAIN cat /\ p.fetchedAt = cat[m].pricing.fetchedAt)
            /\ p.class = "free" => /\ m \in DOMAIN cat /\ p = cat[m].pricing /\ live.api = cat[m].api
                                   /\ live.api.urlValid /\ ~Contradicts(live, p)
            /\ m \in DOMAIN cat /\ cat[m].pricing.source = "models.dev"
               /\ Contradicts(live, cat[m].pricing) =>
                 /\ p.class = "unknown" /\ p.source = "models.dev"
                 /\ p.reasons = {"identity-or-rate-conflict"}
<1> DEFINE p == PublicPricing(m, cat, live, None)
           known == m \in DOMAIN cat /\ cat[m].pricing.source = "models.dev"
<1>1. p = IF known
          THEN IF ~live.api.urlValid \/ live.api # cat[m].api \/ Contradicts(live, cat[m].pricing)
               THEN Unknown(cat[m].pricing, {"identity-or-rate-conflict"}) ELSE cat[m].pricing
          ELSE unknownPricing("no-independent-pricing-evidence")
  BY DEF PublicPricing, Contradicts
<1>2. CASE ~known
  BY <1>1, <1>2, UnknownPricingFacts
<1>3. CASE known /\ (~live.api.urlValid \/ live.api # cat[m].api \/ Contradicts(live, cat[m].pricing))
  BY <1>1, <1>3, UnknownFacts
<1>4. CASE known /\ ~(~live.api.urlValid \/ live.api # cat[m].api \/ Contradicts(live, cat[m].pricing))
  BY <1>1, <1>4
<1> QED
  BY <1>2, <1>3, <1>4

LEMMA RetainFacts ==
  ASSUME NEW p, IsPricing(p), NEW prior
  PROVE  LET r == retainCliConflict(p, prior)
         IN /\ IsPricing(r) /\ r.fetchedAt = p.fetchedAt /\ r.source = p.source
            /\ r = p \/ r.class = "unknown"
            /\ p.reasons \subseteq r.reasons
            /\ prior.reasons \cap Conflicts # {} => r.reasons \cap Conflicts # {}
<1>1. CASE prior.reasons \cap Conflicts = {}
  BY <1>1 DEF retainCliConflict
<1>2. CASE prior.reasons \cap Conflicts # {}
  <2>1. retainCliConflict(p, prior) = Unknown(p, p.reasons \cup (prior.reasons \cap Conflicts))
    BY <1>2 DEF retainCliConflict
  <2> QED
    BY <1>2, <2>1, UnknownFacts
<1> QED
  BY <1>1, <1>2

(* What the listing itself adds to a price, and keeps of the old one.      *)
ReportedPrice(p, public, m, cat, now) ==
  /\ IsPricing(p) /\ p.fetchedAt \in {now, public.fetchedAt}
  /\ p.class = "free" /\ p.source # "reported-paid" => p = public
  /\ public.source = "models.dev" /\ public.reasons \cap Conflicts # {} =>
       p.reasons \cap Conflicts # {}
  /\ m \in DOMAIN cat /\ cat[m].pricing.reasons \cap Conflicts # {} =>
       p.reasons \cap Conflicts # {} \/ classifyPricingEvidence(p, now) # "unknown"

LEMMA ListedWrap ==
  ASSUME NEW m \in Model, NEW cat, NEW cost, NEW live, live.reported = analyzeRates(cost),
         NEW snapshot, NEW now \in Int, IsPricing(PublicPricing(m, cat, live, snapshot))
  PROVE  ReportedPrice(ListedPricing(m, cat, live, snapshot, now),
                       PublicPricing(m, cat, live, snapshot), m, cat, now)
<1> DEFINE public == PublicPricing(m, cat, live, snapshot)
           paid == Evidence(live.reported, "reported-paid", now)
           pricing == IF /\ snapshot = None \/ m \notin DOMAIN snapshot.models
                         /\ public.source # "models.dev"
                         /\ live.reported.class = "paid" /\ live.api.urlValid
                      THEN paid ELSE public
           p == ListedPricing(m, cat, live, snapshot, now)
           r == retainCliConflict(pricing, cat[m].pricing)
<1>1. p = IF m \in DOMAIN cat /\ classifyPricingEvidence(pricing, now) = "unknown" THEN r ELSE pricing
  BY DEF ListedPricing
<1>2. IsPricing(paid) /\ paid.fetchedAt = now /\ paid.source = "reported-paid"
  <2>1. live.reported.class \in {"free", "paid", "unknown"}
    BY AnalysisFacts
  <2> QED
    BY <2>1 DEF IsPricing, Evidence
<1>3. (pricing = paid /\ public.source # "models.dev") \/ pricing = public
  OBVIOUS
<1> HIDE DEF paid, pricing, public
<1>4. IsPricing(pricing) /\ pricing.fetchedAt \in {now, public.fetchedAt}
  BY <1>2, <1>3 DEF public
<1>5. /\ IsPricing(r) /\ r.fetchedAt = pricing.fetchedAt /\ r.source = pricing.source
      /\ r = pricing \/ r.class = "unknown"
      /\ pricing.reasons \subseteq r.reasons
      /\ cat[m].pricing.reasons \cap Conflicts # {} => r.reasons \cap Conflicts # {}
  BY <1>4, RetainFacts
<1> HIDE DEF r, p
<1> QED
  BY <1>1, <1>2, <1>3, <1>4, <1>5 DEF p, public, ReportedPrice

-----------------------------------------------------------------------------
(* The invariant.                                                          *)

(* What the variables range over, and that what was served has been.       *)
HistoryInv ==
  /\ published \in DOMAIN Publications /\ clock \in 0..MaxClock /\ refreshes \in 0..MaxRefreshes
  /\ \A s \in served : s[1] \in 0..clock /\ s[2] \in DOMAIN Publications
  /\ seen \in [Model -> Reports \cup {None}] /\ contradicted \subseteq DOMAIN catalog
  /\ DOMAIN Curated \subseteq DOMAIN catalog /\ DOMAIN catalog \subseteq Model
  /\ DOMAIN connections = Provider

(* An entry says what the last listing of its model said; a free price was *)
(* published for the API that was listed; a contradiction has left its     *)
(* mark.                                                                   *)
Backed(m, e, report, against) ==
  /\ IsEntry(e)
  /\ report = None => e.api.id = None /\ e.available = FALSE
  /\ report # None =>
       /\ e.api = normalizeApiIdentity(report.api)
       /\ e.input = report.input /\ e.output = report.output /\ e.toolCall = report.tools
  /\ e.available = TRUE => e.discovered = TRUE /\ report.status = TRUE
  /\ e.pricing.class = "free" /\ e.pricing.source = "models.dev" =>
       /\ report # None /\ ~isPlanProvider(m)
       /\ \E n \in DOMAIN Publications : /\ <<e.pricing.fetchedAt, n>> \in served
                                         /\ SaysFree(Publications[n], m, report.api)
  /\ m \in against => e.pricing.reasons \cap Conflicts # {} \/ isPlanProvider(m)

CatalogInv ==
  /\ HistoryInv /\ validateCatalog(catalog)
  /\ \A m \in DOMAIN catalog : Backed(m, catalog[m], seen[m], contradicted)

(* What is snapshot of a cache is what was published when it is dated.     *)
LEMMA SnapshotFacts ==
  ASSUME HistoryInv, NEW cached, Genuine(cached)
  PROVE  /\ cached = None => SnapshotOf(cached) = None
         /\ cached # None =>
              /\ IsSnapshot(SnapshotOf(cached), cached.content, cached.fetchedAt)
              /\ <<cached.fetchedAt, cached.content>> \in served /\ cached.fetchedAt \in 0..clock
<1> SUFFICES ASSUME cached # None
             PROVE  /\ IsSnapshot(SnapshotOf(cached), cached.content, cached.fetchedAt)
                    /\ <<cached.fetchedAt, cached.content>> \in served
                    /\ cached.fetchedAt \in 0..clock
  BY DEF SnapshotOf
<1> DEFINE n == cached.content
           t == cached.fetchedAt
           s == <<t, n>>
<1>1. s \in served /\ s[1] = t /\ s[2] = n
  BY DEF Genuine
<1>2. t \in 0..clock /\ n \in DOMAIN Publications /\ clock \in 0..MaxClock
  BY <1>1 DEF HistoryInv
<1>3. t \in 0..MaxClock /\ t \in Int
  BY <1>2, RefreshAssumption
<1>4. SnapshotOf(cached) = [Snapshots[n] EXCEPT !.fetchedAt = t]
  BY DEF SnapshotOf
<1>5. SnapshotOf(cached) # None
  BY <1>2, <1>3, <1>4, NoneIsNoReport
<1>6. SnapshotOf(cached).fetchedAt = t /\ SnapshotOf(cached).models = Snapshots[n].models
  BY <1>2, <1>4 DEF Snapshots, normalizeModelsDev
<1> QED
  BY <1>1, <1>2, <1>3, <1>5, <1>6 DEF IsSnapshot

LEMMA ListingFacts ==
  ASSUME NEW listing \in Listings, NEW m \in DOMAIN listing
  PROVE  /\ IsReport(listing[m]) /\ m \in Model
         /\ DOMAIN listing[m] = {"api", "cost", "input", "output", "tools", "status"}
BY ReportsAssumption DEF IsReport

LEMMA ReportFacts ==
  ASSUME NEW report \in Reports
  PROVE  /\ IsApi(report.api) /\ report # None
         /\ DOMAIN report = {"api", "cost", "input", "output", "tools", "status"}
<1>1. PICK r \in Listings \X Model \X BOOLEAN :
        r[2] \in DOMAIN r[1] /\ report = [r[1][r[2]] EXCEPT !.status = r[3]]
  BY DEF Reports
<1>2. report.api = r[1][r[2]].api
  BY <1>1, ListingFacts
<1> QED
  BY <1>1, <1>2, ListingFacts, NoneIsNoReport DEF IsReport

(* The price of a model that is listed is backed by that listing.          *)
LEMMA ListedPrice ==
  ASSUME HistoryInv, NEW m \in Model, NEW report, IsReport(report), NEW live, IsLive(live, report),
         NEW cached, Genuine(cached),
         m \in DOMAIN catalog => Backed(m, catalog[m], seen[m], contradicted),
         NEW p, p = ListedPricing(m, catalog, live, SnapshotOf(cached), clock)
  PROVE  /\ IsPricing(p)
         /\ p.class = "free" /\ p.source = "models.dev" =>
              /\ ~isPlanProvider(m)
              /\ \E n \in DOMAIN Publications : /\ <<p.fetchedAt, n>> \in served
                                                /\ SaysFree(Publications[n], m, report.api)
         /\ Numbers(report.cost) # {0} /\ cached = None /\ m \in DOMAIN catalog
            /\ classifyModelPricing(m, catalog[m].pricing, clock) = "free" =>
              p.reasons \cap Conflicts # {}
         /\ Numbers(report.cost) # {0} /\ cached # None
            /\ SaysFree(Publications[cached.content], m, report.api) /\ ~isPlanProvider(m) =>
              p.reasons \cap Conflicts # {}
         /\ m \in contradicted /\ classifyModelPricing(m, p, clock) = "unknown"
            /\ ~isPlanProvider(m) => p.reasons \cap Conflicts # {}
<1> DEFINE snapshot == SnapshotOf(cached)
           public == PublicPricing(m, catalog, live, snapshot)
<1>1. /\ clock \in Int /\ (m \in DOMAIN catalog => IsPricing(catalog[m].pricing))
      /\ live.reported = analyzeRates(normalizeCliCost(report.cost))
  BY DEF HistoryInv, Backed, IsEntry, IsLive
<1>2. CASE cached = None
  <2>1. snapshot = None
    BY <1>2, SnapshotFacts
  <2>2. /\ IsPricing(public) /\ public.source \in {"none", "models.dev"}
        /\ public.fetchedAt = -1 \/ (m \in DOMAIN catalog /\ public.fetchedAt = catalog[m].pricing.fetchedAt)
        /\ public.class = "free" => /\ m \in DOMAIN catalog /\ public = catalog[m].pricing
                                    /\ live.api = catalog[m].api
                                    /\ live.api.urlValid /\ ~Contradicts(live, public)
        /\ m \in DOMAIN catalog /\ catalog[m].pricing.source = "models.dev"
           /\ Contradicts(live, catalog[m].pricing) =>
             /\ public.class = "unknown" /\ public.source = "models.dev"
             /\ public.reasons = {"identity-or-rate-conflict"}
    BY <1>1, <2>1, PublicRemembered
  <2> HIDE DEF public, snapshot
  <2>3. /\ IsPricing(p) /\ p.fetchedAt \in {clock, public.fetchedAt}
        /\ p.class = "free" /\ p.source # "reported-paid" => p = public
        /\ public.source = "models.dev" /\ public.reasons \cap Conflicts # {} =>
             p.reasons \cap Conflicts # {}
        /\ m \in DOMAIN catalog /\ catalog[m].pricing.reasons \cap Conflicts # {} =>
             \/ p.reasons \cap Conflicts # {}
             \/ classifyPricingEvidence(p, clock) # "unknown"
    BY <1>1, <2>2, ListedWrap DEF public, snapshot, ReportedPrice
  <2>5. ASSUME p.class = "free", p.source = "models.dev"
        PROVE  /\ ~isPlanProvider(m)
               /\ \E n \in DOMAIN Publications : /\ <<p.fetchedAt, n>> \in served
                                                 /\ SaysFree(Publications[n], m, report.api)
    <3>1. /\ m \in DOMAIN catalog /\ p = catalog[m].pricing /\ live.api = catalog[m].api
          /\ live.api.urlValid
      BY <2>2, <2>3, <2>5
    <3>2. /\ seen[m] # None /\ ~isPlanProvider(m) /\ catalog[m].api = normalizeApiIdentity(seen[m].api)
          /\ \E n \in DOMAIN Publications : /\ <<p.fetchedAt, n>> \in served
                                            /\ SaysFree(Publications[n], m, seen[m].api)
      BY <2>5, <3>1 DEF Backed
    <3>3. IsApi(seen[m].api) /\ IsApi(report.api) /\ live.api = normalizeApiIdentity(report.api)
      BY <3>2, ReportFacts DEF HistoryInv, IsReport, IsLive
    <3>4. seen[m].api = report.api
      BY <3>1, <3>2, <3>3, SameApi
    <3> QED
      BY <3>2, <3>4
  <2>6. ASSUME Numbers(report.cost) # {0}, m \in DOMAIN catalog,
               classifyModelPricing(m, catalog[m].pricing, clock) = "free"
        PROVE  p.reasons \cap Conflicts # {}
    <3>1. catalog[m].pricing.source = "models.dev" /\ NoneIsPositive(catalog[m].pricing.rates)
      BY <1>1, <2>6, ClassifyFacts
    <3>2. Contradicts(live, catalog[m].pricing)
      BY <2>6, <3>1, AgreesFree
    <3>3. public.source = "models.dev" /\ public.reasons \cap Conflicts # {}
      BY <2>2, <2>6, <3>1, <3>2 DEF Conflicts
    <3> QED
      BY <2>3, <3>3
  <2>7. ASSUME m \in contradicted, classifyModelPricing(m, p, clock) = "unknown", ~isPlanProvider(m)
        PROVE  p.reasons \cap Conflicts # {}
    <3>1. m \in DOMAIN catalog /\ catalog[m].pricing.reasons \cap Conflicts # {}
      BY <2>7 DEF HistoryInv, Backed
    <3>2. classifyPricingEvidence(p, clock) = "unknown"
      BY <1>1, <2>3, <2>7, ClassifyFacts
    <3> QED
      BY <2>3, <3>1, <3>2
  <2> QED
    BY <1>2, <2>3, <2>5, <2>6, <2>7
<1>3. CASE cached # None
  <2> DEFINE n == cached.content
             t == cached.fetchedAt
  <2>1. IsSnapshot(snapshot, n, t) /\ <<t, n>> \in served /\ t \in 0..clock
    BY <1>3, SnapshotFacts
  <2> HIDE DEF snapshot, n, t
  <2>2. /\ IsPricing(public) /\ public.fetchedAt \in {-1, t}
        /\ public.source \in {"none", "models.dev"}
        /\ public.class = "free" => /\ SaysFree(Publications[n], m, report.api) /\ ~isPlanProvider(m)
                                    /\ public.fetchedAt = t
        /\ SaysFree(Publications[n], m, report.api) /\ ~isPlanProvider(m)
           /\ Numbers(report.cost) # {0} =>
             /\ public.class = "unknown" /\ public.source = "models.dev"
             /\ public.reasons = {"conflicting-cli-rates"}
    <3>1. KnownPrice(public, m, report, snapshot, n, t)
      BY <2>1, PublicKnown
    <3> QED
      BY <3>1 DEF KnownPrice
  <2> HIDE DEF public
  <2>3. /\ IsPricing(p) /\ p.fetchedAt \in {clock, public.fetchedAt}
        /\ p.class = "free" /\ p.source # "reported-paid" => p = public
        /\ public.source = "models.dev" /\ public.reasons \cap Conflicts # {} =>
             p.reasons \cap Conflicts # {}
        /\ m \in DOMAIN catalog /\ catalog[m].pricing.reasons \cap Conflicts # {} =>
             \/ p.reasons \cap Conflicts # {}
             \/ classifyPricingEvidence(p, clock) # "unknown"
    <3>1. IsPricing(public)
      BY <2>2
    <3>2. ReportedPrice(p, public, m, catalog, clock)
      BY <1>1, <3>1, ListedWrap DEF public, snapshot
    <3> QED
      BY <3>2 DEF ReportedPrice
  <2>4. n \in DOMAIN Publications
    BY <2>1 DEF IsSnapshot
  <2>5. ASSUME p.class = "free", p.source = "models.dev"
        PROVE  /\ ~isPlanProvider(m) /\ <<p.fetchedAt, n>> \in served
               /\ SaysFree(Publications[n], m, report.api)
    BY <2>1, <2>2, <2>3, <2>5
  <2>6. ASSUME Numbers(report.cost) # {0}, SaysFree(Publications[n], m, report.api),
               ~isPlanProvider(m)
        PROVE  p.reasons \cap Conflicts # {}
    BY <2>2, <2>3, <2>6 DEF Conflicts
  <2>7. ASSUME m \in contradicted, classifyModelPricing(m, p, clock) = "unknown", ~isPlanProvider(m)
        PROVE  p.reasons \cap Conflicts # {}
    <3>1. m \in DOMAIN catalog /\ catalog[m].pricing.reasons \cap Conflicts # {}
      BY <2>7 DEF HistoryInv, Backed
    <3>2. classifyPricingEvidence(p, clock) = "unknown"
      BY <1>1, <2>3, <2>7, ClassifyFacts
    <3> QED
      BY <2>3, <3>1, <3>2
  <2> QED
    BY <1>3, <2>3, <2>4, <2>5, <2>6, <2>7 DEF n
<1> QED
  BY <1>2, <1>3

(* What is parsed of a report.                                             *)
IsParsed(live, report) ==
  /\ IsLive(live, report)
  /\ live.input = report.input /\ live.output = report.output /\ live.tools = report.tools
  /\ live.active \in BOOLEAN /\ (live.active = TRUE => report.status # "deprecated")

(* A model that is listed is backed by that listing.                       *)
LEMMA ListedBacked ==
  ASSUME HistoryInv, NEW m \in Model, NEW report, IsReport(report), "status" \in DOMAIN report,
         DOMAIN report = {"api", "cost", "input", "output", "tools", "status"},
         NEW live, IsParsed(live, report), NEW cached, Genuine(cached),
         m \in DOMAIN catalog => Backed(m, catalog[m], seen[m], contradicted),
         NEW last, last = [report EXCEPT !.status = @ # "deprecated"], last # None,
         NEW e, e = Listed(m, catalog, live, SnapshotOf(cached), clock),
         NEW against,
         m \in against =>
           \/ /\ Numbers(report.cost) # {0}
              /\ IF cached = None
                 THEN m \in DOMAIN catalog /\ classifyModelPricing(m, catalog[m].pricing, clock) = "free"
                 ELSE SaysFree(Publications[cached.content], m, report.api)
           \/ m \in contradicted /\ classifyModelPricing(m, e.pricing, clock) = "unknown"
  PROVE  Backed(m, e, last, against)
<1> DEFINE p == ListedPricing(m, catalog, live, SnapshotOf(cached), clock)
           able == capabilityRoleProfile(live)
           profile == IF m \in DOMAIN Curated THEN Curated[m]
                      ELSE IF CapabilityDerived(m, catalog) THEN able ELSE catalog[m]
           roles == [r \in DOMAIN profile.roles \cap DOMAIN able.roles |-> profile.roles[r]]
<1>1. e = [api |-> live.api, pricing |-> p,
           input |-> live.input, output |-> live.output, toolCall |-> live.tools,
           access |-> profile.access \cap able.access,
           canOrchestrate |-> profile.canOrchestrate /\ able.canOrchestrate,
           roles |-> roles, available |-> live.active, discovered |-> TRUE,
           profileSource |-> IF m \in DOMAIN Curated THEN "curated"
                             ELSE IF m \notin DOMAIN catalog \/ catalog[m].profileSource = "none"
                                  THEN "capability" ELSE catalog[m].profileSource]
  BY DEF Listed
<1>2. DOMAIN able.roles \subseteq MODEL_ROLES /\ able.roles \in [DOMAIN able.roles -> Nat]
  BY DEF capabilityRoleProfile
<1>3. profile # able => profile.roles \in [DOMAIN profile.roles -> Nat]
  BY CuratedAssumption DEF Backed, IsEntry, CapabilityDerived
<1>4. DOMAIN roles \subseteq MODEL_ROLES /\ roles \in [DOMAIN roles -> Nat]
  BY <1>2, <1>3
<1>5. live.active \in BOOLEAN /\ IsPricing(p)
  BY ListedPrice DEF IsParsed
<1> HIDE DEF p, able, profile, roles
<1>6. IsEntry(e) /\ e.pricing = p
  <2>1. /\ DOMAIN e = {"api", "pricing", "input", "output", "toolCall", "access", "canOrchestrate",
                      "roles", "available", "discovered", "profileSource"}
        /\ e = [k \in DOMAIN e |-> e[k]]
    BY <1>1
  <2>2. /\ e.pricing = p /\ e.roles = roles /\ e.available = live.active
        /\ e.discovered = TRUE
    BY <1>1
  <2> QED
    BY <1>4, <1>5, <2>1, <2>2 DEF IsEntry
<1>7. /\ e.api = normalizeApiIdentity(report.api) /\ e.input = report.input
      /\ e.output = report.output /\ e.toolCall = report.tools
      /\ e.discovered = TRUE /\ (e.available = TRUE => report.status # "deprecated")
  BY <1>1 DEF IsParsed, IsLive
<1>8. /\ last.api = report.api /\ last.input = report.input /\ last.output = report.output
      /\ last.tools = report.tools /\ (report.status # "deprecated" => last.status = TRUE)
  OBVIOUS
<1>9. /\ p.class = "free" /\ p.source = "models.dev" =>
           /\ ~isPlanProvider(m)
           /\ \E n \in DOMAIN Publications : /\ <<p.fetchedAt, n>> \in served
                                             /\ SaysFree(Publications[n], m, report.api)
      /\ m \in against => p.reasons \cap Conflicts # {} \/ isPlanProvider(m)
  <2>1. /\ p = ListedPricing(m, catalog, live, SnapshotOf(cached), clock) /\ IsLive(live, report)
        /\ e.pricing = p
    BY <1>6 DEF p, IsParsed
  <2> QED
    BY <2>1, ListedPrice
<1> QED
  BY <1>6, <1>7, <1>8, <1>9 DEF Backed

(* A model that is not listed keeps what backs it, and prices that are     *)
(* published since are for the API that was listed last.                   *)
LEMMA OmittedBacked ==
  ASSUME HistoryInv, NEW cached, Genuine(cached), NEW m \in DOMAIN catalog,
         Backed(m, catalog[m], seen[m], contradicted),
         NEW new, new = Omitted(m, catalog[m], SnapshotOf(cached)),
         NEW e, NEW last,
         \/ e = new /\ last = seen[m]
         \/ e = new /\ seen[m] # None /\ last = [seen[m] EXCEPT !.status = FALSE]
         \/ e = [new EXCEPT !.available = catalog[m].available,
                            !.discovered = catalog[m].discovered] /\ last = seen[m],
         last # None <=> seen[m] # None,
         NEW against, m \in against => m \in contradicted
  PROVE  Backed(m, e, last, against)
<1> DEFINE prior == catalog[m]
           snapshot == SnapshotOf(cached)
           q == IF snapshot = None THEN prior.pricing
                ELSE retainCliConflict(resolveModelEvidence(m, prior.api, snapshot), prior.pricing)
           f == resolveModelEvidence(m, prior.api, snapshot)
           profile == IF m \in DOMAIN Curated THEN Curated[m] ELSE prior
<1>1. IsEntry(prior)
  BY DEF Backed
<1>2. profile.roles \in [DOMAIN profile.roles -> Nat] /\ DOMAIN profile.roles \subseteq MODEL_ROLES
  BY <1>1, CuratedAssumption DEF IsEntry
<1>3. /\ IsPricing(q)
      /\ q.class = "free" /\ q.source = "models.dev" =>
           /\ seen[m] # None /\ ~isPlanProvider(m)
           /\ \E n \in DOMAIN Publications : /\ <<q.fetchedAt, n>> \in served
                                             /\ SaysFree(Publications[n], m, seen[m].api)
      /\ prior.pricing.reasons \cap Conflicts # {} => q.reasons \cap Conflicts # {}
  <2>1. CASE cached = None
    <3>1. q = prior.pricing
      BY <2>1, SnapshotFacts
    <3> QED
      BY <1>1, <3>1 DEF Backed, IsEntry
  <2>2. CASE cached # None
    <3> DEFINE n == cached.content
               t == cached.fetchedAt
    <3>1. IsSnapshot(snapshot, n, t) /\ <<t, n>> \in served /\ t \in 0..clock
      BY <2>2, SnapshotFacts
    <3>2. n \in DOMAIN Publications /\ t \in Int /\ snapshot.fetchedAt = t
          /\ snapshot.models = Snapshots[n].models /\ snapshot # None
      BY <3>1 DEF IsSnapshot
    <3> HIDE DEF n, t, snapshot
    <3>3. IsPricing(f) /\ f.fetchedAt \in {-1, t} /\ (f.class = "free" => f.fetchedAt = t)
          /\ (f.class = "free" => prior.api.id # None)
      BY <3>2, ResolvedFacts
    <3>4. ASSUME f.class = "free"
          PROVE  /\ seen[m] # None /\ ~isPlanProvider(m)
                 /\ SaysFree(Publications[n], m, seen[m].api)
      <4>1. seen[m] # None /\ prior.api = normalizeApiIdentity(seen[m].api)
        BY <3>3, <3>4 DEF Backed
      <4>2. IsApi(seen[m].api)
        BY <4>1, ReportFacts DEF HistoryInv
      <4> QED
        BY <3>2, <3>4, <4>1, <4>2, PublishedFree
    <3>5. q = retainCliConflict(f, prior.pricing)
      BY <3>2
    <3> HIDE DEF f, q
    <3>6. /\ IsPricing(q) /\ q.fetchedAt = f.fetchedAt
          /\ q = f \/ q.class = "unknown"
          /\ prior.pricing.reasons \cap Conflicts # {} => q.reasons \cap Conflicts # {}
      BY <3>3, <3>5, RetainFacts
    <3>7. q.class = "free" => q = f /\ q.fetchedAt = t
      BY <3>3, <3>6
    <3> QED
      BY <1>1, <3>1, <3>2, <3>3, <3>4, <3>6, <3>7
  <2> QED
    BY <2>1, <2>2
<1>4. new = [prior EXCEPT
        !.pricing = q, !.access = profile.access, !.canOrchestrate = profile.canOrchestrate,
        !.roles = profile.roles,
        !.profileSource = IF m \in DOMAIN Curated THEN "curated" ELSE @,
        !.available = FALSE, !.discovered = FALSE]
  BY DEF Omitted
<1> HIDE DEF q, profile
<1>5. /\ IsEntry(new) /\ new.pricing = q /\ new.api = prior.api /\ new.input = prior.input
      /\ new.output = prior.output /\ new.toolCall = prior.toolCall
      /\ new.available = FALSE
  <2>1. DOMAIN new = DOMAIN prior /\ new = [k \in DOMAIN new |-> new[k]]
    BY <1>4
  <2>2. /\ new.pricing = q /\ new.api = prior.api /\ new.input = prior.input
        /\ new.output = prior.output /\ new.toolCall = prior.toolCall
        /\ new.available = FALSE /\ new.discovered = FALSE /\ new.roles = profile.roles
    BY <1>1, <1>4 DEF IsEntry
  <2> HIDE DEF prior
  <2> QED
    BY <1>1, <1>2, <1>3, <2>1, <2>2 DEF IsEntry
<1>6. /\ IsEntry(e) /\ e.pricing = q /\ e.api = prior.api /\ e.input = prior.input
      /\ e.output = prior.output /\ e.toolCall = prior.toolCall
  <2> DEFINE again == [new EXCEPT !.available = catalog[m].available,
                                  !.discovered = catalog[m].discovered]
  <2>1. prior.available \in BOOLEAN /\ prior.discovered \in BOOLEAN
    BY <1>1 DEF IsEntry
  <2>2. /\ again.pricing = new.pricing /\ again.api = new.api /\ again.input = new.input
        /\ again.output = new.output /\ again.toolCall = new.toolCall
        /\ again.roles = new.roles
    BY <1>5 DEF IsEntry
  <2>3. /\ DOMAIN again = DOMAIN new /\ again = [k \in DOMAIN again |-> again[k]]
        /\ again.available = prior.available /\ again.discovered = prior.discovered
    BY <1>5 DEF IsEntry
  <2>4. e = new \/ e = again
    OBVIOUS
  <2> HIDE DEF again, prior
  <2>5. IsEntry(again)
    BY <1>5, <2>1, <2>2, <2>3 DEF IsEntry
  <2> QED
    BY <1>5, <2>2, <2>4, <2>5
<1>7. e.available = TRUE => /\ e.discovered = prior.discovered /\ last = seen[m]
                            /\ prior.available = TRUE
  BY <1>5 DEF IsEntry
<1>8. /\ last # None => /\ last.api = seen[m].api /\ last.input = seen[m].input
                        /\ last.output = seen[m].output /\ last.tools = seen[m].tools
  BY ReportFacts DEF HistoryInv
<1>9. last = None => e.available = FALSE
  <2> SUFFICES ASSUME last = None PROVE e.available = FALSE
    OBVIOUS
  <2>1. prior.available = FALSE /\ seen[m] = None
    BY DEF Backed
  <2>2. e = new \/ e = [new EXCEPT !.available = catalog[m].available, !.discovered = catalog[m].discovered]
    OBVIOUS
  <2> QED
    BY <2>1, <2>2, <1>5 DEF IsEntry
<1> QED
  BY <1>3, <1>6, <1>7, <1>8, <1>9 DEF Backed

LEMMA ParsedFacts ==
  ASSUME NEW listing \in Listings
  PROVE  /\ DOMAIN parseOpenCodeVerboseCatalog(listing) = DOMAIN listing
         /\ \A m \in DOMAIN listing : IsParsed(parseOpenCodeVerboseCatalog(listing)[m], listing[m])
<1> DEFINE parsed == parseOpenCodeVerboseCatalog(listing)
<1>1. DOMAIN parsed = DOMAIN listing
  BY DEF parseOpenCodeVerboseCatalog
<1>2. ASSUME NEW m \in DOMAIN listing
      PROVE  IsParsed(parsed[m], listing[m])
  <2>1. parsed[m] = [api |-> normalizeApiIdentity(listing[m].api),
                     reported |-> analyzeRates(normalizeCliCost(listing[m].cost)),
                     input |-> listing[m].input, output |-> listing[m].output,
                     tools |-> listing[m].tools,
                     active |-> listing[m].status \in {"active", "beta", "alpha"}]
    BY DEF parseOpenCodeVerboseCatalog
  <2>2. /\ parsed[m].api = normalizeApiIdentity(listing[m].api)
        /\ parsed[m].reported = analyzeRates(normalizeCliCost(listing[m].cost))
        /\ parsed[m].input = listing[m].input /\ parsed[m].output = listing[m].output
        /\ parsed[m].tools = listing[m].tools
    BY <2>1
  <2>3. parsed[m].active = (listing[m].status \in {"active", "beta", "alpha"})
    BY <2>1
  <2> HIDE DEF parsed
  <2>4. parsed[m].active \in BOOLEAN
    BY <2>3
  <2>5. ASSUME parsed[m].active = TRUE PROVE listing[m].status # "deprecated"
    <3>1. listing[m].status \in {"active", "beta", "alpha"}
      BY <2>3, <2>5, Zenon
    <3> QED
      BY <3>1
  <2> QED
    BY <2>2, <2>4, <2>5 DEF IsParsed, IsLive
<1> QED
  BY <1>1, <1>2

LEMMA DiscoveryFacts ==
  ASSUME NEW found \in Discoveries
  PROVE  /\ DOMAIN found.models = DOMAIN found.listing
         /\ DOMAIN found.listing # {} =>
              /\ found.listing \in Listings
              /\ \A m \in DOMAIN found.listing : IsParsed(found.models[m], found.listing[m])
<1>1. PICK version \in {"version", Fail}, canonical \in Listings \cup {Fail}, pure \in Listings \cup {Fail} :
        found = Discovery(version, canonical, pure)
  BY DEF Discoveries
<1> DEFINE discovered == discoverOpenCode(version, canonical, pure)
           Parse(listing, complete) ==
             [models |-> parseOpenCodeVerboseCatalog(listing), complete |-> complete]
<1>2. \/ discovered = failedDiscovery
      \/ canonical \in Listings /\ discovered = successfulDiscovery(canonical, TRUE)
      \/ pure \in Listings /\ discovered = successfulDiscovery(pure, FALSE)
  BY DEF discoverOpenCode
<1>3. found = [complete |-> discovered.complete, models |-> discovered.models,
               listing |-> CASE discovered.models = <<>> -> <<>>
                             [] discovered.complete -> canonical
                             [] OTHER -> pure]
  BY <1>1 DEF Discovery
<1> HIDE DEF discovered
<1>4. \/ discovered = failedDiscovery
      \/ canonical \in Listings /\ DOMAIN canonical # {} /\ discovered = Parse(canonical, TRUE)
      \/ pure \in Listings /\ DOMAIN pure # {} /\ discovered = Parse(pure, FALSE)
  BY <1>2 DEF successfulDiscovery
<1>5. CASE discovered = failedDiscovery
  <2>1. found.models = <<>> /\ found.listing = <<>>
    BY <1>3, <1>5 DEF failedDiscovery
  <2> QED
    BY <2>1
<1>6. CASE canonical \in Listings /\ DOMAIN canonical # {} /\ discovered = Parse(canonical, TRUE)
  <2>1. discovered.models = parseOpenCodeVerboseCatalog(canonical) /\ discovered.complete = TRUE
    BY <1>6
  <2>2. discovered.models # <<>>
    BY <1>6, <2>1, ParsedFacts
  <2>3. found.models = discovered.models /\ found.listing = canonical
    BY <1>3, <2>1, <2>2
  <2> QED
    BY <1>6, <2>1, <2>3, ParsedFacts
<1>7. CASE pure \in Listings /\ DOMAIN pure # {} /\ discovered = Parse(pure, FALSE)
  <2>1. discovered.models = parseOpenCodeVerboseCatalog(pure) /\ discovered.complete = FALSE
    BY <1>7
  <2>2. discovered.models # <<>>
    BY <1>7, <2>1, ParsedFacts
  <2>3. found.models = discovered.models /\ found.listing = pure
    BY <1>3, <2>1, <2>2
  <2> QED
    BY <1>7, <2>1, <2>3, ParsedFacts
<1> QED
  BY <1>4, <1>5, <1>6, <1>7

LEMMA CatalogInit == Init => CatalogInv
<1> SUFFICES ASSUME Init PROVE CatalogInv
  OBVIOUS
<1>1. HistoryInv
  <2>0. 1 \in 1..Len(Publications) /\ 0 \in 0..MaxClock /\ 0 \in 0..MaxRefreshes
    <3> DEFINE n == Len(Publications)
    <3>1. n \in Nat \ {0} /\ MaxClock \in Nat /\ MaxRefreshes \in Nat
      BY RefreshAssumption
    <3> HIDE DEF n
    <3>2. 1 \in 1..n /\ 0 \in 0..MaxClock /\ 0 \in 0..MaxRefreshes
      BY <3>1
    <3> QED
      BY <3>2 DEF n
  <2>1. /\ 1 \in DOMAIN Publications /\ 0 \in 0..MaxClock /\ 0 \in 0..MaxRefreshes
        /\ DOMAIN catalog = DOMAIN Curated
    BY <2>0, RefreshAssumption DEF Init, unavailableCatalog
  <2>2. /\ published = 1 /\ clock = 0 /\ refreshes = 0 /\ contradicted = {}
        /\ DOMAIN connections = Provider /\ seen \in [Model -> Reports \cup {None}]
    BY DEF Init
  <2>3. \A s \in served : s[1] = 0 /\ s[2] = 1
    BY DEF Init
  <2> QED
    BY <2>1, <2>2, <2>3, CuratedAssumption DEF HistoryInv
<1>2. /\ catalog = unavailableCatalog /\ DOMAIN catalog = DOMAIN Curated
      /\ seen = [m \in Model |-> None] /\ contradicted = {} /\ clock = 0
  BY DEF Init, unavailableCatalog
<1>3. ASSUME NEW m \in DOMAIN Curated
      PROVE  /\ IsEntry(catalog[m]) /\ catalog[m].pricing = Curated[m].pricing
             /\ catalog[m].api = Curated[m].api /\ catalog[m].available = FALSE
             /\ catalog[m].input = Curated[m].input /\ catalog[m].output = Curated[m].output
             /\ catalog[m].access = Curated[m].access /\ catalog[m].roles = Curated[m].roles
             /\ catalog[m].canOrchestrate = Curated[m].canOrchestrate
  <2> DEFINE e == Curated[m]
             new == [e EXCEPT !.available = FALSE, !.discovered = FALSE]
  <2>1. catalog[m] = new
    BY <1>2, <1>3 DEF unavailableCatalog
  <2>2. IsEntry(e)
    BY CuratedAssumption
  <2>3. /\ DOMAIN new = DOMAIN e /\ new = [k \in DOMAIN new |-> new[k]]
        /\ new.pricing = e.pricing /\ new.api = e.api /\ new.input = e.input
        /\ new.output = e.output /\ new.access = e.access /\ new.roles = e.roles
        /\ new.canOrchestrate = e.canOrchestrate
        /\ new.available = FALSE /\ new.discovered = FALSE
    BY <2>2 DEF IsEntry
  <2> HIDE DEF e, new
  <2>4. IsEntry(new)
    BY <2>2, <2>3 DEF IsEntry
  <2> QED
    BY <2>1, <2>3, <2>4 DEF e
<1>4. validateCatalog(catalog)
  <2> SUFFICES ASSUME NEW m \in DOMAIN catalog
               PROVE  LET e == catalog[m] IN
                      /\ e.input # {} /\ e.output # {} /\ e.access # {}
                      /\ "orchestrator" \in DOMAIN e.roles => e.canOrchestrate
                      /\ "vision-worker" \in DOMAIN e.roles => "media" \in e.input
                      /\ "code-worker" \in DOMAIN e.roles => "write" \in e.access
    BY DEF validateCatalog
  <2>1. m \in DOMAIN Curated
    BY <1>2
  <2>2. LET e == Curated[m] IN
        /\ e.input # {} /\ e.output # {} /\ e.access # {}
        /\ "orchestrator" \in DOMAIN e.roles => e.canOrchestrate
        /\ "vision-worker" \in DOMAIN e.roles => "media" \in e.input
        /\ "code-worker" \in DOMAIN e.roles => "write" \in e.access
    BY <2>1, CuratedAssumption DEF validateCatalog
  <2>3. /\ catalog[m].input = Curated[m].input /\ catalog[m].output = Curated[m].output
        /\ catalog[m].access = Curated[m].access /\ catalog[m].roles = Curated[m].roles
        /\ catalog[m].canOrchestrate = Curated[m].canOrchestrate
    BY <1>3, <2>1
  <2> QED
    BY <2>2, <2>3, Zenon
<1>5. ASSUME NEW m \in DOMAIN catalog
      PROVE  Backed(m, catalog[m], seen[m], contradicted)
  <2>1. /\ Curated[m].api.id = None /\ Curated[m].pricing.source = "none" /\ m \in Model
    BY <1>2, CuratedAssumption
  <2> QED
    BY <1>2, <1>3, <2>1 DEF Backed
<1> QED
  BY <1>1, <1>4, <1>5 DEF CatalogInv

(* Time passes, prices are published: what backs the catalog stays.        *)
LEMMA KeepCatalog ==
  ASSUME CatalogInv, UNCHANGED <<catalog, connections, seen, contradicted>>,
         published' \in DOMAIN Publications, clock' \in 0..MaxClock, clock <= clock',
         refreshes' \in 0..MaxRefreshes, served \subseteq served',
         \A s \in served' : s[1] \in 0..clock' /\ s[2] \in DOMAIN Publications
  PROVE  CatalogInv'
<1>1. HistoryInv' /\ validateCatalog(catalog)'
  BY DEF CatalogInv, HistoryInv, validateCatalog
<1>2. ASSUME NEW m \in DOMAIN catalog
      PROVE  Backed(m, catalog[m], seen[m], contradicted)'
  <2>1. Backed(m, catalog[m], seen[m], contradicted)
    BY <1>2 DEF CatalogInv
  <2> QED
    BY <2>1 DEF Backed
<1> QED
  BY <1>1, <1>2 DEF CatalogInv

(* What a listing leaves of a report in the history is a report.           *)
LEMMA LastFacts ==
  ASSUME NEW listing \in Listings, NEW m \in DOMAIN listing,
         NEW last, last = [listing[m] EXCEPT !.status = @ # "deprecated"]
  PROVE  last \in Reports
<1> DEFINE status == listing[m].status # "deprecated"
           r == <<listing, m, status>>
<1>1. m \in Model /\ status \in BOOLEAN
  BY ListingFacts
<1>2. last = [listing[m] EXCEPT !.status = status]
  OBVIOUS
<1> HIDE DEF status
<1>3. r \in Listings \X Model \X BOOLEAN /\ r[1] = listing /\ r[2] = m /\ r[3] = status
  BY <1>1
<1>4. last = [r[1][r[2]] EXCEPT !.status = r[3]] /\ r[2] \in DOMAIN r[1]
  BY <1>2, <1>3
<1> QED
  BY <1>3, <1>4 DEF Reports

LEMMA GoneFacts ==
  ASSUME NEW report \in Reports
  PROVE  [report EXCEPT !.status = FALSE] \in Reports
<1>1. PICK r \in Listings \X Model \X BOOLEAN :
        r[2] \in DOMAIN r[1] /\ report = [r[1][r[2]] EXCEPT !.status = r[3]]
  BY DEF Reports
<1> DEFINE s == <<r[1], r[2], FALSE>>
<1>2. s \in Listings \X Model \X BOOLEAN /\ s[1] = r[1] /\ s[2] = r[2] /\ s[3] = FALSE
  BY <1>1
<1> HIDE DEF s
<1>3. [report EXCEPT !.status = FALSE] = [s[1][s[2]] EXCEPT !.status = s[3]]
  BY <1>1, <1>2
<1> QED
  BY <1>1, <1>2, <1>3 DEF Reports

LEMMA CommitStep ==
  ASSUME CatalogInv, CacheInv, NEW found \in Discoveries, Commit(found)
  PROVE  CatalogInv'
<1> DEFINE cached == refresh.cached
           listing == found.listing
           listed == DOMAIN listing
           merging == mergeDiscoveredCatalog(catalog, found.models, SnapshotOf(cached), clock)
           merged == retainOmitted(catalog, found, merging)
           Contra(m) ==
             /\ Numbers(listing[m].cost) # {0}
             /\ IF cached = None
                THEN m \in DOMAIN catalog /\ classifyModelPricing(m, catalog[m].pricing, clock) = "free"
                ELSE SaysFree(Publications[cached.content], m, listing[m].api)
           Settled(m) == classifyModelPricing(m, merged[m].pricing, clock) # "unknown"
           LastOf(m) == CASE m \in listed -> [listing[m] EXCEPT !.status = @ # "deprecated"]
                        [] m \notin listed /\ found.complete /\ seen[m] # None ->
                             [seen[m] EXCEPT !.status = FALSE]
                        [] OTHER -> seen[m]
           Against == {m \in Model : \/ m \in listed /\ Contra(m)
                                     \/ m \in contradicted /\ (m \in listed => ~Settled(m))}
<1>1. UNCHANGED <<clock, published, refreshes, served>> /\ HistoryInv /\ Genuine(cached)
  BY DEF Commit, CatalogInv, CacheInv
<1>2. CASE ~validateCatalog(merged)
  <2>1. UNCHANGED <<catalog, connections, seen, contradicted>>
    BY <1>2 DEF Commit, stored, history, Record
  <2> QED
    BY <1>1, <2>1, KeepCatalog, RefreshAssumption DEF CatalogInv, HistoryInv
<1>3. CASE validateCatalog(merged)
  <2>1. /\ catalog' = merged /\ connections' = observeConnections(catalog, connections, found)
        /\ seen' = [m \in Model |-> LastOf(m)] /\ contradicted' = Against
    BY <1>3 DEF Commit, Record
  <2>2. /\ DOMAIN found.models = listed
        /\ listed # {} => /\ listing \in Listings
                          /\ \A m \in listed : IsParsed(found.models[m], listing[m])
    BY DiscoveryFacts
  <2>3. listed \subseteq Model
    BY <2>2, ListingFacts
  <2>4. /\ DOMAIN merging = DOMAIN catalog \cup listed /\ DOMAIN merged = DOMAIN merging
        /\ DOMAIN connections' = Provider
    BY <2>1, <2>2 DEF mergeDiscoveredCatalog, retainOmitted, observeConnections
  <2>5. ASSUME NEW m \in listed
        PROVE  merged[m] = Listed(m, catalog, found.models[m], SnapshotOf(cached), clock)
    BY <2>2, <2>4 DEF mergeDiscoveredCatalog, retainOmitted
  <2>6. ASSUME NEW m \in DOMAIN catalog, m \notin listed
        PROVE  LET new == Omitted(m, catalog[m], SnapshotOf(cached))
               IN /\ found.complete => merged[m] = new
                  /\ ~found.complete =>
                       merged[m] = [new EXCEPT !.available = catalog[m].available,
                                               !.discovered = catalog[m].discovered]
    BY <2>2, <2>4, <2>6 DEF mergeDiscoveredCatalog, retainOmitted
  <2> HIDE DEF merged, merging
  <2>7. ASSUME NEW m \in Model
        PROVE  /\ LastOf(m) \in Reports \cup {None}
               /\ m \in listed => LastOf(m) # None
               /\ m \notin listed => (LastOf(m) # None <=> seen[m] # None)
    <3>1. seen[m] \in Reports \cup {None}
      BY <1>1 DEF HistoryInv
    <3>2. CASE m \in listed
      BY <2>2, <3>2, LastFacts, ReportFacts
    <3>3. CASE m \notin listed /\ found.complete /\ seen[m] # None
      BY <3>1, <3>3, GoneFacts, ReportFacts
    <3>4. CASE m \notin listed /\ ~(found.complete /\ seen[m] # None)
      BY <3>1, <3>4
    <3> QED
      BY <3>2, <3>3, <3>4
  <2>8. ASSUME NEW m \in listed
        PROVE  Backed(m, merged[m], LastOf(m), Against)
    <3>1. /\ LastOf(m) = [listing[m] EXCEPT !.status = @ # "deprecated"] /\ LastOf(m) # None
          /\ m \in Model
      BY <2>3, <2>7
    <3>2. /\ IsReport(listing[m]) /\ IsParsed(found.models[m], listing[m])
          /\ DOMAIN listing[m] = {"api", "cost", "input", "output", "tools", "status"}
      BY <2>2, ListingFacts
    <3>3. m \in DOMAIN catalog => Backed(m, catalog[m], seen[m], contradicted)
      BY DEF CatalogInv
    <3>4. m \in Against => Contra(m) \/ (m \in contradicted /\ ~Settled(m))
      OBVIOUS
    <3> HIDE DEF LastOf, Against, listing, cached
    <3>5. /\ "status" \in DOMAIN listing[m]
          /\ m \in Against =>
             \/ /\ Numbers(listing[m].cost) # {0}
                /\ IF cached = None
                   THEN m \in DOMAIN catalog /\ classifyModelPricing(m, catalog[m].pricing, clock) = "free"
                   ELSE SaysFree(Publications[cached.content], m, listing[m].api)
             \/ m \in contradicted /\ classifyModelPricing(m, merged[m].pricing, clock) = "unknown"
      BY <3>2, <3>4
    <3> QED
      BY <1>1, <2>5, <3>1, <3>2, <3>3, <3>5, ListedBacked
  <2>9. ASSUME NEW m \in DOMAIN catalog, m \notin listed
        PROVE  Backed(m, merged[m], LastOf(m), Against)
    <3>1. Backed(m, catalog[m], seen[m], contradicted) /\ m \in Model
      BY <1>1 DEF CatalogInv, HistoryInv
    <3>2. /\ LastOf(m) # None <=> seen[m] # None
          /\ m \in Against => m \in contradicted
      BY <2>7, <2>9, <3>1
    <3>3. /\ found.complete /\ seen[m] # None => LastOf(m) = [seen[m] EXCEPT !.status = FALSE]
          /\ ~(found.complete /\ seen[m] # None) => LastOf(m) = seen[m]
      BY <2>9
    <3> HIDE DEF LastOf, Against, listing, cached
    <3> DEFINE new == Omitted(m, catalog[m], SnapshotOf(cached))
    <3>4. \/ merged[m] = new /\ LastOf(m) = seen[m]
          \/ merged[m] = new /\ seen[m] # None /\ LastOf(m) = [seen[m] EXCEPT !.status = FALSE]
          \/ merged[m] = [new EXCEPT !.available = catalog[m].available,
                                     !.discovered = catalog[m].discovered] /\ LastOf(m) = seen[m]
      BY <2>6, <2>9, <3>3
    <3> QED
      BY <1>1, <3>1, <3>2, <3>4, OmittedBacked
  <2>10. \A m \in DOMAIN merged : Backed(m, merged[m], LastOf(m), Against)
    BY <2>4, <2>8, <2>9
  <2>11. Against \subseteq DOMAIN merged
    BY <1>1, <2>3, <2>4 DEF HistoryInv
  <2> HIDE DEF LastOf, Against, listing, cached
  <2>12. seen' \in [Model -> Reports \cup {None}]
    BY <2>1, <2>7
  <2>13. HistoryInv'
    BY <1>1, <2>1, <2>3, <2>4, <2>11, <2>12, RefreshAssumption DEF HistoryInv, listing
  <2>14. validateCatalog(catalog)'
    BY <1>3, <2>1 DEF validateCatalog
  <2>15. ASSUME NEW m \in DOMAIN catalog'
         PROVE  Backed(m, catalog[m], seen[m], contradicted)'
    <3>1. m \in DOMAIN merged /\ m \in Model
      BY <2>1, <2>13 DEF HistoryInv
    <3>2. PICK last : last = LastOf(m)
      OBVIOUS
    <3>3. PICK e : e = merged[m]
      OBVIOUS
    <3>4. PICK against : against = Against
      OBVIOUS
    <3>5. Backed(m, e, last, against)
      BY <2>10, <3>1, <3>2, <3>3, <3>4
    <3>6. catalog'[m] = e /\ seen'[m] = last /\ contradicted' = against
      BY <2>1, <3>1, <3>2, <3>3, <3>4
    <3> QED
      BY <1>1, <3>5, <3>6 DEF Backed
  <2> QED
    BY <2>13, <2>14, <2>15 DEF CatalogInv
<1> QED
  BY <1>2, <1>3

LEMMA CatalogInvStep == CacheInv /\ CatalogInv /\ [Next]_vars => CatalogInv'
<1>1. ASSUME CatalogInv, UNCHANGED <<clock, published, served, catalog, connections, seen, contradicted>>,
             refreshes' \in 0..MaxRefreshes
      PROVE  CatalogInv'
  <2>1. /\ published' \in DOMAIN Publications /\ clock' \in 0..MaxClock /\ clock <= clock'
        /\ served \subseteq served'
        /\ \A s \in served' : s[1] \in 0..clock' /\ s[2] \in DOMAIN Publications
    BY <1>1, RefreshAssumption DEF CatalogInv, HistoryInv
  <2> QED
    BY <1>1, <2>1, KeepCatalog
<1>2. ASSUME CatalogInv, Begin PROVE CatalogInv'
  <2>1. /\ UNCHANGED <<clock, published, served, catalog, connections, seen, contradicted>>
        /\ refreshes < MaxRefreshes /\ refreshes' = refreshes + 1
    BY <1>2 DEF Begin, stored, history
  <2>2. refreshes' \in 0..MaxRefreshes
    BY <1>2, <2>1, RefreshAssumption DEF CatalogInv, HistoryInv
  <2> QED
    BY <1>1, <1>2, <2>1, <2>2
<1>3. ASSUME CatalogInv, Answer \/ Receive \/ Miss \/ Crash \/ LoseCache \/ UNCHANGED vars
      PROVE  CatalogInv'
  <2>1. /\ UNCHANGED <<clock, published, served, catalog, connections, seen, contradicted>>
        /\ refreshes' = refreshes
    BY <1>3 DEF Answer, Receive, Miss, Crash, LoseCache, vars, stored, history
  <2>2. refreshes' \in 0..MaxRefreshes
    BY <1>3, <2>1 DEF CatalogInv, HistoryInv
  <2> QED
    BY <1>1, <1>3, <2>1, <2>2
<1>4. ASSUME CatalogInv, Publish PROVE CatalogInv'
  <2>1. /\ UNCHANGED <<catalog, connections, seen, contradicted, clock, refreshes>>
        /\ published < Len(Publications) /\ published' = published + 1
        /\ served' = served \cup {<<clock, published'>>}
    BY <1>4 DEF Publish, stored, history
  <2>2. published' \in DOMAIN Publications
    <3> DEFINE n == Len(Publications)
    <3>1. n \in Nat /\ published \in 1..n
      BY <1>4, RefreshAssumption DEF CatalogInv, HistoryInv
    <3>2. published < n /\ published' = published + 1
      BY <2>1
    <3> HIDE DEF n
    <3>3. published' \in 1..n
      BY <3>1, <3>2
    <3> QED
      BY <3>3, RefreshAssumption DEF n
  <2>3. \A s \in served' : s[1] \in 0..clock' /\ s[2] \in DOMAIN Publications
    BY <1>4, <2>1, <2>2, RefreshAssumption DEF CatalogInv, HistoryInv
  <2>4. /\ clock' \in 0..MaxClock /\ clock <= clock' /\ refreshes' \in 0..MaxRefreshes
        /\ served \subseteq served'
    BY <1>4, <2>1, RefreshAssumption DEF CatalogInv, HistoryInv
  <2> QED
    BY <1>4, <2>1, <2>2, <2>3, <2>4, KeepCatalog
<1>5. ASSUME CatalogInv, Tick PROVE CatalogInv'
  <2>1. /\ UNCHANGED <<catalog, connections, seen, contradicted, published, refreshes>>
        /\ clock < MaxClock /\ clock' = clock + 1
        /\ served' = served \cup {<<clock', published>>}
    BY <1>5 DEF Tick, stored, history
  <2>2. /\ clock' \in 0..MaxClock /\ clock <= clock' /\ published \in DOMAIN Publications
        /\ refreshes' \in 0..MaxRefreshes /\ served \subseteq served' /\ clock \in 0..MaxClock
    BY <1>5, <2>1, RefreshAssumption DEF CatalogInv, HistoryInv
  <2>3. \A s \in served : s[1] \in 0..clock' /\ s[2] \in DOMAIN Publications
    BY <1>5, <2>1, <2>2, RefreshAssumption DEF CatalogInv, HistoryInv
  <2>4. \A s \in served' : s[1] \in 0..clock' /\ s[2] \in DOMAIN Publications
    BY <2>1, <2>2, <2>3, RefreshAssumption
  <2> QED
    BY <1>5, <2>1, <2>2, <2>4, KeepCatalog
<1> QED
  BY <1>2, <1>3, <1>4, <1>5, CommitStep DEF Next

LEMMA Invariant == Spec => [](CacheInv /\ CatalogInv)
<1>1. Init => CacheInv /\ CatalogInv
  BY CacheInit, CatalogInit
<1>2. CacheInv /\ CatalogInv /\ [Next]_vars => (CacheInv /\ CatalogInv)'
  BY CacheInvStep, CatalogInvStep
<1> QED
  BY <1>1, <1>2, PTL DEF Spec

(* What a refresh stores is always a catalog that is valid, and no more    *)
(* than the models there are (the validation before the commit of          *)
(* #refresh).                                                              *)
THEOREM CatalogStaysValid == Spec => []TypeOK
<1>1. CacheInv /\ CatalogInv => TypeOK
  <2> SUFFICES ASSUME CacheInv, CatalogInv PROVE TypeOK
    OBVIOUS
  <2>1. \A m \in DOMAIN catalog : /\ catalog[m].pricing.class \in {"free", "paid", "unknown"}
                                  /\ DOMAIN catalog[m].roles \subseteq MODEL_ROLES
    BY DEF CatalogInv, Backed, IsEntry, IsPricing
  <2>2. refresh.phase \in {"idle", "fetch", "answered", "merge"}
    BY DEF CacheInv
  <2> QED
    BY <2>1, <2>2 DEF CatalogInv, HistoryInv, TypeOK
<1> QED
  BY <1>1, Invariant, PTL

(* A price that counts as free was published at most a day ago, for the    *)
(* API that the model was listed with last, as zero in every block, and no *)
(* listing since has contradicted it: for any publications and listings,   *)
(* over any sequence of refreshes, failures and crashes                    *)
(* (classifyModelPricing over mergeDiscoveredCatalog).                     *)
THEOREM FreePricesAreEarned == Spec => []FreeIsEarned
<1>1. CacheInv /\ CatalogInv => FreeIsEarned
  <2> SUFFICES ASSUME CatalogInv, NEW m \in DOMAIN catalog,
                      classifyModelPricing(m, catalog[m].pricing, clock) = "free"
               PROVE  Earned(m)
    BY DEF FreeIsEarned
  <2> DEFINE p == catalog[m].pricing
  <2>1. Backed(m, catalog[m], seen[m], contradicted) /\ IsPricing(p) /\ clock \in Int
    BY DEF CatalogInv, HistoryInv, Backed, IsEntry
  <2>2. /\ p.class = "free" /\ p.reasons = {} /\ p.source = "models.dev" /\ ~isPlanProvider(m)
        /\ clock < p.fetchedAt + TTL
    <3>1. IsPricing(p) /\ clock \in Int /\ classifyModelPricing(m, p, clock) = "free"
      BY <2>1
    <3> HIDE DEF p
    <3> QED
      BY <3>1, ClassifyFacts
  <2>3. PICK n \in DOMAIN Publications : /\ <<p.fetchedAt, n>> \in served
                                         /\ SaysFree(Publications[n], m, seen[m].api)
    BY <2>1, <2>2 DEF Backed
  <2>4. seen[m] # None /\ m \notin contradicted
    BY <2>1, <2>2 DEF Backed
  <2> DEFINE s == <<p.fetchedAt, n>>
  <2>5. /\ s \in served /\ s[1] = p.fetchedAt /\ s[2] = n
        /\ clock - TTL < p.fetchedAt
    BY <2>1, <2>2, <2>3, EvidenceAssumption DEF IsPricing
  <2> QED
    BY <2>2, <2>3, <2>4, <2>5 DEF Earned
<1> QED
  BY <1>1, Invariant, PTL

-----------------------------------------------------------------------------
(* The first candidate.                                                    *)

(* A finite set that some relation orders has a first element.             *)
LEMMA FirstExists ==
  ASSUME NEW S, IsFiniteSet(S), S # {}, NEW R,
         \A x, y \in S : x # y => <<x, y>> \in R \/ <<y, x>> \in R,
         \A x, y, z \in S : <<x, y>> \in R /\ <<y, z>> \in R => <<x, z>> \in R
  PROVE  \E x \in S : \A y \in S \ {x} : <<x, y>> \in R
<1> DEFINE First(T) == \E x \in T : \A y \in T \ {x} : <<x, y>> \in R
           Bad == {T \in SUBSET S : T # {} /\ ~First(T)}
<1>1. IsWellFoundedOn(StrictSubsetOrdering(S), SUBSET S)
  BY FS_StrictSubsetOrderingWellFounded, FS_FiniteSubsetsOfFinite
<1>2. SUFFICES ASSUME Bad # {} PROVE FALSE
  <2>1. S \in SUBSET S /\ S # {}
    OBVIOUS
  <2>2. Bad = {} => First(S)
    BY <2>1
  <2> QED
    BY <1>2, <2>2
<1>3. Bad \subseteq SUBSET S
  OBVIOUS
<1> HIDE DEF Bad
<1>4. PICK T \in Bad : \A U \in Bad : <<U, T>> \notin StrictSubsetOrdering(S)
  BY <1>1, <1>2, <1>3, WFMin
<1>5. T \subseteq S /\ T # {} /\ ~First(T)
  BY <1>4 DEF Bad
<1>6. PICK x \in T : TRUE
  BY <1>5
<1> DEFINE U == T \ {x}
<1>7. <<U, T>> \in StrictSubsetOrdering(S)
  <2>1. U \in SUBSET S /\ T \in SUBSET S /\ U \subseteq T /\ U # T
    BY <1>5, <1>6
  <2> HIDE DEF U
  <2> QED
    BY <2>1 DEF StrictSubsetOrdering
<1>8. CASE U = {}
  BY <1>5, <1>6, <1>8
<1>9. CASE U # {}
  <2>1. First(U)
    BY <1>4, <1>5, <1>7, <1>9 DEF Bad
  <2>2. PICK y \in U : \A z \in U \ {y} : <<y, z>> \in R
    BY <2>1
  <2>3. x \in S /\ y \in S /\ x # y /\ y \in T
    BY <1>5, <1>6, <2>2
  <2>4. CASE <<y, x>> \in R
    <3>1. \A z \in T \ {y} : <<y, z>> \in R
      BY <2>2, <2>4
    <3> QED
      BY <1>5, <2>3, <3>1
  <2>5. CASE <<x, y>> \in R
    <3>1. \A z \in T \ {x} : <<x, z>> \in R
      BY <1>5, <2>2, <2>3, <2>5
    <3> QED
      BY <1>5, <1>6, <3>1
  <2> QED
    BY <2>3, <2>4, <2>5
<1> QED
  BY <1>8, <1>9

Before(a, b) ==
  \/ a[1] < b[1]
  \/ a[1] = b[1] /\ a[2] < b[2]
  \/ a[1] = b[1] /\ a[2] = b[2] /\ a[3] < b[3]
  \/ a[1] = b[1] /\ a[2] = b[2] /\ a[3] = b[3] /\ a[4] < b[4]
  \/ a[1] = b[1] /\ a[2] = b[2] /\ a[3] = b[3] /\ a[4] = b[4] /\ a[5] < b[5]

Ranks == Int \X Int \X Int \X Int \X Int

LEMMA CompareFacts ==
  ASSUME NEW a \in Ranks, NEW b \in Ranks
  PROVE  compareEligibleModels(a, b) <=> Before(a, b)
<1>1. DOMAIN a = {1, 2, 3, 4, 5}
  BY DEF Ranks
<1>2. compareEligibleModels(a, b) <=>
        \E i \in {1, 2, 3, 4, 5} : a[i] < b[i] /\ \A j \in 1..(i - 1) : a[j] = b[j]
  BY <1>1 DEF compareEligibleModels
<1>3. /\ 1..(1 - 1) = {} /\ 1..(2 - 1) = {1} /\ 1..(3 - 1) = {1, 2} /\ 1..(4 - 1) = {1, 2, 3}
      /\ 1..(5 - 1) = {1, 2, 3, 4}
  OBVIOUS
<1> QED
  BY <1>2, <1>3 DEF Before

LEMMA BeforeFacts ==
  ASSUME NEW a \in Ranks, NEW b \in Ranks
  PROVE  /\ a[5] # b[5] => Before(a, b) \/ Before(b, a)
         /\ \A c \in Ranks : Before(a, b) /\ Before(b, c) => Before(a, c)
BY DEF Before, Ranks

LEMMA RankFacts ==
  ASSUME NEW m \in Model, NEW e, IsEntry(e), NEW role \in DOMAIN e.roles, NEW preference, NEW now
  PROVE  /\ RankOf(m, e, role, preference, now) \in Ranks
         /\ RankOf(m, e, role, preference, now)[5] = IdOrder[m]
<1>1. /\ e.roles[role] \in Nat /\ IdOrder[m] \in Nat
      /\ costRank(m, e, preference, now) \in Int
  BY PlannerAssumption DEF IsEntry, costRank
<1>2. role \in DOMAIN Quality /\ m \in DOMAIN Quality[role] => Quality[role][m] \in Int
  BY PlannerAssumption
<1> QED
  BY <1>1, <1>2 DEF RankOf, Ranks

LEMMA EligibleFacts ==
  ASSUME NEW m, NEW e, NEW connection, NEW settings, NEW role, NEW modalities, NEW access, NEW now,
         resolveEligibility(m, e, connection, settings, role, modalities, access, now) = {}
  PROVE  /\ modelEnabled(settings, m) /\ e.available /\ m \notin settings.unavailable
         /\ settings.costPolicy = "free-only" => classifyModelPricing(m, e.pricing, now) = "free"
         /\ modelSupports(e, role, modalities, access)
<1> DEFINE price == classifyModelPricing(m, e.pricing, now)
           saved == settings.roleConnections[role]
           disabled == ~modelEnabled(settings, m)
           missing == ~e.available \/ m \in settings.unavailable
           endpoint == ~e.api.urlValid
           rebound == /\ saved # None
                      /\ connection = None
                         \/ saved.connectionId # connection.id
                         \/ saved.bindingRevision # connection.bindingRevision
           unverified == /\ settings.costPolicy = "free-only"
                         /\ \/ price # "free"
                            \/ connection # None /\ connection.billing = "subscription"
           unpriced == /\ settings.costPolicy # "free-only"
                       /\ settings.paidEligibility = "verified-pricing"
                       /\ price = "unknown"
           incompatible == ~modelSupports(e, role, modalities, access)
           blocked == [disabled |-> disabled, missing |-> missing, endpoint |-> endpoint,
                       rebound |-> rebound, unverified |-> unverified, unpriced |-> unpriced,
                       incompatible |-> incompatible]
<1>1. {reason \in DOMAIN blocked : blocked[reason]} = {}
  BY DEF resolveEligibility
<1> HIDE DEF disabled, missing, endpoint, rebound, unverified, unpriced, incompatible
<1>2. /\ {"disabled", "missing", "unverified", "incompatible"} \subseteq DOMAIN blocked
      /\ blocked["disabled"] = disabled /\ blocked["missing"] = missing
      /\ blocked["unverified"] = unverified /\ blocked["incompatible"] = incompatible
  OBVIOUS
<1> HIDE DEF blocked
<1>3. ~blocked["disabled"] /\ ~blocked["missing"] /\ ~blocked["unverified"] /\ ~blocked["incompatible"]
  BY <1>1, <1>2, Zenon
<1>4. ~disabled /\ ~missing /\ ~unverified /\ ~incompatible
  BY <1>2, <1>3, Zenon
<1>5. modelEnabled(settings, m) /\ modelSupports(e, role, modalities, access)
  BY <1>4, Zenon DEF disabled, incompatible
<1>6. e.available /\ m \notin settings.unavailable
  BY <1>4, Zenon DEF missing
<1>7. settings.costPolicy = "free-only" => price = "free"
  BY <1>4, Zenon DEF unverified
<1> QED
  BY <1>5, <1>6, <1>7, Zenon DEF price

(* The model for a role is one that may be used, and the pinned one if one *)
(* is pinned.                                                              *)
LEMMA AssignedFacts ==
  ASSUME DOMAIN catalog \subseteq Model, \A m \in DOMAIN catalog : IsEntry(catalog[m]),
         NEW role, NEW route, NEW task, NEW settings, NEW now,
         NEW m, m = assignmentFor(role, route, task, catalog, connections, settings, now), m # None
  PROVE  /\ m \in eligibleModelsForRole(catalog, connections, settings, role,
                                        requirementsFor(role, route, task), now)
         /\ settings.roleAssignments[role] \in {"auto", m}
<1> DEFINE candidates == eligibleModelsForRole(catalog, connections, settings, role,
                                               requirementsFor(role, route, task), now)
           rank(x) == RankOf(x, catalog[x], role, settings.costPreference, now)
           configured == settings.roleAssignments[role]
           Best(x) == \A other \in candidates \ {x} : compareEligibleModels(rank(x), rank(other))
<1>1. candidates \subseteq DOMAIN catalog
  BY DEF eligibleModelsForRole
<1>2. ASSUME NEW x \in candidates PROVE role \in DOMAIN catalog[x].roles
  <2>1. \E connection : resolveEligibility(x, catalog[x], connection, settings, role,
          requirementsFor(role, route, task).modalities, requirementsFor(role, route, task).access, now) = {}
    BY <1>2 DEF eligibleModelsForRole
  <2>2. modelSupports(catalog[x], role, requirementsFor(role, route, task).modalities,
                      requirementsFor(role, route, task).access)
    BY <2>1, EligibleFacts
  <2> QED
    BY <2>2 DEF modelSupports
<1> HIDE DEF candidates
<1>3. ASSUME NEW x \in candidates
      PROVE  rank(x) \in Ranks /\ rank(x)[5] = IdOrder[x] /\ x \in Model
  BY <1>1, <1>2, <1>3, RankFacts
<1>4. candidates # {} => \E x \in candidates : Best(x)
  <2> SUFFICES ASSUME candidates # {} PROVE \E x \in candidates : Best(x)
    OBVIOUS
  <2> HIDE DEF rank
  <2> DEFINE R == {pair \in candidates \X candidates :
                     compareEligibleModels(rank(pair[1]), rank(pair[2]))}
  <2>1. IsFiniteSet(candidates)
    BY <1>1, PlannerAssumption, FS_Subset
  <2>2. \A x, y \in candidates : <<x, y>> \in R <=> Before(rank(x), rank(y))
    BY <1>3, CompareFacts
  <2>3. \A x, y \in candidates : <<x, y>> \in R => compareEligibleModels(rank(x), rank(y))
    OBVIOUS
  <2> HIDE DEF R
  <2>4. \A x, y \in candidates : x # y => <<x, y>> \in R \/ <<y, x>> \in R
    <3> SUFFICES ASSUME NEW x \in candidates, NEW y \in candidates, x # y
                 PROVE  <<x, y>> \in R \/ <<y, x>> \in R
      OBVIOUS
    <3>1. rank(x)[5] # rank(y)[5]
      BY <1>3, PlannerAssumption
    <3> QED
      BY <1>3, <2>2, <3>1, BeforeFacts
  <2>5. \A x, y, z \in candidates : <<x, y>> \in R /\ <<y, z>> \in R => <<x, z>> \in R
    BY <1>3, <2>2, BeforeFacts
  <2>6. \E x \in candidates : \A y \in candidates \ {x} : <<x, y>> \in R
    BY <2>1, <2>4, <2>5, FirstExists
  <2> QED
    BY <2>3, <2>6
<1>5. m = IF configured # "auto" THEN IF configured \in candidates THEN configured ELSE None
          ELSE IF candidates = {} THEN None ELSE CHOOSE x \in candidates : Best(x)
  BY DEF assignmentFor, candidates
<1> HIDE DEF Best, rank
<1>6. m \in candidates /\ configured \in {"auto", m}
  BY <1>4, <1>5
<1> QED
  BY <1>6 DEF candidates

LEMMA PlanFacts ==
  ASSUME NEW task, NEW settings, NEW now,
         NEW plan, plan = planRoute(task, catalog, connections, settings, now),
         NEW role \in DOMAIN plan
  PROVE  \E route :
           /\ plan[role].modelId =
                assignmentFor(role, route, task, catalog, connections, settings, now)
           /\ plan[role].modelId # None
           /\ plan[role].modalities = requirementsFor(role, route, task).modalities
           /\ plan[role].access = requirementsFor(role, route, task).access
<1> DEFINE route == routeFor(task)
           Assigned(r) == assignmentFor(r, route, task, catalog, connections, settings, now)
           assigned == [r \in rolesFor(route, task) |-> Assigned(r)]
           Planned(r) == LET needs == requirementsFor(r, route, task)
                         IN [modelId |-> assigned[r], modalities |-> needs.modalities,
                             access |-> needs.access]
           refused == \/ task.delegationDepth > 0
                      \/ route # "direct" /\ settings.maxDelegationDepth = 0
                      \/ \E r \in DOMAIN assigned : assigned[r] = None
<1>1. plan = IF refused THEN <<>> ELSE [r \in DOMAIN assigned |-> Planned(r)]
  BY DEF planRoute
<1>2. DOMAIN assigned = rolesFor(route, task) /\ \A r \in DOMAIN assigned : assigned[r] = Assigned(r)
  OBVIOUS
<1> HIDE DEF assigned, Assigned, route
<1>3. ~refused
  <2> SUFFICES ASSUME refused PROVE FALSE
    OBVIOUS
  <2>1. plan = <<>>
    BY <1>1
  <2> QED
    BY <2>1
<1>4. \A r \in DOMAIN assigned : assigned[r] # None
  BY <1>3
<1> HIDE DEF refused
<1>5. plan = [r \in DOMAIN assigned |-> Planned(r)]
  BY <1>1, <1>3
<1>6. role \in DOMAIN assigned /\ plan[role] = Planned(role)
  BY <1>5
<1> QED
  BY <1>2, <1>4, <1>6 DEF Assigned

(* Whatever is planned is free where only that is allowed, may be used,    *)
(* and can do, by its last listing, what its role needs: for any settings  *)
(* and tasks, in any state that refreshes, failures and crashes lead to    *)
(* (planRoute, eligibleModelsForRole).                                     *)
THEOREM PlansAreReported == Spec => []PlannedModelIsReported
<1>1. ASSUME CatalogInv, FreeIsEarned PROVE PlannedModelIsReported
  <2> SUFFICES ASSUME NEW settings \in Settings, NEW task \in Tasks, NEW plan,
                      plan = planRoute(task, catalog, connections, settings, clock),
                      NEW role \in DOMAIN plan
               PROVE  LET m == plan[role].modelId
                          last == seen[m]
                      IN /\ last # None /\ last.status
                         /\ plan[role].modalities \subseteq last.input
                         /\ "text" \in last.output
                         /\ (plan[role].access = "write" \/ role # "reviewer") => last.tools
                         /\ settings.controls[m] # "disabled" /\ m \notin settings.unavailable
                         /\ settings.roleAssignments[role] \in {"auto", m}
                         /\ settings.costPolicy = "free-only" => Earned(m)
    BY DEF PlannedModelIsReported
  <2> DEFINE m == plan[role].modelId
             e == catalog[m]
             last == seen[m]
  <2>1. PICK route :
          /\ m = assignmentFor(role, route, task, catalog, connections, settings, clock)
          /\ m # None
          /\ plan[role].modalities = requirementsFor(role, route, task).modalities
          /\ plan[role].access = requirementsFor(role, route, task).access
    BY PlanFacts
  <2> DEFINE needs == requirementsFor(role, route, task)
  <2>2. DOMAIN catalog \subseteq Model /\ \A x \in DOMAIN catalog : IsEntry(catalog[x])
    BY <1>1 DEF CatalogInv, HistoryInv, Backed
  <2> HIDE DEF m
  <2>3. /\ m \in eligibleModelsForRole(catalog, connections, settings, role, needs, clock)
        /\ settings.roleAssignments[role] \in {"auto", m}
    BY <2>1, <2>2, AssignedFacts
  <2>4. /\ m \in DOMAIN catalog
        /\ \E connection : resolveEligibility(m, e, connection, settings, role,
             needs.modalities, needs.access, clock) = {}
    BY <2>3 DEF eligibleModelsForRole
  <2>5. /\ modelEnabled(settings, m) /\ e.available /\ m \notin settings.unavailable
        /\ settings.costPolicy = "free-only" => classifyModelPricing(m, e.pricing, clock) = "free"
        /\ modelSupports(e, role, needs.modalities, needs.access)
    BY <2>4, EligibleFacts
  <2>6. Backed(m, e, last, contradicted) /\ e.available \in BOOLEAN
    BY <1>1, <2>2, <2>4 DEF CatalogInv, IsEntry
  <2>7. e.available = TRUE
    BY <2>5, <2>6, Zenon
  <2>8. /\ last # None /\ last.status = TRUE
        /\ e.input = last.input /\ e.output = last.output /\ e.toolCall = last.tools
    BY <2>6, <2>7 DEF Backed
  <2>9. last.status
    BY <2>8, Zenon
  <2>10. /\ needs.modalities \subseteq last.input /\ "text" \in last.output
         /\ role # "reviewer" => last.tools
    BY <2>5, <2>8, Zenon DEF modelSupports
  <2>11. role = "reviewer" => needs.access # "write"
    BY DEF requirementsFor
  <2>12. settings.controls[m] # "disabled"
    BY <2>5 DEF modelEnabled
  <2>13. settings.costPolicy = "free-only" => Earned(m)
    BY <1>1, <2>4, <2>5 DEF FreeIsEarned
  <2> HIDE DEF last, e, needs
  <2> QED
    BY <2>1, <2>3, <2>5, <2>8, <2>9, <2>10, <2>11, <2>12, <2>13, Zenon DEF m, last, needs
<1>2. CacheInv /\ CatalogInv /\ FreeIsEarned => PlannedModelIsReported
  BY <1>1
<1> QED
  BY <1>2, Invariant, FreePricesAreEarned, PTL

-----------------------------------------------------------------------------
(* Connections.                                                            *)

Discovered(p) == {m \in DOMAIN catalog : ProviderOf[m] = p /\ catalog[m].discovered = TRUE}

Known(p) == [m \in Discovered(p) |-> catalog[m].api]

(* A provider has the connection that its discovered models make.          *)
ConnectionsInv ==
  \A p \in Provider :
    connections[p] = IF Discovered(p) = {} THEN None ELSE deriveBindingRevision(Known(p))

LEMMA ConnectionsInit == Init => ConnectionsInv
<1> SUFFICES ASSUME Init, NEW p \in Provider
             PROVE  connections[p] = None /\ Discovered(p) = {}
  BY DEF ConnectionsInv
<1>1. ASSUME NEW m \in DOMAIN catalog PROVE catalog[m].discovered = FALSE
  <2>1. m \in DOMAIN Curated /\ catalog[m] = [Curated[m] EXCEPT !.available = FALSE, !.discovered = FALSE]
    BY <1>1 DEF Init, unavailableCatalog
  <2>2. IsEntry(Curated[m])
    BY <2>1, CuratedAssumption
  <2> QED
    BY <2>1, <2>2 DEF IsEntry
<1> QED
  BY <1>1 DEF Init, Discovered

LEMMA ConnectionsStep ==
  ASSUME CatalogInv, CatalogInv', ConnectionsInv, NEW found \in Discoveries, Commit(found)
  PROVE  ConnectionsInv'
<1> DEFINE merging == mergeDiscoveredCatalog(catalog, found.models, SnapshotOf(refresh.cached), clock)
           merged == retainOmitted(catalog, found, merging)
           listed == DOMAIN found.models
           providers == {ProviderOf[m] : m \in listed}
           cached == IF found.complete THEN {}
                     ELSE {m \in DOMAIN catalog \ listed :
                             catalog[m].discovered /\ ProviderOf[m] \in providers}
           apis(p) == [m \in {x \in listed \cup cached : ProviderOf[x] = p} |->
                         IF m \in listed THEN found.models[m].api ELSE catalog[m].api]
<1>1. \A m \in DOMAIN catalog : catalog[m].discovered \in BOOLEAN /\ IsEntry(catalog[m])
  BY DEF CatalogInv, Backed, IsEntry
<1>2. CASE ~validateCatalog(merged)
  <2>1. UNCHANGED <<catalog, connections>>
    BY <1>2 DEF Commit, stored
  <2> QED
    BY <2>1 DEF ConnectionsInv, Discovered, Known
<1>3. CASE validateCatalog(merged)
  <2>1. /\ catalog' = merged
        /\ connections' = [p \in Provider |-> CASE p \in providers -> deriveBindingRevision(apis(p))
                                                [] p \notin providers /\ found.complete -> None
                                                [] OTHER -> connections[p]]
    BY <1>3 DEF Commit, observeConnections
  <2>2. DOMAIN merged = DOMAIN catalog \cup listed
    BY DEF mergeDiscoveredCatalog, retainOmitted
  <2>3. ASSUME NEW m \in listed
        PROVE  merged[m].discovered = TRUE /\ merged[m].api = found.models[m].api
    <3>1. merged[m] = Listed(m, catalog, found.models[m], SnapshotOf(refresh.cached), clock)
      BY DEF mergeDiscoveredCatalog, retainOmitted
    <3> QED
      BY <3>1 DEF Listed
  <2>4. ASSUME NEW m \in DOMAIN catalog, m \notin listed
        PROVE  /\ merged[m].discovered = IF found.complete THEN FALSE ELSE catalog[m].discovered
               /\ merged[m].api = catalog[m].api
    <3> DEFINE new == Omitted(m, catalog[m], SnapshotOf(refresh.cached))
    <3>1. new.discovered = FALSE /\ new.api = catalog[m].api
          /\ DOMAIN new = DOMAIN catalog[m]
      BY <1>1 DEF Omitted, IsEntry
    <3>2. merged[m] = IF found.complete THEN new
                      ELSE [new EXCEPT !.available = catalog[m].available,
                                       !.discovered = catalog[m].discovered]
      BY <2>4 DEF mergeDiscoveredCatalog, retainOmitted
    <3> HIDE DEF new, merged
    <3> QED
      BY <1>1, <3>1, <3>2 DEF IsEntry
  <2> HIDE DEF merged, merging
  <2>5. ASSUME NEW p \in Provider, p \in providers
        PROVE  connections'[p] = deriveBindingRevision(Known(p)') /\ Discovered(p)' # {}
    <3>1. cached = IF found.complete THEN {}
                   ELSE {m \in DOMAIN catalog \ listed :
                           catalog[m].discovered = TRUE /\ ProviderOf[m] \in providers}
      BY <1>1
    <3> HIDE DEF cached, providers
    <3>2. Discovered(p)' = {x \in listed \cup cached : ProviderOf[x] = p}
      BY <2>1, <2>2, <2>3, <2>4, <2>5, <3>1 DEF Discovered
    <3>3. \A m \in Discovered(p)' : merged[m].api = IF m \in listed THEN found.models[m].api ELSE catalog[m].api
      BY <2>3, <2>4, <3>1, <3>2
    <3>4. Known(p)' = apis(p)
      BY <2>1, <3>2, <3>3 DEF Known
    <3>5. Discovered(p)' # {}
      BY <2>5, <3>2 DEF providers
    <3> QED
      BY <2>1, <2>5, <3>4, <3>5
  <2>6. ASSUME NEW p \in Provider, p \notin providers, found.complete
        PROVE  connections'[p] = None /\ Discovered(p)' = {}
    BY <2>1, <2>2, <2>4, <2>6 DEF Discovered
  <2>7. ASSUME NEW p \in Provider, p \notin providers, ~found.complete
        PROVE  /\ connections'[p] = connections[p] /\ Discovered(p)' = Discovered(p)
               /\ Known(p)' = Known(p)
    <3>1. connections'[p] = connections[p]
      BY <2>1, <2>7
    <3>2. Discovered(p)' = Discovered(p)
      BY <2>1, <2>2, <2>4, <2>7 DEF Discovered
    <3>3. \A m \in Discovered(p) : merged[m].api = catalog[m].api
      BY <2>4, <2>7 DEF Discovered
    <3> QED
      BY <2>1, <3>1, <3>2, <3>3 DEF Known
  <2> QED
    BY <2>5, <2>6, <2>7 DEF ConnectionsInv
<1> QED
  BY <1>2, <1>3

LEMMA ConnectionsInvStep == CatalogInv /\ CatalogInv' /\ ConnectionsInv /\ [Next]_vars => ConnectionsInv'
<1>1. ConnectionsInv /\ UNCHANGED <<catalog, connections>> => ConnectionsInv'
  BY DEF ConnectionsInv, Discovered, Known
<1>2. Begin \/ Answer \/ Receive \/ Miss \/ Crash \/ LoseCache \/ Publish \/ Tick \/ UNCHANGED vars =>
        UNCHANGED <<catalog, connections>>
  BY DEF Begin, Answer, Receive, Miss, Crash, LoseCache, Publish, Tick, vars, stored
<1> QED
  BY <1>1, <1>2, ConnectionsStep DEF Next

LEMMA RoutesAreFinite ==
  ASSUME NEW apis, DOMAIN apis \subseteq Model
  PROVE  IsFiniteSet(RoutesOf(apis)) /\ (Cardinality(RoutesOf(apis)) = 1 <=> \E x : RoutesOf(apis) = {x})
<1> DEFINE f == [m \in DOMAIN apis |-> [npm |-> apis[m].npm, url |-> apis[m].url]]
<1>1. IsFiniteSet(DOMAIN apis)
  BY PlannerAssumption, FS_Subset
<1>2. f \in Surjection(DOMAIN apis, RoutesOf(apis))
  BY DEF RoutesOf, Surjection
<1> QED
  BY <1>1, <1>2, FS_Surjection, FS_Singleton

(* Inventories with one revision have one route for each model of both.    *)
LEMMA RevisionNamesRoutes ==
  ASSUME NEW a, NEW b, DOMAIN a \subseteq Model, DOMAIN b \subseteq Model,
         deriveBindingRevision(a) = deriveBindingRevision(b),
         NEW m, m \in DOMAIN a, m \in DOMAIN b
  PROVE  a[m].npm = b[m].npm /\ a[m].url = b[m].url
<1> DEFINE Route(apis) == [npm |-> apis[m].npm, url |-> apis[m].url]
<1>1. Route(a) \in RoutesOf(a) /\ Route(b) \in RoutesOf(b)
  BY DEF RoutesOf
<1>2. /\ Cardinality(RoutesOf(a)) = 1 => \E x : RoutesOf(a) = {x}
      /\ Cardinality(RoutesOf(b)) = 1 => \E x : RoutesOf(b) = {x}
  BY RoutesAreFinite
<1>3. \A apis : deriveBindingRevision(apis) =
        IF Cardinality(RoutesOf(apis)) = 1 THEN [routes |-> RoutesOf(apis), models |-> None]
        ELSE [routes |-> {}, models |-> apis]
  BY DEF deriveBindingRevision
<1>4. CASE Cardinality(RoutesOf(a)) = 1
  <2>1. deriveBindingRevision(b).routes = RoutesOf(a)
    BY <1>3, <1>4
  <2>2. RoutesOf(b) = RoutesOf(a)
    BY <1>1, <1>3, <2>1
  <2>3. Route(a) = Route(b)
    BY <1>1, <1>2, <1>4, <2>2
  <2> QED
    BY <2>3
<1>5. CASE Cardinality(RoutesOf(a)) # 1
  <2>1. deriveBindingRevision(b).routes = {} /\ deriveBindingRevision(b).models = a
    BY <1>3, <1>5
  <2>2. b = a
    BY <1>1, <1>3, <2>1
  <2> QED
    BY <2>2
<1> QED
  BY <1>4, <1>5

(* While a connection has the revision that some inventory has, and a pin  *)
(* may be bound to, its available models have the routes of that           *)
(* inventory: for any listings, complete or not                            *)
(* (deriveBindingRevision, observeConnections).                            *)
THEOREM BindingsNameRoutes == Spec => []BindingNamesRoute
<1>1. ASSUME CatalogInv, ConnectionsInv PROVE BindingNamesRoute
  <2> SUFFICES ASSUME NEW listing \in Listings, NEW p \in Provider,
                      NEW apis, apis = Inventory(listing, p),
                      apis # <<>>, connections[p] = deriveBindingRevision(apis),
                      NEW m \in DOMAIN apis \cap DOMAIN catalog, catalog[m].available
               PROVE  RouteOf(seen[m].api) = RouteOf(apis[m])
    BY DEF BindingNamesRoute
  <2>1. /\ Backed(m, catalog[m], seen[m], contradicted) /\ IsEntry(catalog[m])
        /\ DOMAIN catalog \subseteq Model
    BY <1>1 DEF CatalogInv, HistoryInv, Backed
  <2>2. catalog[m].available = TRUE
    <3>1. catalog[m].available \in BOOLEAN
      BY <2>1 DEF IsEntry
    <3> QED
      BY <3>1, Zenon
  <2>3. /\ seen[m] # None /\ catalog[m].discovered = TRUE
        /\ catalog[m].api = normalizeApiIdentity(seen[m].api)
    BY <2>1, <2>2 DEF Backed
  <2>4. /\ DOMAIN apis \subseteq Model /\ apis[m] = normalizeApiIdentity(listing[m].api)
        /\ ProviderOf[m] = p
    BY ListingFacts DEF Inventory
  <2>5. m \in DOMAIN Known(p) /\ Known(p)[m] = catalog[m].api /\ DOMAIN Known(p) \subseteq Model
        /\ Discovered(p) # {}
    BY <2>1, <2>3, <2>4 DEF Known, Discovered
  <2>6. connections[p] = deriveBindingRevision(Known(p))
    BY <1>1, <2>5 DEF ConnectionsInv
  <2>7. catalog[m].api.npm = apis[m].npm /\ catalog[m].api.url = apis[m].url
    <3> DEFINE a == Known(p)
    <3>1. /\ DOMAIN a \subseteq Model /\ m \in DOMAIN a /\ a[m] = catalog[m].api
          /\ deriveBindingRevision(a) = deriveBindingRevision(apis)
      BY <2>5, <2>6
    <3> HIDE DEF a
    <3>2. m \in DOMAIN apis /\ DOMAIN apis \subseteq Model
      BY <2>4
    <3>3. a[m].npm = apis[m].npm /\ a[m].url = apis[m].url
      BY <3>1, <3>2, RevisionNamesRoutes
    <3> QED
      BY <3>1, <3>3
  <2>8. /\ catalog[m].api.npm = seen[m].api.npm
        /\ catalog[m].api.url = IF seen[m].api.url = Invalid THEN None ELSE seen[m].api.url
        /\ apis[m].url # Invalid
    BY <2>3, <2>4, EvidenceAssumption DEF normalizeApiIdentity
  <2> QED
    BY <2>7, <2>8 DEF RouteOf
<1>2. CacheInv /\ CatalogInv /\ ConnectionsInv => BindingNamesRoute
  BY <1>1
<1>3. CacheInv /\ CatalogInv /\ (CacheInv /\ CatalogInv)' /\ ConnectionsInv /\ [Next]_vars => ConnectionsInv'
  BY ConnectionsInvStep
<1>4. Spec => []ConnectionsInv
  BY <1>3, ConnectionsInit, Invariant, PTL DEF Spec
<1> QED
  BY <1>2, <1>4, Invariant, PTL
===============================================================================
