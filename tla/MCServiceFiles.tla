---------------------------- MODULE MCServiceFiles ----------------------------
(* m1 is in the catalog and the default orchestrator, m2 is too, m3 is not *)
(* there any more.                                                         *)
EXTENDS ServiceFiles

CONSTANTS p1, p2, m1, m2, m3

MCPreferred ==
  [r \in MODEL_ROLES |-> CASE r = "orchestrator" -> m1 [] r = "vision-worker" -> m3 [] OTHER -> "auto"]

Empty ==
  [version |-> 0, costPolicy |-> None, costPreference |-> None, paidEligibility |-> None,
   autoIncludeNewModels |-> None, roleAssignments |-> <<>>, roles |-> <<>>, primary |-> None,
   roleConnections |-> <<>>, modelControls |-> <<>>, enabledModels |-> None,
   unavailableModels |-> {}, allowPaid |-> None, freeOnly |-> None,
   maxDelegationDepth |-> None, maxFallbacksPerAssignment |-> None, makeRouterDefault |-> None]

Flag(enabled) == [NoControl EXCEPT !.enabled = enabled]
Select(selection) == [NoControl EXCEPT !.selection = selection]

(* None, damaged, ambiguous, of the future; of each older version.         *)
MCDocuments ==
  { None, Refused, [Empty EXCEPT !.freeOnly = FALSE], [Empty EXCEPT !.version = 5],
    [Empty EXCEPT !.primary = m3, !.roles = "code-worker" :> m3, !.enabledModels = {m1, m3},
                  !.makeRouterDefault = FALSE],
    [Empty EXCEPT !.version = 2, !.costPolicy = "known-cost", !.costPreference = "paid-first",
                  !.roleAssignments = "orchestrator" :> m2 @@ "reviewer" :> m3,
                  !.primary = m1, !.roles = "reviewer" :> m1, !.enabledModels = {m2},
                  !.modelControls = m2 :> Flag(FALSE) @@ m3 :> Flag(FALSE),
                  !.unavailableModels = {m1}, !.maxDelegationDepth = 0],
    [Empty EXCEPT !.version = 3, !.costPolicy = "known-cost", !.costPreference = "free-first",
                  !.roleAssignments = "vision-worker" :> "auto" @@ "reviewer" :> m3,
                  !.modelControls = m1 :> Select("disabled") @@ m3 :> Select("enabled"),
                  !.maxDelegationDepth = 1, !.maxFallbacksPerAssignment = 0] }

MCMaxChecks == [doc \in MCDocuments |-> IF doc = None THEN 3 ELSE 1]
=============================================================================
