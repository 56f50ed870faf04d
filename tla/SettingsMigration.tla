--------------------------- MODULE SettingsMigration ---------------------------
(***************************************************************************)
(* Settings of older schemas (src/core/settings.js).                       *)
(*                                                                         *)
(* A document is a record of what a settings file may say, None for what   *)
(* it does not say: version, assignments by role (of the current names),   *)
(* pins of the older names (primary, roles), controls by model, the lists  *)
(* enabledModels and unavailableModels, the switches of the cost policy,   *)
(* and the bounds.  Aliases of one name, billing declarations and the      *)
(* validation of identifiers are left out.                                 *)
(***************************************************************************)
EXTENDS Integers, FiniteSets, Sequences, TLC

CONSTANTS
  Model,
  Known,      (* models of the catalog that settings are read with         *)
  Preferred,  (* role -> the model that is assigned by default, or "auto"  *)
  Eligible,   (* models that the default settings find eligible            *)
  None,
  Refused     (* no settings: the document is invalid                      *)

MODEL_ROLES == {"orchestrator", "code-worker", "vision-worker", "reviewer"}

ASSUME SettingsAssumption ==
  /\ Known \subseteq Model /\ Eligible \subseteq Known
  /\ Preferred \in [MODEL_ROLES -> Model \cup {"auto"}]
  /\ None # Refused

CURRENT_SETTINGS_VERSION == 4

Default(value, default) == IF value = None THEN default ELSE value

-----------------------------------------------------------------------------
(* Normalisation.                                                          *)

(* What a settings file of any version may say, and about a model.         *)
Fields == {"version", "costPolicy", "costPreference", "paidEligibility", "autoIncludeNewModels",
           "roleAssignments", "roles", "primary", "roleConnections", "modelControls",
           "enabledModels", "unavailableModels", "allowPaid", "freeOnly", "maxDelegationDepth",
           "maxFallbacksPerAssignment", "makeRouterDefault"}

Control == [enabled : BOOLEAN \cup {None}, available : BOOLEAN \cup {None},
            selection : {"enabled", "disabled", "policy", None}]

IsDocument(doc) ==
  /\ DOMAIN doc = Fields
  /\ doc.modelControls \in [DOMAIN doc.modelControls -> Control]

ASSUME NoneAssumption == None \notin BOOLEAN /\ None \notin {"enabled", "disabled"}

NoControl == [enabled |-> None, selection |-> None, available |-> None]

ControlIn(controls, m) == IF m \in DOMAIN controls THEN controls[m] ELSE NoControl

(* A Boolean becomes an explicit selection.                                *)
normalizeModelControls(controls) ==
  [m \in DOMAIN controls |->
     LET c == controls[m] IN
     [enabled |-> None, available |-> c.available,
      selection |-> CASE c.enabled = None -> Default(c.selection, "policy")
                      [] c.enabled -> "enabled"
                      [] OTHER -> "disabled"]]

defaultRoleAssignmentsForCatalog ==
  [r \in MODEL_ROLES |-> IF Preferred[r] \in Known THEN Preferred[r] ELSE "auto"]

emptyRoleConnections == [r \in MODEL_ROLES |-> None]

normalizeRoleConnections(connections) ==
  [r \in MODEL_ROLES |-> IF r \in DOMAIN connections THEN connections[r] ELSE None]

(* Mutant: a pin to a model that is not there is given up.                 *)
normalizeRoleAssignmentsKnown(assignments) ==
  [r \in MODEL_ROLES |-> IF r \notin DOMAIN assignments THEN defaultRoleAssignmentsForCatalog[r]
                         ELSE IF assignments[r] \in Known THEN assignments[r] ELSE "auto"]

normalizeRoleAssignments(assignments) ==
  [r \in MODEL_ROLES |-> IF r \in DOMAIN assignments THEN assignments[r]
                         ELSE defaultRoleAssignmentsForCatalog[r]]

validateSettings(doc) ==
  IF /\ doc.version = CURRENT_SETTINGS_VERSION
     /\ doc.costPolicy \in {"free-only", "known-cost"}
     /\ doc.costPreference \in {"free-first", "paid-first"}
     /\ doc.paidEligibility \in {"verified-pricing", "configured-connections"}
     /\ doc.maxDelegationDepth \in 0..1 /\ doc.maxFallbacksPerAssignment \in 0..1
  THEN [version |-> CURRENT_SETTINGS_VERSION,
        costPolicy |-> doc.costPolicy, costPreference |-> doc.costPreference,
        paidEligibility |-> doc.paidEligibility,
        autoIncludeNewModels |-> Default(doc.autoIncludeNewModels, TRUE),
        roleAssignments |-> normalizeRoleAssignments(doc.roleAssignments),
        roleConnections |-> normalizeRoleConnections(doc.roleConnections),
        maxDelegationDepth |-> doc.maxDelegationDepth,
        maxFallbacksPerAssignment |-> doc.maxFallbacksPerAssignment,
        makeRouterDefault |-> Default(doc.makeRouterDefault, TRUE),
        modelControls |-> normalizeModelControls(doc.modelControls)]
  ELSE Refused

createDefaultSettings ==
  [version |-> CURRENT_SETTINGS_VERSION,
   costPolicy |-> "free-only", costPreference |-> "free-first",
   paidEligibility |-> "verified-pricing", autoIncludeNewModels |-> TRUE,
   roleAssignments |-> [r \in MODEL_ROLES |->
     IF Preferred[r] \in Eligible THEN Preferred[r] ELSE "auto"],
   roleConnections |-> emptyRoleConnections,
   maxDelegationDepth |-> 1, maxFallbacksPerAssignment |-> 1, makeRouterDefault |-> TRUE,
   modelControls |-> [m \in Known |-> [NoControl EXCEPT !.selection = "policy"]]]

-----------------------------------------------------------------------------
(* Migration.                                                              *)

upgradeV3ToV4(doc) ==
  [doc EXCEPT !.version = CURRENT_SETTINGS_VERSION, !.paidEligibility = "verified-pricing",
              !.roleConnections = emptyRoleConnections]

(* The later names win over the older ones, and these over the defaults;   *)
(* the orchestrator is never among the old roles.                          *)
legacyRoleAssignments(doc) ==
  [r \in MODEL_ROLES |->
     IF r \in DOMAIN doc.roleAssignments THEN doc.roleAssignments[r]
     ELSE IF r # "orchestrator" /\ r \in DOMAIN doc.roles THEN doc.roles[r]
     ELSE IF r = "orchestrator" /\ doc.primary # None THEN doc.primary
     ELSE defaultRoleAssignmentsForCatalog[r]]

(* A list of enabled models says of every model that is known or listed    *)
(* whether it is enabled, unless its own control does.                     *)
legacyControls(doc) ==
  LET listed == IF doc.enabledModels = None THEN {} ELSE Known \cup doc.enabledModels
      excluded == doc.unavailableModels
  IN [m \in DOMAIN doc.modelControls \cup listed \cup excluded |->
        LET c == ControlIn(doc.modelControls, m) IN
        [c EXCEPT
           !.enabled = IF m \in listed THEN Default(@, m \in doc.enabledModels) ELSE @,
           !.available = IF m \in excluded THEN FALSE ELSE @]]

migrateSettings(doc) ==
  CASE doc = None -> createDefaultSettings
    [] doc = Refused -> Refused
    [] OTHER ->
         CASE doc.version = CURRENT_SETTINGS_VERSION -> validateSettings(doc)
           [] doc.version = 3 -> validateSettings(upgradeV3ToV4(doc))
           [] doc.version \notin 0..4 -> Refused
           [] doc.version \in 0..2 /\ (doc.allowPaid = TRUE \/ doc.freeOnly = FALSE) -> Refused
           [] OTHER ->
                validateSettings(upgradeV3ToV4([doc EXCEPT
                  !.costPolicy = Default(@, "free-only"),
                  !.costPreference = Default(@, "free-first"),
                  !.autoIncludeNewModels = TRUE,
                  !.roleAssignments = legacyRoleAssignments(doc),
                  !.maxDelegationDepth = Default(@, 1),
                  !.maxFallbacksPerAssignment = Default(@, 1),
                  !.modelControls = legacyControls(doc)]))

-----------------------------------------------------------------------------
(* What the user of an older release had asked for, read from the document *)
(* by itself.                                                              *)

Pins(doc) ==
  LET named(r) == IF r \in DOMAIN doc.roleAssignments THEN doc.roleAssignments[r]
                  ELSE IF doc.version < 3 /\ r = "orchestrator" THEN doc.primary
                  ELSE IF doc.version < 3 /\ r \in DOMAIN doc.roles THEN doc.roles[r]
                  ELSE None
  IN {<<r, named(r)>> : r \in {x \in MODEL_ROLES : named(x) # None}}

Chosen(doc, m, selection) ==
  LET c == ControlIn(doc.modelControls, m)
      flag == selection = "enabled"
  IN \/ c.enabled = flag
     \/ /\ c.enabled = None /\ c.selection = selection
        /\ doc.version = 3 \/ doc.enabledModels = None
     \/ /\ c.enabled = None /\ doc.version < 3 /\ doc.enabledModels # None
        /\ (m \in doc.enabledModels) = flag /\ m \in Known \cup doc.enabledModels

Excluded(doc) ==
  {m \in Model : ControlIn(doc.modelControls, m).available = FALSE}
  \cup (IF doc.version < 3 THEN doc.unavailableModels ELSE {})
=============================================================================
