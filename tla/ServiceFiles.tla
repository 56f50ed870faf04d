----------------------------- MODULE ServiceFiles -----------------------------
(***************************************************************************)
(* What a process of the control service does to its private files outside *)
(* of saves and refreshes (src/server/settings-store.js, service.js,       *)
(* runtime-qualification.js, runtime-qualification-store.js): starting, it *)
(* migrates settings of an older release under the state lock, and reads   *)
(* the history of runtime checks; a runtime check asks a provider for one  *)
(* reply and adds the result to that history, without a lock.              *)
(*                                                                         *)
(* ControlStore has the saves one call at a time, and FileLock the lock; a *)
(* result that is saved is its identity and its status.                    *)
(***************************************************************************)
EXTENDS SettingsMigration, SequencesExt

CONSTANTS
  Proc,
  Documents,     (* what settings.json may hold at first                    *)
  Checkable,     (* models that are available to be checked                 *)
  Odd,           (* of these, the ones whose identifier the history refuses *)
  Unreadable,    (* a history that cannot be read                           *)
  MAX_RESULTS,
  MaxChecks      (* how many checks there are, by the document             *)

ASSUME ServiceFilesAssumption ==
  /\ None \notin Proc /\ Odd \subseteq Checkable
  /\ MAX_RESULTS \in Nat \ {0} /\ MaxChecks \in [Documents -> Nat]
  /\ Unreadable # None /\ \A doc \in Documents \ {None, Refused} : IsDocument(doc)

(* A result of a runtime check as the history has it; neither a history    *)
(* that is missing nor one that cannot be read is a list of these.         *)
Saved == [id : Nat, status : {"passed", "failed"}]

ASSUME HistoryAssumption == None \notin Seq(Saved) /\ Unreadable \notin Seq(Saved)

VARIABLES
  settings,      (* settings.json: a document, None, or Refused             *)
  backups,       (* its backups: complete ones, and ones cut short          *)
  lock,          (* who has the state lock                                  *)
  pc,            (* where each process is in its start                      *)
  history,       (* the file of results: None, Unreadable, or a sequence    *)
  memory,        (* the results that a process has, newest first            *)
  check,         (* its runtime check, or None                              *)
  checks,
  original,      (* ghost: the first settings.json                          *)
  edited,        (* ghost: the user has saved settings since                *)
  entered,       (* ghost: the identities that were ever put into the file  *)
  told,          (* ghost: the ones that the user was told are saved        *)
  stale,         (* ghost: processes that have not read what others wrote   *)
  blind          (* ghost: one of these wrote the file                      *)

starting == <<settings, backups, lock, original, edited>>
results == <<history, memory, entered, told, stale, blind>>
vars == <<starting, pc, results, check, checks>>

Init ==
  /\ original \in Documents /\ settings = original
  /\ backups = {} /\ lock = None /\ edited = FALSE
  /\ pc = [p \in Proc |-> "down"]
  /\ history = None /\ memory = [p \in Proc |-> None]
  /\ check = [p \in Proc |-> None] /\ checks = 0
  /\ entered = <<>> /\ told = {} /\ stale = {} /\ blind = FALSE

-----------------------------------------------------------------------------
(* The start of a process.                                                 *)

Goto(p, point) == pc' = [pc EXCEPT ![p] = point]

(* What is refused ends the start, and changes nothing.                    *)
ReadSettings(p) ==
  /\ pc[p] = "down" /\ lock = None
  /\ migrateSettings(settings) # Refused
  /\ IF settings = None \/ settings.version = CURRENT_SETTINGS_VERSION
     THEN Goto(p, "history") /\ UNCHANGED lock
     ELSE Goto(p, "backup") /\ lock' = p
  /\ UNCHANGED <<settings, backups, original, edited, results, check, checks>>

(* Mutant: the settings are written without a copy of the old ones.        *)
BackupNothing(p) ==
  /\ pc[p] = "backup" /\ Goto(p, "write")
  /\ UNCHANGED <<starting, results, check, checks>>

Backup(p) ==
  /\ pc[p] = "backup" /\ Goto(p, "write")
  /\ backups' = backups \cup {"whole"}
  /\ UNCHANGED <<settings, lock, original, edited, results, check, checks>>

(* A copy that fails may be left cut short.                                *)
BackupFails(p) ==
  /\ pc[p] = "backup" /\ Goto(p, "down") /\ lock' = None
  /\ backups' \in {backups, backups \cup {"part"}}
  /\ UNCHANGED <<settings, original, edited, results, check, checks>>

WriteSettings(p) ==
  /\ pc[p] = "write" /\ Goto(p, "history") /\ lock' = None
  /\ settings' = migrateSettings(settings)
  /\ UNCHANGED <<backups, original, edited, results, check, checks>>

(* A write may fail before its rename, or after it.                        *)
WriteFails(p) ==
  /\ pc[p] = "write" /\ Goto(p, "down") /\ lock' = None
  /\ settings' \in {settings, migrateSettings(settings)}
  /\ UNCHANGED <<backups, original, edited, results, check, checks>>

(* A history that is not read for any reason counts as empty.              *)
LoadHistory(p) ==
  /\ pc[p] = "history" /\ Goto(p, "up")
  /\ \/ /\ history # Unreadable
        /\ memory' = [memory EXCEPT ![p] = IF history = None THEN <<>> ELSE history]
        /\ stale' = stale \ {p}
     \/ /\ memory' = [memory EXCEPT ![p] = <<>>]
        /\ stale' = IF history = None THEN stale ELSE stale \cup {p}
  /\ UNCHANGED <<starting, history, entered, told, blind, check, checks>>

Crash(p) ==
  /\ pc[p] # "down" /\ Goto(p, "down")
  /\ lock' = IF lock = p THEN None ELSE lock
  /\ backups' \in {backups} \cup (IF pc[p] = "backup" THEN {backups \cup {"part"}} ELSE {})
  /\ memory' = [memory EXCEPT ![p] = None] /\ stale' = stale \ {p}
  /\ check' = [check EXCEPT ![p] = None]
  /\ UNCHANGED <<settings, original, edited, history, entered, told, blind, checks>>

(* The user saves settings; ControlStore has how.                          *)
Save(p) ==
  /\ pc[p] = "up" /\ lock = None
  /\ settings' = createDefaultSettings /\ edited' = TRUE
  /\ UNCHANGED <<backups, lock, original, pc, results, check, checks>>

-----------------------------------------------------------------------------
(* Runtime checks: one at a time in a process.                             *)

BeginCheck(p, m) ==
  /\ pc[p] = "up" /\ check[p] = None /\ checks < MaxChecks[original]
  /\ checks' = checks + 1
  /\ check' = [check EXCEPT ![p] = [id |-> checks', model |-> m, phase |-> "isolate",
                                    result |-> None]]
  /\ UNCHANGED <<starting, pc, results>>

(* OpenCode shows that it resolved the isolated configuration.             *)
Isolate(p) ==
  /\ check[p] # None /\ check[p].phase = "isolate"
  /\ check' = [check EXCEPT ![p].phase = "provider"]
  /\ UNCHANGED <<starting, pc, results, checks>>

(* Replies: the challenge, something else, or nothing.  The check says     *)
(* whether a provider was asked as far as that was seen.                   *)
runtimeResponseEvidence(reply) ==
  [matched |-> reply = "challenge", observed |-> reply # "nothing"]

Errors == {"isolation", "missing", "timeout", "output", "other"}

resultOf(c, error, reply) ==
  LET evidence == runtimeResponseEvidence(reply)
      passed == error = None /\ evidence.matched
  IN [id |-> c.id, model |-> c.model, status |-> IF passed THEN "passed" ELSE "failed",
      responseMatched |-> passed,
      providerRequestAttempted |->
        IF c.phase = "isolate" THEN FALSE
        ELSE IF evidence.observed THEN TRUE
        ELSE IF error = "missing" THEN FALSE ELSE None,
      failure |-> CASE error # None -> error
                    [] passed -> None
                    [] OTHER -> "mismatch"]

(* What is saved of a result, or Refused.                                  *)
normalizeResult(result) ==
  IF /\ result.model \notin Odd
     /\ (result.status = "passed") = (result.responseMatched /\ result.failure = None)
     /\ result.status = "passed" => result.providerRequestAttempted = TRUE
  THEN [id |-> result.id, status |-> result.status]
  ELSE Refused

(* The preflight fails, or the provider phase ends, by its time limit if   *)
(* by nothing else.                                                        *)
Finish(p) ==
  /\ check[p] # None
  /\ \E error \in Errors \cup {None}, reply \in {"challenge", "other", "nothing"} :
       /\ \/ check[p].phase = "isolate" /\ error # None /\ reply = "nothing"
          \/ check[p].phase = "provider" /\ error # "isolation"
       /\ check' = [check EXCEPT ![p] = [@ EXCEPT !.phase = "append",
                                           !.result = normalizeResult(resultOf(check[p], error, reply))]]
  /\ UNCHANGED <<starting, pc, results, checks>>

(* No working directory, or one that cannot be removed: there is no result.*)
RunnerFails(p) ==
  /\ check[p] # None /\ check[p].phase \in {"isolate", "provider"}
  /\ check' = [check EXCEPT ![p] = None]
  /\ UNCHANGED <<starting, pc, results, checks>>

(* Mutant: what does not fit is the newest.                                *)
appendKeepingOldest(results2, result) ==
  LET all == Append(results2, result) IN SubSeq(all, 1, IF Len(all) < MAX_RESULTS THEN Len(all) ELSE MAX_RESULTS)

appendRuntimeQualificationResult(previous, result) ==
  LET all == <<result>> \o previous
  IN SubSeq(all, 1, IF Len(all) < MAX_RESULTS THEN Len(all) ELSE MAX_RESULTS)

(* The file is replaced by what this process knows, and the new result.    *)
Enter(p, result) ==
  /\ history' = appendRuntimeQualificationResult(memory[p], result)
  /\ entered' = Append(entered, result.id)
  /\ blind' = (blind \/ p \in stale)
  /\ stale' = (stale \ {p}) \cup {q \in Proc \ {p} : memory[q] # None}

SaveResult(p) ==
  /\ check[p] # None /\ check[p].phase = "append"
  /\ LET result == check[p].result
     IN /\ result # Refused /\ Enter(p, result)
        /\ memory' = [memory EXCEPT ![p] = history']
        /\ told' = told \cup {result.id}
  /\ check' = [check EXCEPT ![p] = None]
  /\ UNCHANGED <<starting, pc, checks>>

(* Mutant: the check that could not be saved remains the one under way.    *)
SaveResultFailsBusy(p) ==
  /\ check[p] # None /\ check[p].phase = "append"
  /\ check' = [check EXCEPT ![p].phase = "unsaved"]
  /\ UNCHANGED <<starting, pc, results, checks>>

(* It is not saved, as the user is told; a write that fails after its      *)
(* rename has saved it all the same.                                       *)
SaveResultFails(p) ==
  /\ check[p] # None /\ check[p].phase = "append"
  /\ LET result == check[p].result
     IN \/ UNCHANGED results
        \/ result # Refused /\ Enter(p, result) /\ UNCHANGED <<memory, told>>
  /\ check' = [check EXCEPT ![p] = None]
  /\ UNCHANGED <<starting, pc, checks>>

(* Something else damages the file.                                        *)
Damage ==
  /\ history \notin {None, Unreadable}
  /\ history' = Unreadable /\ told' = {}
  /\ UNCHANGED <<starting, pc, memory, entered, stale, blind, check, checks>>

-----------------------------------------------------------------------------

StartStep(p) ==
  \/ ReadSettings(p) \/ Backup(p) \/ BackupFails(p) \/ WriteSettings(p) \/ WriteFails(p)
  \/ LoadHistory(p) \/ Crash(p) \/ Save(p)

CheckStep(p) ==
  Isolate(p) \/ Finish(p) \/ RunnerFails(p) \/ SaveResult(p) \/ SaveResultFails(p)

Next ==
  \/ \E p \in Proc : StartStep(p) \/ CheckStep(p) \/ \E m \in Checkable : BeginCheck(p, m)
  \/ Damage

Spec == Init /\ [][Next]_vars

(* The two processes of a check have time limits, and the calls on files   *)
(* return.                                                                 *)
FairSpec == Spec /\ \A p \in Proc : WF_vars(CheckStep(p))

-----------------------------------------------------------------------------
(* Properties.                                                             *)

(* The settings that a user had before an upgrade are never lost: until    *)
(* there is a complete backup the file is what it was, whichever step of a *)
(* migration fails or ends the process, and what the migration refuses is  *)
(* not touched at all (readSettings; README.md:188).                       *)
OriginalIsKept ==
  \/ settings = original \/ original = None
  \/ original # Refused /\ original.version = CURRENT_SETTINGS_VERSION
  \/ "whole" \in backups /\ migrateSettings(original) # Refused

(* What the document asked for is in the settings: models stay disabled,   *)
(* enabled or excluded, pins stay, also of models that are not there, and  *)
(* so do policy, bounds and the default agent; nothing that was not priced *)
(* becomes eligible.                                                       *)
KeepsIntent(document, new) ==
  /\ \A role \in MODEL_ROLES, m \in Model \cup {"auto"} :
       <<role, m>> \in Pins(document) => new.roleAssignments[role] = m
  /\ \A m \in Model, selection \in {"enabled", "disabled"} :
       Chosen(document, m, selection) => ControlIn(new.modelControls, m).selection = selection
  /\ \A m \in Excluded(document) : ControlIn(new.modelControls, m).available = FALSE
  /\ \A field \in {"costPolicy", "costPreference", "makeRouterDefault",
                   "maxDelegationDepth", "maxFallbacksPerAssignment"} :
       document[field] # None => new[field] = document[field]
  /\ new.paidEligibility = "verified-pricing"

(* As long as the user saves nothing else, the settings are what the older *)
(* document asked for (migrateSettings; README.md:188).                    *)
IntentIsKept == (settings # original /\ ~edited) => KeepsIntent(original, settings)

(* A result that the user was told is saved is in the file, across         *)
(* restarts and failing writes, until MAX_RESULTS newer ones were put      *)
(* there, or a process wrote that had not read it                          *)
(* (appendRuntimeQualificationResult).                                     *)
ResultsStay ==
  (~blind /\ history # Unreadable) =>
    \A id \in told :
      \/ history # None /\ \E i \in DOMAIN history : history[i].id = id
      \/ \E i \in DOMAIN entered : entered[i] = id /\ Len(entered) - i >= MAX_RESULTS

(* A check ends however OpenCode, the provider or the disk behave, so that *)
(* another one can begin (runRuntimeQualification).                        *)
ChecksEnd == \A p \in Proc : (check[p] # None) ~> (check[p] = None)
=============================================================================
