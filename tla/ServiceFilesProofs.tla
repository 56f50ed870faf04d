-------------------------- MODULE ServiceFilesProofs --------------------------
(***************************************************************************)
(* Proofs about ServiceFiles, for any processes, models, documents and     *)
(* runtime checks.                                                         *)
(***************************************************************************)
EXTENDS ServiceFiles, SequenceTheorems, TLAPS

(* The settings that the user began with may be replaced: there were none, *)
(* they are of this release, or there is a copy of them.                   *)
Replaceable ==
  \/ original = None
  \/ original # Refused /\ original.version = CURRENT_SETTINGS_VERSION
  \/ "whole" \in backups /\ migrateSettings(original) # Refused

(* Who migrates has the lock, and has read what it migrates; who has       *)
(* started has found the settings replaceable.                             *)
StartInv ==
  /\ settings = original \/ Replaceable
  /\ pc \in [Proc -> {"down", "backup", "write", "history", "up"}]
  /\ \A p \in Proc :
       /\ pc[p] \in {"backup", "write"} => lock = p /\ migrateSettings(settings) # Refused
       /\ pc[p] = "write" => "whole" \in backups
       /\ pc[p] \in {"history", "up"} => Replaceable

LEMMA RefusedFacts == None \notin Proc /\ migrateSettings(Refused) = Refused
<1>1. None \notin Proc /\ None # Refused
  BY ServiceFilesAssumption, SettingsAssumption
<1> HIDE DEF migrateSettings
<1>2. migrateSettings(Refused) = Refused
  BY <1>1, Zenon DEF migrateSettings
<1> QED
  BY <1>1, <1>2

LEMMA StartInit == Init => StartInv
BY DEF Init, StartInv

(* A step that changes neither the settings nor where a process is, and    *)
(* one that gives up a start, or the lock with it.                         *)
LEMMA IdleStep ==
  ASSUME StartInv, UNCHANGED <<settings, original, lock>>, backups \subseteq backups',
         pc' = pc \/ \E p \in Proc : pc' = [pc EXCEPT ![p] = "down"]
  PROVE  StartInv'
<1>1. Replaceable => Replaceable'
  BY DEF Replaceable
<1> QED
  BY <1>1 DEF StartInv

LEMMA AbortStep ==
  ASSUME StartInv, NEW p \in Proc, pc[p] \in {"backup", "write"},
         UNCHANGED original, backups \subseteq backups',
         lock' = None, pc' = [pc EXCEPT ![p] = "down"],
         settings' = settings \/ pc[p] = "write"
  PROVE  StartInv'
<1>1. /\ Replaceable => Replaceable'
      /\ settings # original => Replaceable
      /\ \A q \in Proc : pc'[q] \notin {"backup", "write"}
  BY RefusedFacts DEF StartInv, Replaceable
<1>2. CASE settings' = settings
  BY <1>1, <1>2 DEF StartInv
<1>3. CASE pc[p] = "write"
  <2>1. Replaceable
    BY <1>1, <1>3 DEF StartInv, Replaceable
  <2> QED
    BY <1>1, <2>1 DEF StartInv
<1> QED
  BY <1>2, <1>3

LEMMA StartStepInv ==
  ASSUME StartInv, NEW p \in Proc, StartStep(p)
  PROVE  StartInv'
<1> USE RefusedFacts DEF Goto, starting, results
<1>1. CASE ReadSettings(p)
  <2>1. /\ UNCHANGED <<settings, backups, original>> /\ lock = None
        /\ migrateSettings(settings) # Refused
        /\ \/ /\ settings = None \/ settings.version = CURRENT_SETTINGS_VERSION
              /\ pc' = [pc EXCEPT ![p] = "history"] /\ lock' = lock
           \/ pc' = [pc EXCEPT ![p] = "backup"] /\ lock' = p
    BY <1>1 DEF ReadSettings
  <2>2. Replaceable' = Replaceable /\ \A q \in Proc : pc[q] \notin {"backup", "write"}
    BY <2>1 DEF Replaceable, StartInv
  <2>3. CASE /\ settings = None \/ settings.version = CURRENT_SETTINGS_VERSION
             /\ pc' = [pc EXCEPT ![p] = "history"] /\ lock' = lock
    <3>1. Replaceable
      BY <2>1, <2>3 DEF StartInv, Replaceable
    <3> QED
      BY <2>1, <2>2, <2>3, <3>1 DEF StartInv
  <2>4. CASE pc' = [pc EXCEPT ![p] = "backup"] /\ lock' = p
    BY <2>1, <2>2, <2>4 DEF StartInv
  <2> QED
    BY <2>1, <2>3, <2>4
<1>2. CASE Backup(p)
  <2>1. /\ UNCHANGED <<settings, lock, original>> /\ backups' = backups \cup {"whole"}
        /\ pc[p] = "backup" /\ pc' = [pc EXCEPT ![p] = "write"]
    BY <1>2 DEF Backup
  <2>2. Replaceable => Replaceable'
    BY <2>1 DEF Replaceable
  <2> QED
    BY <2>1, <2>2 DEF StartInv
<1>3. CASE BackupFails(p)
  BY <1>3, AbortStep DEF BackupFails
<1>4. CASE WriteFails(p)
  BY <1>4, AbortStep DEF WriteFails
<1>5. CASE WriteSettings(p)
  <2>1. /\ UNCHANGED <<backups, original>> /\ lock' = None /\ pc[p] = "write"
        /\ pc' = [pc EXCEPT ![p] = "history"]
    BY <1>5 DEF WriteSettings
  <2>2. Replaceable /\ Replaceable' /\ \A q \in Proc : pc'[q] \notin {"backup", "write"}
    BY <2>1 DEF StartInv, Replaceable
  <2> QED
    BY <2>1, <2>2 DEF StartInv
<1>6. CASE LoadHistory(p)
  <2>1. /\ UNCHANGED <<settings, backups, lock, original>>
        /\ pc[p] = "history" /\ pc' = [pc EXCEPT ![p] = "up"]
    BY <1>6 DEF LoadHistory
  <2>2. Replaceable' = Replaceable
    BY <2>1 DEF Replaceable
  <2> QED
    BY <2>1, <2>2 DEF StartInv
<1>7. CASE Crash(p)
  <2>1. /\ UNCHANGED <<settings, original>> /\ backups \subseteq backups'
        /\ pc' = [pc EXCEPT ![p] = "down"]
        /\ lock' = IF lock = p THEN None ELSE lock
    BY <1>7 DEF Crash
  <2>2. Replaceable => Replaceable'
    BY <2>1 DEF Replaceable
  <2> QED
    BY <2>1, <2>2 DEF StartInv
<1>8. CASE Save(p)
  <2>1. UNCHANGED <<backups, lock, original, pc>> /\ pc[p] = "up" /\ lock = None
    BY <1>8 DEF Save
  <2>2. Replaceable /\ Replaceable' /\ \A q \in Proc : pc[q] \notin {"backup", "write"}
    BY <2>1 DEF StartInv, Replaceable
  <2> QED
    BY <2>1, <2>2 DEF StartInv
<1> QED
  BY <1>1, <1>2, <1>3, <1>4, <1>5, <1>6, <1>7, <1>8 DEF StartStep

LEMMA StartInvStep == StartInv /\ [Next]_vars => StartInv'
<1> SUFFICES ASSUME StartInv, [Next]_vars PROVE StartInv'
  OBVIOUS
<1>1. UNCHANGED <<starting, pc>> => StartInv'
  BY IdleStep DEF starting
<1>2. ASSUME NEW p \in Proc, CheckStep(p) \/ \E m \in Checkable : BeginCheck(p, m)
      PROVE  UNCHANGED <<starting, pc>>
  BY <1>2 DEF CheckStep, BeginCheck, Isolate, Finish, RunnerFails, SaveResult, SaveResultFails
<1>3. Damage => UNCHANGED <<starting, pc>>
  BY DEF Damage
<1> QED
  BY <1>1, <1>2, <1>3, StartStepInv DEF Next, vars

(* The settings that a user had before an upgrade are never lost, however  *)
(* many processes start at once, and wherever a migration fails or ends    *)
(* its process (readSettings).                                             *)
THEOREM SettingsSurviveUpgrade == Spec => []OriginalIsKept
<1>1. StartInv => OriginalIsKept
  BY DEF StartInv, Replaceable, OriginalIsKept
<1> QED
  BY <1>1, StartInit, StartInvStep, PTL DEF Spec

-----------------------------------------------------------------------------
(* The history of runtime checks.                                          *)

Phases == {"isolate", "provider", "append"}
Checks == [id : Nat, model : Checkable, phase : Phases, result : Saved \cup {Refused, None}]

(* A process that is up, and no other, has results and may check.          *)
CheckInv ==
  /\ pc \in [Proc -> {"down", "backup", "write", "history", "up"}]
  /\ memory \in [Proc -> Seq(Saved) \cup {None}]
  /\ check \in [Proc -> Checks \cup {None}] /\ checks \in Nat
  /\ history \in Seq(Saved) \cup {None, Unreadable} /\ entered \in Seq(Nat)
  /\ \A p \in Proc :
       /\ memory[p] # None <=> pc[p] = "up"
       /\ check[p] # None => pc[p] = "up"
       /\ check[p] # None /\ check[p].phase = "append" => check[p].result \in Saved \cup {Refused}

(* A list of results has what was entered as the i-th, or what came later  *)
(* has pushed it out.                                                      *)
Remains(list, i) ==
  \/ Len(entered) - i >= MAX_RESULTS
  \/ \E k \in DOMAIN list : k <= Len(entered) - i + 1 /\ list[k].id = entered[i]

HasAllTold(list) == \A id \in told : \E i \in DOMAIN entered : entered[i] = id /\ Remains(list, i)

ResultsInv ==
  /\ CheckInv
  /\ history = None => told = {}
  /\ ~blind =>
       /\ history \in Seq(Saved) => HasAllTold(history)
       /\ \A p \in Proc : memory[p] # None /\ p \notin stale => HasAllTold(memory[p])

LEMMA AppendFacts ==
  ASSUME NEW list \in Seq(Saved), NEW result \in Saved
  PROVE  LET new == appendRuntimeQualificationResult(list, result)
         IN /\ new \in Seq(Saved) /\ Len(new) >= 1
            /\ Len(new) = IF Len(list) + 1 < MAX_RESULTS THEN Len(list) + 1 ELSE MAX_RESULTS
            /\ \A k \in 1..Len(new) : new[k] = IF k = 1 THEN result ELSE list[k - 1]
<1> DEFINE all == <<result>> \o list
           n == IF Len(all) < MAX_RESULTS THEN Len(all) ELSE MAX_RESULTS
<1>1. /\ all \in Seq(Saved) /\ Len(all) = Len(list) + 1
      /\ \A k \in 1..Len(all) : all[k] = IF k = 1 THEN result ELSE list[k - 1]
  OBVIOUS
<1>2. MAX_RESULTS \in Nat \ {0}
  BY ServiceFilesAssumption
<1> HIDE DEF all
<1>3. n \in 1..Len(all)
  BY <1>1, <1>2
<1>4. /\ SubSeq(all, 1, n) \in Seq(Saved) /\ Len(SubSeq(all, 1, n)) = n
      /\ \A k \in 1..n : SubSeq(all, 1, n)[k] = all[k]
  BY <1>1, <1>3
<1> QED
  BY <1>1, <1>2, <1>3, <1>4 DEF appendRuntimeQualificationResult, all

(* The entry that a told result has in the file, after one more result.    *)
LEMMA EnterKeeps ==
  ASSUME CheckInv, NEW list \in Seq(Saved), NEW result \in Saved, HasAllTold(list),
         entered' = Append(entered, result.id), told' \subseteq told \cup {result.id},
         NEW new, new = appendRuntimeQualificationResult(list, result)
  PROVE  HasAllTold(new)' /\ (told' = told => HasAllTold(list)')
<1>1. /\ entered \in Seq(Nat) /\ result.id \in Nat /\ MAX_RESULTS \in Nat \ {0}
  BY ServiceFilesAssumption DEF CheckInv, Saved
<1>2. /\ Len(entered') = Len(entered) + 1 /\ DOMAIN entered' = 1..Len(entered) + 1
      /\ \A i \in DOMAIN entered : entered'[i] = entered[i]
      /\ entered'[Len(entered) + 1] = result.id
      /\ DOMAIN entered = 1..Len(entered) /\ Len(entered) \in Nat
  <2> DEFINE more == Append(entered, result.id)
  <2>1. DOMAIN entered = 1..Len(entered) /\ Len(entered) \in Nat
    BY <1>1
  <2>2. /\ Len(more) = Len(entered) + 1 /\ DOMAIN more = 1..Len(entered) + 1
        /\ \A i \in 1..Len(entered) : more[i] = entered[i]
        /\ more[Len(entered) + 1] = result.id
    BY <1>1
  <2>3. entered' = more
    OBVIOUS
  <2> HIDE DEF more
  <2> QED
    BY <2>1, <2>2, <2>3
<1>3. /\ new \in Seq(Saved) /\ Len(new) >= 1
      /\ Len(new) = IF Len(list) + 1 < MAX_RESULTS THEN Len(list) + 1 ELSE MAX_RESULTS
      /\ \A k \in 1..Len(new) : new[k] = IF k = 1 THEN result ELSE list[k - 1]
  BY AppendFacts
<1>4. DOMAIN new = 1..Len(new) /\ DOMAIN list = 1..Len(list) /\ Len(new) \in Nat /\ Len(list) \in Nat
  <2> DEFINE any == new
  <2>1. any \in Seq(Saved) /\ list \in Seq(Saved)
    BY <1>3
  <2> HIDE DEF any
  <2>2. DOMAIN any = 1..Len(any) /\ Len(any) \in Nat
    BY <2>1
  <2>3. DOMAIN list = 1..Len(list) /\ Len(list) \in Nat
    BY <2>1
  <2> QED
    BY <2>2, <2>3 DEF any
<1>5. ASSUME NEW i \in DOMAIN entered, Remains(list, i)
      PROVE  i \in DOMAIN entered' /\ Remains(new, i)' /\ Remains(list, i)'
  <2>1. i \in 1..Len(entered) /\ i \in DOMAIN entered'
    BY <1>2
  <2>2. CASE Len(entered) - i >= MAX_RESULTS
    BY <1>1, <1>2, <2>1, <2>2 DEF Remains
  <2>3. CASE \E k \in DOMAIN list : k <= Len(entered) - i + 1 /\ list[k].id = entered[i]
    <3>1. PICK k \in 1..Len(list) : k <= Len(entered) - i + 1 /\ list[k].id = entered[i]
      BY <2>3, <1>4
    <3>2. Remains(list, i)'
      BY <1>2, <1>4, <2>1, <3>1 DEF Remains
    <3>3. CASE k + 1 <= Len(new)
      <4>1. k + 1 \in DOMAIN new /\ new[k + 1] = list[k] /\ k + 1 <= Len(entered') - i + 1
        BY <1>2, <1>3, <1>4, <2>1, <3>1, <3>3
      <4>2. new[k + 1].id = entered'[i]
        BY <4>1, <3>1, <1>2
      <4> QED
        BY <4>1, <4>2, <2>1, <3>2 DEF Remains
    <3>4. CASE k + 1 > Len(new)
      <4>1. k >= MAX_RESULTS
        BY <1>1, <1>3, <1>4, <3>1, <3>4
      <4>2. Len(entered') - i >= MAX_RESULTS
        BY <4>1, <1>1, <1>2, <2>1, <3>1
      <4> QED
        BY <4>2, <2>1, <3>2 DEF Remains
    <3> QED
      BY <3>3, <3>4, <1>4
  <2> QED
    BY <1>5, <2>2, <2>3 DEF Remains
<1>6. \E i \in DOMAIN entered' : entered'[i] = result.id /\ Remains(new, i)'
  <2>1. 1 \in DOMAIN new /\ new[1] = result
    BY <1>3, <1>4
  <2>2. PICK i \in Nat : i = Len(entered) + 1
    BY <1>2
  <2>3. i \in DOMAIN entered' /\ entered'[i] = result.id /\ 1 <= Len(entered') - i + 1
    BY <1>2, <2>2
  <2>4. Remains(new, i)'
    BY <2>1, <2>3 DEF Remains
  <2> QED
    BY <2>3, <2>4
<1>7. ASSUME NEW id \in told
      PROVE  \E i \in DOMAIN entered' :
               entered'[i] = id /\ Remains(new, i)' /\ Remains(list, i)'
  <2>1. PICK i \in DOMAIN entered : entered[i] = id /\ Remains(list, i)
    BY DEF HasAllTold
  <2>2. i \in DOMAIN entered' /\ Remains(new, i)' /\ Remains(list, i)'
    BY <2>1, <1>5
  <2>3. entered'[i] = id
    BY <2>1, <1>2
  <2> QED
    BY <2>2, <2>3
<1>8. HasAllTold(new)'
  <2> SUFFICES ASSUME NEW id \in told'
               PROVE  \E i \in DOMAIN entered' : entered'[i] = id /\ Remains(new, i)'
    BY DEF HasAllTold
  <2>1. CASE id \in told
    BY <2>1, <1>7
  <2>2. CASE id = result.id
    BY <2>2, <1>6, <1>2
  <2> QED
    BY <2>1, <2>2
<1> QED
  BY <1>7, <1>8 DEF HasAllTold

LEMMA ResultsInit == Init => ResultsInv
<1> SUFFICES ASSUME Init PROVE ResultsInv
  OBVIOUS
<1>1. CheckInv
  BY DEF Init, CheckInv
<1> QED
  BY <1>1, HistoryAssumption DEF Init, ResultsInv

(* Steps that touch neither the file of results nor what was read of it.   *)
LEMMA ResultsKept ==
  ASSUME ResultsInv, UNCHANGED results, CheckInv'
  PROVE  ResultsInv'
BY DEF ResultsInv, results, HasAllTold, Remains

LEMMA StartKeepsResults ==
  ASSUME ResultsInv, NEW p \in Proc, StartStep(p), ~Crash(p), ~LoadHistory(p)
  PROVE  ResultsInv'
<1>1. /\ UNCHANGED <<results, check, checks>>
      /\ \/ pc' = pc
         \/ /\ pc[p] \in {"down", "backup", "write"}
            /\ \E point \in {"down", "backup", "write", "history"} : pc' = [pc EXCEPT ![p] = point]
  BY DEF StartStep, ReadSettings, Backup, BackupFails, WriteSettings, WriteFails, Save, Goto,
         starting
<1>2. UNCHANGED <<history, memory, entered, check, checks>>
  BY <1>1 DEF results
<1>3. CheckInv'
  BY <1>1, <1>2 DEF ResultsInv, CheckInv
<1> QED
  BY <1>1, <1>3, ResultsKept

LEMMA LoadHistoryResults ==
  ASSUME ResultsInv, NEW p \in Proc, LoadHistory(p)
  PROVE  ResultsInv'
<1> USE HistoryAssumption
<1>1. /\ pc[p] = "history" /\ pc' = [pc EXCEPT ![p] = "up"]
      /\ UNCHANGED <<history, entered, told, blind, check, checks>>
      /\ \E list \in Seq(Saved) :
           /\ memory' = [memory EXCEPT ![p] = list]
           /\ \/ stale' = stale \ {p} /\ (history = list \/ history = None)
              \/ stale' = stale /\ history = None
              \/ stale' = stale \cup {p}
  <2>1. /\ history \in Seq(Saved) \cup {None, Unreadable} /\ <<>> \in Seq(Saved)
        /\ UNCHANGED <<history, entered, told, blind, check, checks>>
        /\ pc[p] = "history" /\ pc' = [pc EXCEPT ![p] = "up"]
    BY DEF LoadHistory, Goto, ResultsInv, CheckInv
  <2>2. CASE /\ history # Unreadable
             /\ memory' = [memory EXCEPT ![p] = IF history = None THEN <<>> ELSE history]
             /\ stale' = stale \ {p}
    BY <2>1, <2>2
  <2>3. CASE /\ memory' = [memory EXCEPT ![p] = <<>>]
             /\ stale' = IF history = None THEN stale ELSE stale \cup {p}
    BY <2>1, <2>3
  <2> QED
    BY <2>1, <2>2, <2>3 DEF LoadHistory
<1>2. PICK list \in Seq(Saved) :
           /\ memory' = [memory EXCEPT ![p] = list]
           /\ \/ stale' = stale \ {p} /\ (history = list \/ history = None)
              \/ stale' = stale /\ history = None
              \/ stale' = stale \cup {p}
  BY <1>1
<1>3. \A l : HasAllTold(l)' = HasAllTold(l)
  BY <1>1 DEF HasAllTold, Remains
<1>4. CheckInv'
  BY <1>1, <1>2 DEF ResultsInv, CheckInv
<1>5. history = None => HasAllTold(list)
  BY DEF ResultsInv, HasAllTold
<1>6. ASSUME ~blind, NEW q \in Proc, memory'[q] # None, q \notin stale'
      PROVE  HasAllTold(memory'[q])
  <2>1. CASE q = p
    <3>1. memory'[q] = list /\ (history = list \/ history = None)
      BY <2>1, <1>2, <1>6 DEF ResultsInv, CheckInv
    <3> QED
      BY <3>1, <1>5, <1>6 DEF ResultsInv
  <2>2. CASE q # p
    BY <2>2, <1>2, <1>6 DEF ResultsInv, CheckInv
  <2> QED
    BY <2>1, <2>2
<1> QED
  BY <1>1, <1>3, <1>4, <1>6 DEF ResultsInv

LEMMA CrashResults ==
  ASSUME ResultsInv, NEW p \in Proc, Crash(p)
  PROVE  ResultsInv'
<1>1. /\ pc' = [pc EXCEPT ![p] = "down"] /\ memory' = [memory EXCEPT ![p] = None]
      /\ stale' = stale \ {p} /\ check' = [check EXCEPT ![p] = None]
      /\ UNCHANGED <<history, entered, told, blind, checks>>
  BY DEF Crash, Goto
<1>2. \A l : HasAllTold(l)' = HasAllTold(l)
  BY <1>1 DEF HasAllTold, Remains
<1>3. CheckInv'
  BY <1>1 DEF ResultsInv, CheckInv
<1>4. \A q \in Proc : memory'[q] # None /\ q \notin stale' => memory'[q] = memory[q] /\ q \notin stale
  BY <1>1 DEF ResultsInv, CheckInv
<1> QED
  BY <1>1, <1>2, <1>3, <1>4 DEF ResultsInv

LEMMA DamageResults == ResultsInv /\ Damage => ResultsInv'
<1> SUFFICES ASSUME ResultsInv, Damage PROVE ResultsInv'
  OBVIOUS
<1>1. /\ history' = Unreadable /\ told' = {}
      /\ UNCHANGED <<pc, memory, entered, stale, blind, check, checks>>
  BY DEF Damage
<1>2. CheckInv'
  BY <1>1 DEF ResultsInv, CheckInv
<1> QED
  BY <1>1, <1>2 DEF ResultsInv, HasAllTold

(* What a check becomes that is not saved.                                 *)
LEMMA CheckMoves ==
  ASSUME ResultsInv, NEW p \in Proc, pc[p] = "up", UNCHANGED <<results, pc>>, checks' \in Nat,
         NEW c \in Checks \cup {None}, check' = [check EXCEPT ![p] = c],
         c # None /\ c.phase = "append" => c.result \in Saved \cup {Refused}
  PROVE  ResultsInv'
<1>1. UNCHANGED <<history, memory, entered>>
  BY DEF results
<1>2. CheckInv'
  BY <1>1 DEF ResultsInv, CheckInv
<1> QED
  BY <1>2, ResultsKept

LEMMA ResultFacts ==
  ASSUME NEW c \in Checks, NEW error, NEW reply
  PROVE  normalizeResult(resultOf(c, error, reply)) \in Saved \cup {Refused}
<1>1. /\ resultOf(c, error, reply).id \in Nat
      /\ resultOf(c, error, reply).status \in {"passed", "failed"}
  BY DEF resultOf, Checks
<1> QED
  BY <1>1 DEF normalizeResult, Saved

LEMMA CheckKeepsResults ==
  ASSUME ResultsInv, NEW p \in Proc,
         \/ Isolate(p) \/ Finish(p) \/ RunnerFails(p) \/ \E m \in Checkable : BeginCheck(p, m)
  PROVE  ResultsInv'
<1>1. /\ UNCHANGED <<results, pc>> /\ checks \in Nat
      /\ check[p] # None => check[p] \in Checks /\ pc[p] = "up"
  BY DEF Isolate, Finish, RunnerFails, BeginCheck, ResultsInv, CheckInv
<1>2. CASE Isolate(p)
  <2> DEFINE c == [check[p] EXCEPT !.phase = "provider"]
  <2>1. /\ checks' = checks /\ check[p] # None /\ check' = [check EXCEPT ![p] = c]
    BY <1>2 DEF Isolate
  <2>2. c \in Checks /\ c.phase # "append"
    BY <1>1, <2>1 DEF Checks, Phases
  <2> HIDE DEF c
  <2> QED
    BY <1>1, <2>1, <2>2, CheckMoves
<1>3. CASE Finish(p)
  <2>1. PICK error \in Errors \cup {None}, reply \in {"challenge", "other", "nothing"} :
          check' = [check EXCEPT ![p] = [@ EXCEPT !.phase = "append",
                      !.result = normalizeResult(resultOf(check[p], error, reply))]]
    BY <1>3 DEF Finish
  <2> DEFINE r == normalizeResult(resultOf(check[p], error, reply))
             c == [check[p] EXCEPT !.phase = "append", !.result = r]
  <2>2. checks' = checks /\ check[p] \in Checks /\ pc[p] = "up"
    BY <1>1, <1>3 DEF Finish
  <2>3. r \in Saved \cup {Refused}
    BY <2>2, ResultFacts
  <2>4. check' = [check EXCEPT ![p] = c]
    BY <2>1
  <2> HIDE DEF r
  <2>5. c \in Checks /\ c.result = r
    BY <2>2, <2>3 DEF Checks, Phases
  <2> HIDE DEF c
  <2> QED
    BY <1>1, <2>2, <2>3, <2>4, <2>5, CheckMoves
<1>4. CASE RunnerFails(p)
  <2>1. checks' = checks /\ check[p] # None /\ check' = [check EXCEPT ![p] = None]
    BY <1>4 DEF RunnerFails
  <2> QED
    BY <1>1, <2>1, CheckMoves
<1>5. ASSUME NEW m \in Checkable, BeginCheck(p, m)
      PROVE  ResultsInv'
  <2> DEFINE c == [id |-> checks', model |-> m, phase |-> "isolate", result |-> None]
  <2>1. pc[p] = "up" /\ checks' = checks + 1 /\ check' = [check EXCEPT ![p] = c]
    BY <1>5 DEF BeginCheck
  <2>2. c \in Checks /\ c.phase # "append" /\ checks' \in Nat
    BY <1>1, <2>1 DEF Checks, Phases
  <2> HIDE DEF c
  <2> QED
    BY <1>1, <2>1, <2>2, CheckMoves
<1> QED
  BY <1>2, <1>3, <1>4, <1>5

(* A result that is entered, whether or not the process knows that.        *)
LEMMA EnterResults ==
  ASSUME ResultsInv, NEW p \in Proc, check[p] # None, check[p].phase = "append",
         NEW result, result = check[p].result, result # Refused, Enter(p, result),
         check' = [check EXCEPT ![p] = None], UNCHANGED <<pc, checks>>,
         \/ memory' = [memory EXCEPT ![p] = history'] /\ told' = told \cup {result.id}
         \/ UNCHANGED <<memory, told>>
  PROVE  ResultsInv'
<1>1. /\ result \in Saved /\ result.id \in Nat /\ memory[p] \in Seq(Saved) /\ pc[p] = "up"
      /\ memory[p] # None
  BY HistoryAssumption DEF ResultsInv, CheckInv, Saved
<1>2. /\ history' = appendRuntimeQualificationResult(memory[p], result)
      /\ entered' = Append(entered, result.id) /\ blind' = (blind \/ p \in stale)
      /\ stale' = (stale \ {p}) \cup {q \in Proc \ {p} : memory[q] # None}
  BY DEF Enter
<1>3. history' \in Seq(Saved) /\ history' # None /\ entered' \in Seq(Nat)
  BY <1>1, <1>2, AppendFacts, HistoryAssumption DEF ResultsInv, CheckInv
<1>4. memory' \in [Proc -> Seq(Saved) \cup {None}] /\ \A q \in Proc : memory'[q] # None <=> pc[q] = "up"
  BY <1>1, <1>3 DEF ResultsInv, CheckInv
<1>5. CheckInv'
  BY <1>3, <1>4 DEF ResultsInv, CheckInv
<1>6. PICK list \in Seq(Saved), new \in Seq(Saved) : list = memory[p] /\ new = history'
  BY <1>1, <1>3
<1>7. ASSUME ~blind'
      PROVE  HasAllTold(new)' /\ (told' = told => HasAllTold(list)')
  <2>1. HasAllTold(list) /\ CheckInv
    BY <1>1, <1>2, <1>6, <1>7 DEF ResultsInv
  <2>2. /\ entered' = Append(entered, result.id) /\ told' \subseteq told \cup {result.id}
        /\ new = appendRuntimeQualificationResult(list, result)
    BY <1>2, <1>6
  <2> QED
    BY <2>1, <2>2, <1>1, <1>6, EnterKeeps
<1>8. ASSUME NEW q \in Proc, memory'[q] # None, q \notin stale'
      PROVE  (memory'[q] = new) \/ (memory'[q] = list /\ told' = told)
  <2>1. CASE q # p
    <3>1. memory'[q] = memory[q]
      BY <2>1 DEF ResultsInv, CheckInv
    <3> QED
      BY <3>1, <2>1, <1>2, <1>8
  <2>2. CASE q = p
    BY <2>2, <1>1, <1>6 DEF ResultsInv, CheckInv
  <2> QED
    BY <2>1, <2>2
<1>9. ~blind' => HasAllTold(history)'
  BY <1>6, <1>7 DEF HasAllTold, Remains
<1>10. ASSUME ~blind', NEW q \in Proc, memory'[q] # None, q \notin stale'
       PROVE  HasAllTold(memory[q])'
  <2>1. CASE memory'[q] = new
    BY <2>1, <1>7, <1>10 DEF HasAllTold, Remains
  <2>2. CASE memory'[q] = list /\ told' = told
    BY <2>2, <1>7, <1>10 DEF HasAllTold, Remains
  <2> QED
    BY <2>1, <2>2, <1>8, <1>10
<1> QED
  BY <1>3, <1>5, <1>9, <1>10 DEF ResultsInv

LEMMA ResultsStep == ResultsInv /\ [Next]_vars => ResultsInv'
<1> SUFFICES ASSUME ResultsInv, [Next]_vars PROVE ResultsInv'
  OBVIOUS
<1>1. CASE UNCHANGED vars
  BY <1>1, ResultsKept DEF vars, results, ResultsInv, CheckInv
<1>2. ASSUME NEW p \in Proc, SaveResult(p)
      PROVE  ResultsInv'
  BY <1>2, EnterResults DEF SaveResult, starting
<1>3. ASSUME NEW p \in Proc, SaveResultFails(p)
      PROVE  ResultsInv'
  <2>1. CASE UNCHANGED results
    <3>1. /\ checks' = checks /\ check[p] # None /\ check' = [check EXCEPT ![p] = None]
          /\ pc' = pc /\ pc[p] = "up" /\ checks \in Nat
      BY <1>3 DEF SaveResultFails, ResultsInv, CheckInv
    <3> QED
      BY <2>1, <3>1, CheckMoves
  <2>2. CASE ~UNCHANGED results
    BY <1>3, <2>2, EnterResults DEF SaveResultFails, starting
  <2> QED
    BY <2>1, <2>2
<1>4. ASSUME NEW p \in Proc, StartStep(p)
      PROVE  ResultsInv'
  BY <1>4, StartKeepsResults, LoadHistoryResults, CrashResults
<1> QED
  BY <1>1, <1>2, <1>3, <1>4, CheckKeepsResults, DamageResults DEF Next, CheckStep

(* A result that the user was told is saved stays until MAX_RESULTS newer  *)
(* ones have pushed it out, or a process has written that had not read it, *)
(* for any number of processes, and through crashes, failing writes and    *)
(* restarts (appendRuntimeQualificationResult).                            *)
THEOREM SavedResultsStay == Spec => []ResultsStay
<1>1. ResultsInv => ResultsStay
  <2> SUFFICES ASSUME ResultsInv, ~blind, history # Unreadable, NEW id \in told
               PROVE  \/ history # None /\ \E i \in DOMAIN history : history[i].id = id
                      \/ \E i \in DOMAIN entered : entered[i] = id /\ Len(entered) - i >= MAX_RESULTS
    BY DEF ResultsStay
  <2>1. history # None /\ history \in Seq(Saved) /\ HasAllTold(history)
    BY DEF ResultsInv, CheckInv
  <2>2. PICK i \in DOMAIN entered : entered[i] = id /\ Remains(history, i)
    BY <2>1 DEF HasAllTold
  <2> QED
    BY <2>1, <2>2 DEF Remains
<1> QED
  BY <1>1, ResultsInit, ResultsStep, PTL DEF Spec

-----------------------------------------------------------------------------
(* What a migration keeps of an older document.                            *)

(* What a document of version 3, or an older one, becomes before it is     *)
(* validated.                                                              *)
older(doc) ==
  [doc EXCEPT !.costPolicy = Default(@, "free-only"),
              !.costPreference = Default(@, "free-first"),
              !.autoIncludeNewModels = TRUE,
              !.roleAssignments = legacyRoleAssignments(doc),
              !.maxDelegationDepth = Default(@, 1),
              !.maxFallbacksPerAssignment = Default(@, 1),
              !.modelControls = legacyControls(doc)]

LEMMA MigratedFrom ==
  ASSUME NEW doc, doc # None, doc # Refused, doc.version # CURRENT_SETTINGS_VERSION,
         migrateSettings(doc) # Refused
  PROVE  \/ /\ doc.version = 3
            /\ migrateSettings(doc) = validateSettings(upgradeV3ToV4(doc))
         \/ /\ doc.version \in 0..2
            /\ migrateSettings(doc) = validateSettings(upgradeV3ToV4(older(doc)))
<1> DEFINE v3 == validateSettings(upgradeV3ToV4(doc))
           v2 == validateSettings(upgradeV3ToV4(older(doc)))
           v4 == validateSettings(doc)
<1>1. migrateSettings(doc) =
        CASE doc = None -> createDefaultSettings
          [] doc = Refused -> Refused
          [] OTHER ->
               CASE doc.version = CURRENT_SETTINGS_VERSION -> v4
                 [] doc.version = 3 -> v3
                 [] doc.version \notin 0..4 -> Refused
                 [] doc.version \in 0..2 /\ (doc.allowPaid = TRUE \/ doc.freeOnly = FALSE) -> Refused
                 [] OTHER -> v2
  BY DEF migrateSettings, older
<1> HIDE DEF v2, v3, v4
<1>2. doc.version = 3 => migrateSettings(doc) = v3
  BY <1>1 DEF CURRENT_SETTINGS_VERSION
<1>3. doc.version # 3 => doc.version \in 0..4 /\ migrateSettings(doc) = v2
  BY <1>1
<1> QED
  BY <1>2, <1>3 DEF v2, v3, CURRENT_SETTINGS_VERSION

(* What validation makes of what it does not refuse.                       *)
LEMMA Validated ==
  ASSUME NEW doc, validateSettings(doc) # Refused
  PROVE  LET s == validateSettings(doc)
         IN /\ s.version = CURRENT_SETTINGS_VERSION
            /\ s.costPolicy = doc.costPolicy /\ s.costPreference = doc.costPreference
            /\ s.paidEligibility = doc.paidEligibility
            /\ s.maxDelegationDepth = doc.maxDelegationDepth
            /\ s.maxFallbacksPerAssignment = doc.maxFallbacksPerAssignment
            /\ s.makeRouterDefault = Default(doc.makeRouterDefault, TRUE)
            /\ s.modelControls = normalizeModelControls(doc.modelControls)
            /\ \A r \in DOMAIN doc.roleAssignments \cap MODEL_ROLES :
                 s.roleAssignments[r] = doc.roleAssignments[r]
            /\ \A r \in MODEL_ROLES \ DOMAIN doc.roleAssignments :
                 s.roleAssignments[r] = defaultRoleAssignmentsForCatalog[r]
BY DEF validateSettings, normalizeRoleAssignments

(* Upgrading changes the version, and how paid models become eligible.     *)
LEMMA Upgraded ==
  ASSUME NEW doc, DOMAIN doc = Fields
  PROVE  LET up == upgradeV3ToV4(doc)
         IN /\ up.paidEligibility = "verified-pricing"
            /\ up.costPolicy = doc.costPolicy /\ up.costPreference = doc.costPreference
            /\ up.maxDelegationDepth = doc.maxDelegationDepth
            /\ up.maxFallbacksPerAssignment = doc.maxFallbacksPerAssignment
            /\ up.makeRouterDefault = doc.makeRouterDefault
            /\ up.modelControls = doc.modelControls
            /\ up.roleAssignments = doc.roleAssignments
BY DEF upgradeV3ToV4, Fields

LEMMA OlderFacts ==
  ASSUME NEW doc, DOMAIN doc = Fields
  PROVE  /\ DOMAIN older(doc) = Fields
         /\ older(doc).costPolicy = Default(doc.costPolicy, "free-only")
         /\ older(doc).costPreference = Default(doc.costPreference, "free-first")
         /\ older(doc).maxDelegationDepth = Default(doc.maxDelegationDepth, 1)
         /\ older(doc).maxFallbacksPerAssignment = Default(doc.maxFallbacksPerAssignment, 1)
         /\ older(doc).makeRouterDefault = doc.makeRouterDefault
         /\ older(doc).modelControls = legacyControls(doc)
         /\ older(doc).roleAssignments = legacyRoleAssignments(doc)
BY DEF older, Fields

(* A control keeps its flag, as a selection, and what it excludes.         *)
LEMMA NormalControl ==
  ASSUME NEW controls, NEW m \in DOMAIN controls
  PROVE  LET c == controls[m]
             n == ControlIn(normalizeModelControls(controls), m)
         IN /\ n.available = c.available
            /\ c.enabled = None => n.selection = Default(c.selection, "policy")
            /\ c.enabled = TRUE => n.selection = "enabled"
            /\ c.enabled = FALSE => n.selection = "disabled"
<1> DEFINE c == controls[m]
<1>1. ControlIn(normalizeModelControls(controls), m) =
        [enabled |-> None, available |-> c.available,
         selection |-> CASE c.enabled = None -> Default(c.selection, "policy")
                         [] c.enabled -> "enabled"
                         [] OTHER -> "disabled"]
  BY DEF ControlIn, normalizeModelControls
<1> HIDE DEF c
<1>2. ASSUME c.enabled = None
      PROVE  ControlIn(normalizeModelControls(controls), m).selection = Default(c.selection, "policy")
  <2>1. (CASE c.enabled = None -> Default(c.selection, "policy")
           [] c.enabled -> "enabled"
           [] OTHER -> "disabled") = Default(c.selection, "policy")
    BY <1>2, NoneAssumption, Zenon
  <2> QED
    BY <1>1, <2>1
<1>3. ASSUME c.enabled = TRUE
      PROVE  ControlIn(normalizeModelControls(controls), m).selection = "enabled"
  <2>1. (CASE c.enabled = None -> Default(c.selection, "policy")
           [] c.enabled -> "enabled"
           [] OTHER -> "disabled") = "enabled"
    BY <1>3, NoneAssumption, Zenon
  <2> QED
    BY <1>1, <2>1
<1>4. ASSUME c.enabled = FALSE
      PROVE  ControlIn(normalizeModelControls(controls), m).selection = "disabled"
  <2>1. (CASE c.enabled = None -> Default(c.selection, "policy")
           [] c.enabled -> "enabled"
           [] OTHER -> "disabled") = "disabled"
    BY <1>4, NoneAssumption, Zenon
  <2> QED
    BY <1>1, <2>1
<1>5. ControlIn(normalizeModelControls(controls), m).available = c.available
  BY <1>1
<1> QED
  BY <1>2, <1>3, <1>4, <1>5 DEF c

LEMMA LegacyControl ==
  ASSUME NEW doc, IsDocument(doc), NEW m \in DOMAIN legacyControls(doc)
  PROVE  LET c == ControlIn(doc.modelControls, m)
             l == legacyControls(doc)[m]
             listed == IF doc.enabledModels = None THEN {} ELSE Known \cup doc.enabledModels
         IN /\ l.available = IF m \in doc.unavailableModels THEN FALSE ELSE c.available
            /\ l.selection = c.selection
            /\ l.enabled = IF m \in listed THEN Default(c.enabled, m \in doc.enabledModels)
                           ELSE c.enabled
<1> DEFINE c == ControlIn(doc.modelControls, m)
           listed == IF doc.enabledModels = None THEN {} ELSE Known \cup doc.enabledModels
<1>1. DOMAIN c = {"enabled", "selection", "available"}
  <2>1. CASE m \in DOMAIN doc.modelControls
    <3>1. c \in Control
      BY <2>1 DEF ControlIn, IsDocument
    <3> HIDE DEF c
    <3> QED
      BY <3>1 DEF Control
  <2>2. CASE m \notin DOMAIN doc.modelControls
    <3>1. c = NoControl
      BY <2>2 DEF ControlIn
    <3> HIDE DEF c
    <3> QED
      BY <3>1 DEF NoControl
  <2> QED
    BY <2>1, <2>2
<1>2. legacyControls(doc)[m] =
        [c EXCEPT !.enabled = IF m \in listed THEN Default(@, m \in doc.enabledModels) ELSE @,
                  !.available = IF m \in doc.unavailableModels THEN FALSE ELSE @]
  BY DEF legacyControls
<1> HIDE DEF c, listed
<1>3. /\ legacyControls(doc)[m].available = IF m \in doc.unavailableModels THEN FALSE ELSE c.available
      /\ legacyControls(doc)[m].selection = c.selection
  BY <1>1, <1>2
<1>4. legacyControls(doc)[m].enabled =
        IF m \in listed THEN Default(c.enabled, m \in doc.enabledModels) ELSE c.enabled
  BY <1>1, <1>2
<1> QED
  BY <1>3, <1>4 DEF c, listed

(* A pin is found where the migration looks for it.                        *)
LEMMA PinsKept ==
  ASSUME NEW doc, NEW r \in MODEL_ROLES, NEW m, <<r, m>> \in Pins(doc)
  PROVE  /\ doc.version = 3 => r \in DOMAIN doc.roleAssignments /\ doc.roleAssignments[r] = m
         /\ doc.version \in 0..2 => legacyRoleAssignments(doc)[r] = m
<1> DEFINE named(x) == IF x \in DOMAIN doc.roleAssignments THEN doc.roleAssignments[x]
                  ELSE IF doc.version < 3 /\ x = "orchestrator" THEN doc.primary
                  ELSE IF doc.version < 3 /\ x \in DOMAIN doc.roles THEN doc.roles[x]
                  ELSE None
<1>1. Pins(doc) = {<<x, named(x)>> : x \in {y \in MODEL_ROLES : named(y) # None}}
  BY DEF Pins
<1>2. m = named(r) /\ named(r) # None
  <2> HIDE DEF named
  <2> QED
    BY <1>1
<1>3. CASE doc.version = 3
  BY <1>2, <1>3
<1>4. CASE doc.version \in 0..2
  BY <1>2, <1>4 DEF legacyRoleAssignments
<1> QED
  BY <1>3, <1>4

(* What was chosen about a model is chosen of it in the control that the   *)
(* migration makes, and what was excluded is excluded.                     *)
LEMMA ChosenKept ==
  ASSUME NEW doc, IsDocument(doc), doc.version \in 0..3, NEW m,
         NEW controls, controls = IF doc.version = 3 THEN doc.modelControls ELSE legacyControls(doc)
  PROVE  /\ \A selection \in {"enabled", "disabled"} : Chosen(doc, m, selection) =>
              ControlIn(normalizeModelControls(controls), m).selection = selection
         /\ m \in Excluded(doc) =>
              ControlIn(normalizeModelControls(controls), m).available = FALSE
<1> DEFINE c == ControlIn(doc.modelControls, m)
           n == ControlIn(normalizeModelControls(controls), m)
           listed == IF doc.enabledModels = None THEN {} ELSE Known \cup doc.enabledModels
<1>1. m \notin DOMAIN doc.modelControls => c.enabled = None /\ c.selection = None /\ c.available = None
  BY DEF ControlIn, NoControl
<1>2. m \in DOMAIN doc.modelControls => c.enabled \in BOOLEAN \cup {None} /\ m \in DOMAIN controls
  <2>1. m \in DOMAIN doc.modelControls => m \in DOMAIN controls
    BY DEF legacyControls
  <2>2. m \in DOMAIN doc.modelControls => c \in Control
    BY DEF ControlIn, IsDocument
  <2> HIDE DEF c
  <2> QED
    BY <2>1, <2>2 DEF Control
<1>3. m \in DOMAIN controls =>
        /\ n.available = controls[m].available
        /\ controls[m].enabled = None => n.selection = Default(controls[m].selection, "policy")
        /\ controls[m].enabled = TRUE => n.selection = "enabled"
        /\ controls[m].enabled = FALSE => n.selection = "disabled"
  BY NormalControl
<1>4. doc.version # 3 /\ m \in DOMAIN controls =>
        /\ controls[m].available = IF m \in doc.unavailableModels THEN FALSE ELSE c.available
        /\ controls[m].selection = c.selection
        /\ controls[m].enabled = IF m \in listed THEN Default(c.enabled, m \in doc.enabledModels)
                                 ELSE c.enabled
  BY LegacyControl
<1>5. doc.version = 3 /\ m \in DOMAIN controls => controls[m] = c
  BY DEF ControlIn
<1>6. doc.version # 3 => DOMAIN controls = DOMAIN doc.modelControls \cup listed \cup doc.unavailableModels
  BY DEF legacyControls
<1>7. \A selection \in {"enabled", "disabled"} : Chosen(doc, m, selection) =>
        \/ c.enabled = (selection = "enabled")
        \/ /\ c.enabled = None /\ c.selection = selection
           /\ doc.version = 3 \/ doc.enabledModels = None
        \/ /\ c.enabled = None /\ doc.version < 3 /\ doc.enabledModels # None
           /\ (m \in doc.enabledModels) = (selection = "enabled") /\ m \in Known \cup doc.enabledModels
  BY DEF Chosen
<1>8. m \in Excluded(doc) => c.available = FALSE \/ (doc.version < 3 /\ m \in doc.unavailableModels)
  BY DEF Excluded
<1> HIDE DEF c, n
<1>9. ASSUME NEW selection \in {"enabled", "disabled"}, Chosen(doc, m, selection)
      PROVE  n.selection = selection
  <2>1. CASE c.enabled = (selection = "enabled")
    <3>1. c.enabled \in BOOLEAN /\ c.enabled # None
      BY <2>1, NoneAssumption
    <3>2. m \in DOMAIN controls
      BY <3>1, <1>1, <1>2
    <3>3. controls[m].enabled = c.enabled
      BY <3>1, <3>2, <1>4, <1>5 DEF Default
    <3>4. CASE selection = "enabled"
      <4>1. c.enabled = TRUE
        BY <2>1, <3>4
      <4> QED
        BY <4>1, <3>2, <3>3, <3>4, <1>3
    <3>5. CASE selection = "disabled"
      <4>1. c.enabled = FALSE
        BY <2>1, <3>5
      <4> QED
        BY <4>1, <3>2, <3>3, <3>5, <1>3
    <3> QED
      BY <1>9, <3>4, <3>5
  <2>2. CASE /\ c.enabled = None /\ c.selection = selection
             /\ doc.version = 3 \/ doc.enabledModels = None
    <3>1. m \in DOMAIN controls
      BY <2>2, <1>1, <1>2, <1>9, NoneAssumption
    <3>2. controls[m].enabled = None /\ controls[m].selection = selection
      BY <2>2, <3>1, <1>4, <1>5
    <3> QED
      BY <3>1, <3>2, <1>3, <1>9, NoneAssumption DEF Default
  <2>3. CASE /\ c.enabled = None /\ doc.version < 3 /\ doc.enabledModels # None
             /\ (m \in doc.enabledModels) = (selection = "enabled")
             /\ m \in Known \cup doc.enabledModels
    <3>1. doc.version # 3 /\ m \in listed /\ m \in DOMAIN controls
      BY <2>3, <1>6
    <3>2. controls[m].enabled = (m \in doc.enabledModels)
      BY <2>3, <3>1, <1>4 DEF Default
    <3>3. CASE selection = "enabled"
      <4>1. controls[m].enabled = TRUE
        BY <2>3, <3>2, <3>3
      <4> QED
        BY <4>1, <3>1, <3>3, <1>3
    <3>4. CASE selection = "disabled"
      <4>1. controls[m].enabled = FALSE
        BY <2>3, <3>2, <3>4
      <4> QED
        BY <4>1, <3>1, <3>4, <1>3
    <3> QED
      BY <1>9, <3>3, <3>4
  <2> QED
    BY <1>7, <1>9, <2>1, <2>2, <2>3
<1>10. ASSUME m \in Excluded(doc)
       PROVE  n.available = FALSE
  <2>1. CASE doc.version < 3 /\ m \in doc.unavailableModels
    <3>1. doc.version # 3 /\ m \in DOMAIN controls
      BY <2>1, <1>6
    <3>2. controls[m].available = FALSE
      BY <2>1, <3>1, <1>4
    <3> QED
      BY <3>1, <3>2, <1>3
  <2>2. CASE c.available = FALSE
    <3>1. m \in DOMAIN controls
      BY <2>2, <1>1, <1>2, NoneAssumption
    <3>2. controls[m].available = FALSE
      BY <2>2, <3>1, <1>4, <1>5
    <3> QED
      BY <3>1, <3>2, <1>3
  <2> QED
    BY <1>8, <1>10, <2>1, <2>2
<1> QED
  BY <1>9, <1>10 DEF n

LEMMA IntentMigrated ==
  ASSUME NEW doc, IsDocument(doc), doc # None, doc # Refused,
         doc.version # CURRENT_SETTINGS_VERSION, migrateSettings(doc) # Refused
  PROVE  KeepsIntent(doc, migrateSettings(doc)) /\ migrateSettings(doc).version = CURRENT_SETTINGS_VERSION
<1> DEFINE old == IF doc.version = 3 THEN doc ELSE older(doc)
           up == upgradeV3ToV4(old)
           new == migrateSettings(doc)
           controls == IF doc.version = 3 THEN doc.modelControls ELSE legacyControls(doc)
<1>1. doc.version \in 0..3 /\ new = validateSettings(up) /\ new # Refused
  BY MigratedFrom
<1>2. /\ DOMAIN old = Fields
      /\ \A field \in {"costPolicy", "costPreference", "makeRouterDefault",
                       "maxDelegationDepth", "maxFallbacksPerAssignment"} :
           doc[field] # None => old[field] = doc[field]
      /\ old.modelControls = controls
  BY OlderFacts DEF IsDocument, Default
<1>3. old.roleAssignments = IF doc.version = 3 THEN doc.roleAssignments ELSE legacyRoleAssignments(doc)
  BY OlderFacts DEF IsDocument
<1> HIDE DEF old
<1>4. /\ up.paidEligibility = "verified-pricing"
      /\ up.costPolicy = old.costPolicy /\ up.costPreference = old.costPreference
      /\ up.maxDelegationDepth = old.maxDelegationDepth
      /\ up.maxFallbacksPerAssignment = old.maxFallbacksPerAssignment
      /\ up.makeRouterDefault = old.makeRouterDefault
      /\ up.modelControls = old.modelControls
      /\ up.roleAssignments = old.roleAssignments
  BY <1>2, Upgraded
<1> HIDE DEF up, new
<1>5. /\ new.version = CURRENT_SETTINGS_VERSION
      /\ new.costPolicy = up.costPolicy /\ new.costPreference = up.costPreference
      /\ new.paidEligibility = up.paidEligibility
      /\ new.maxDelegationDepth = up.maxDelegationDepth
      /\ new.maxFallbacksPerAssignment = up.maxFallbacksPerAssignment
      /\ new.makeRouterDefault = Default(up.makeRouterDefault, TRUE)
      /\ new.modelControls = normalizeModelControls(up.modelControls)
      /\ \A r \in DOMAIN up.roleAssignments \cap MODEL_ROLES :
           new.roleAssignments[r] = up.roleAssignments[r]
  BY <1>1, Validated
<1>6. new.modelControls = normalizeModelControls(controls)
  BY <1>2, <1>4, <1>5
<1>7. ASSUME NEW m
      PROVE  /\ \A selection \in {"enabled", "disabled"} : Chosen(doc, m, selection) =>
                  ControlIn(new.modelControls, m).selection = selection
             /\ m \in Excluded(doc) => ControlIn(new.modelControls, m).available = FALSE
  BY <1>1, <1>6, ChosenKept
<1>8. ASSUME NEW r \in MODEL_ROLES, NEW m, <<r, m>> \in Pins(doc)
      PROVE  new.roleAssignments[r] = m
  <2>1. r \in DOMAIN legacyRoleAssignments(doc)
    BY DEF legacyRoleAssignments
  <2>2. r \in DOMAIN old.roleAssignments /\ old.roleAssignments[r] = m
    BY <1>1, <1>3, <1>8, <2>1, PinsKept
  <2> QED
    BY <2>2, <1>4, <1>5
<1>9. ASSUME NEW field \in {"costPolicy", "costPreference", "makeRouterDefault",
                            "maxDelegationDepth", "maxFallbacksPerAssignment"},
             doc[field] # None
      PROVE  new[field] = doc[field]
  <2>1. old[field] = doc[field] /\ up[field] = old[field]
    BY <1>2, <1>4, <1>9
  <2>2. new[field] = up[field]
    BY <1>5, <1>9, <2>1 DEF Default
  <2> QED
    BY <2>1, <2>2
<1>10. new.paidEligibility = "verified-pricing"
  BY <1>4, <1>5
<1> QED
  BY <1>5, <1>7, <1>8, <1>9, <1>10 DEF KeepsIntent, new

(* Until the user saves something, the settings are the original ones or   *)
(* what these were migrated to; who migrates has read something older.     *)
IntentInv ==
  /\ StartInv /\ original \in Documents
  /\ ~edited =>
       \/ settings = original
       \/ /\ settings = migrateSettings(original) /\ settings # Refused
          /\ original # None /\ original.version # CURRENT_SETTINGS_VERSION
  /\ \A p \in Proc : pc[p] \in {"backup", "write"} =>
       settings # None /\ settings.version # CURRENT_SETTINGS_VERSION

LEMMA IntentStep == IntentInv /\ [Next]_vars => IntentInv'
<1> SUFFICES ASSUME IntentInv, [Next]_vars PROVE IntentInv'
  OBVIOUS
<1>1. StartInv'
  BY StartInvStep DEF IntentInv
<1>2. ASSUME UNCHANGED <<settings, original, edited>>,
             \A p \in Proc : pc'[p] \in {"backup", "write"} =>
               \/ pc[p] \in {"backup", "write"}
               \/ settings # None /\ settings.version # CURRENT_SETTINGS_VERSION
      PROVE  IntentInv'
  BY <1>1, <1>2 DEF IntentInv
<1>3. CASE UNCHANGED <<starting, pc>>
  BY <1>2, <1>3 DEF starting
<1>4. ASSUME NEW p \in Proc, StartStep(p)
      PROVE  IntentInv'
  <2> USE DEF Goto, IntentInv, StartInv
  <2>1. CASE ReadSettings(p)
    BY <2>1, <1>2 DEF ReadSettings
  <2>2. CASE Backup(p)
    BY <2>2, <1>2 DEF Backup
  <2>3. CASE BackupFails(p)
    BY <2>3, <1>2 DEF BackupFails
  <2>4. CASE LoadHistory(p)
    BY <2>4, <1>2 DEF LoadHistory, starting
  <2>5. CASE Crash(p)
    BY <2>5, <1>2 DEF Crash
  <2>6. CASE Save(p)
    <3>1. UNCHANGED <<original, pc, lock>> /\ edited' = TRUE /\ lock = None
      BY <2>6 DEF Save
    <3>2. \A q \in Proc : pc[q] \notin {"backup", "write"}
      BY <3>1, RefusedFacts
    <3> QED
      BY <1>1, <3>1, <3>2
  <2>7. CASE WriteSettings(p) \/ WriteFails(p)
    <3>1. /\ UNCHANGED <<original, edited>> /\ settings' \in {settings, migrateSettings(settings)}
          /\ pc[p] = "write" /\ pc'[p] \notin {"backup", "write"}
          /\ \A q \in Proc \ {p} : pc'[q] = pc[q]
      BY <2>7 DEF WriteSettings, WriteFails
    <3>2. /\ \A q \in Proc : pc'[q] \notin {"backup", "write"}
          /\ migrateSettings(settings) # Refused /\ settings # None
          /\ settings.version # CURRENT_SETTINGS_VERSION
      BY <3>1, RefusedFacts
    <3>3. ~edited => settings = original
      <4>1. settings = migrateSettings(original) /\ settings # Refused
            /\ original # None /\ original.version # CURRENT_SETTINGS_VERSION
            => settings.version = CURRENT_SETTINGS_VERSION
        BY IntentMigrated, RefusedFacts, ServiceFilesAssumption
      <4> QED
        BY <3>2, <4>1
    <3> QED
      BY <1>1, <3>1, <3>2, <3>3
  <2> QED
    BY <1>4, <2>1, <2>2, <2>3, <2>4, <2>5, <2>6, <2>7 DEF StartStep
<1>5. ASSUME NEW p \in Proc, CheckStep(p) \/ \E m \in Checkable : BeginCheck(p, m)
      PROVE  UNCHANGED <<starting, pc>>
  BY <1>5 DEF CheckStep, BeginCheck, Isolate, Finish, RunnerFails, SaveResult, SaveResultFails
<1>6. Damage => UNCHANGED <<starting, pc>>
  BY DEF Damage
<1> QED
  BY <1>3, <1>4, <1>5, <1>6 DEF Next, vars

(* As long as the user saves nothing else, the settings ask for what the   *)
(* older document asked for, whatever it says (migrateSettings).           *)
THEOREM IntentSurvivesUpgrade == Spec => []IntentIsKept
<1>1. Init => IntentInv
  BY StartInit DEF Init, IntentInv
<1>2. IntentInv => IntentIsKept
  BY IntentMigrated, RefusedFacts, ServiceFilesAssumption DEF IntentInv, IntentIsKept
<1> QED
  BY <1>1, <1>2, IntentStep, PTL DEF Spec
===============================================================================
