------------------------ MODULE ConfigInstallerProofs ------------------------
(***************************************************************************)
(* Proofs about ConfigInstaller, for any processes, packages and contents  *)
(* of the config.                                                          *)
(***************************************************************************)
EXTENDS ConfigInstaller, TLAPS

Pc == {"idle", "read", "lock", "guard", "backup", "check", "rename", "receipt",
       "undo", "restore", "release"}

(* What is compared under the lock stays so until it is replaced, as only  *)
(* the owner of the lock writes and the user does not race.                *)
SnapshotInv ==
  \A p \in Proc :
    /\ job[p].pc \in {"check", "rename"} => job[p].original \in backups \cup {Missing}
    /\ job[p].pc = "rename" => config = job[p].original
    /\ job[p].pc = "restore" => config = job[p].next

Inv == TypeOK /\ SnapshotInv

-----------------------------------------------------------------------------
(* Configs.                                                                *)

LEMMA BlankFacts ==
  /\ Blank \in Config /\ NoEntries \in Entries /\ Refused \in Job /\ Refused.pc = "idle"
<1>1. Blank \in Config /\ NoEntries \in Entries
  BY InstallerAssumption DEF Blank, Config, NoEntries, Entries
<1> QED
  BY <1>1 DEF Refused, Job

LEMMA ReadType == ASSUME NEW c \in Config \cup {Missing} PROVE Read(c) \in Config
BY BlankFacts DEF Read

LEMMA RecordedType == ASSUME NEW r \in Entries \cup {None} PROVE Recorded(r) \in Entries
BY BlankFacts DEF Recorded

LEMMA DesiredType ==
  ASSUME NEW v \in Version, NEW d PROVE Desired(v, d) \in Entries
BY DEF Desired, Entries, Value, Plugin, Key

LEMMA ConnectedType ==
  ASSUME NEW c \in Config, NEW previous \in Entries, NEW desired \in Entries
  PROVE  Connected(c, previous, desired) \in Config
<1>1. /\ c.text \in Text /\ c.keys \in [Key -> Value \cup {Nothing}]
      /\ c.plugins \subseteq Plugin
  BY DEF Config
<1>2. /\ desired.keys \in [Key -> Value \cup {Nothing}] /\ desired.plugins \subseteq Plugin
  BY DEF Entries
<1>3. (c.plugins \ previous.plugins) \cup desired.plugins \subseteq Plugin
  BY <1>1, <1>2
<1>4. [k \in Key |-> IF desired.keys[k] # Nothing THEN desired.keys[k]
                     ELSE IF previous.keys[k] # Nothing THEN Nothing
                     ELSE c.keys[k]] \in [Key -> Value \cup {Nothing}]
  BY <1>1, <1>2
<1> QED
  BY <1>1, <1>3, <1>4 DEF Connected, Config

LEMMA DisconnectedType ==
  ASSUME NEW c \in Config, NEW e
  PROVE  Disconnected(c, e) \in Config
<1>1. /\ c.text \in Text /\ c.keys \in [Key -> Value \cup {Nothing}]
      /\ c.plugins \ e.plugins \subseteq Plugin
  BY DEF Config
<1>2. [k \in Key |-> IF e.keys[k] # Nothing THEN Nothing ELSE c.keys[k]]
        \in [Key -> Value \cup {Nothing}]
  BY <1>1
<1> QED
  BY <1>1, <1>2 DEF Disconnected, Config

LEMMA WriteType ==
  ASSUME TypeOK, NEW new \in Config \cup {Missing}, Write(new)
  PROVE  config' = new /\ ours' \in Entries
<1> DEFINE old == Read(config)
           now == Read(new)
<1>1. old \in Config /\ now \in Config
  BY ReadType DEF TypeOK
<1> HIDE DEF old, now
<1>2. /\ now.keys \in [Key -> Value \cup {Nothing}] /\ now.plugins \subseteq Plugin
      /\ ours.keys \in [Key -> Value \cup {Nothing}] /\ ours.plugins \subseteq Plugin
  BY <1>1 DEF TypeOK, Config, Entries
<1>3. /\ config' = new
      /\ ours' = [keys    |-> [k \in Key |-> IF now.keys[k] = old.keys[k] THEN ours.keys[k]
                                             ELSE now.keys[k]],
                  plugins |-> (ours.plugins \cap now.plugins) \cup (now.plugins \ old.plugins)]
  BY DEF Write, old, now
<1>4. /\ [k \in Key |-> IF now.keys[k] = old.keys[k] THEN ours.keys[k] ELSE now.keys[k]]
           \in [Key -> Value \cup {Nothing}]
      /\ (ours.plugins \cap now.plugins) \cup (now.plugins \ old.plugins) \subseteq Plugin
  BY <1>2
<1> QED
  BY <1>3, <1>4 DEF Entries

LEMMA InvInit == Init => Inv
<1> SUFFICES ASSUME Init PROVE Inv
  OBVIOUS
<1>1. \A v \in Version :
        /\ [NoEntries EXCEPT !.keys["mcp"] = v] \in Entries
        /\ [Blank EXCEPT !.keys["mcp"] = v] \in Config
  BY InstallerAssumption DEF NoEntries, Entries, Blank, Config, Key, Value
<1>2. config \in Config \cup {Missing} /\ receipt \in Entries \cup {None}
  BY <1>1 DEF Init
<1>3. ours \in Entries
  BY <1>2, RecordedType DEF Init
<1>4. job \in [Proc -> Job] /\ \A p \in Proc : job[p].pc = "idle"
  BY BlankFacts DEF Init
<1>5. mine \in Config /\ backups = {} /\ lock = Free /\ failed = FALSE /\ begun = 0 /\ edits = 0
  BY BlankFacts DEF Init
<1>6. \A p \in Proc : ~Locked(p)
  BY <1>4 DEF Locked
<1>7. TypeOK
  <2>0. failed \in BOOLEAN
    BY <1>5, Zenon
  <2>1. begun \in 0..MaxBegun /\ edits \in 0..MaxEdits
    BY <1>5, InstallerAssumption
  <2>2. backups \subseteq Config /\ lock \in Proc \cup {Free}
    BY <1>5
  <2>3. \A p \in Proc : Locked(p) => lock = p
    BY <1>6
  <2> QED
    BY <1>2, <1>3, <1>4, <1>5, <2>0, <2>1, <2>2, <2>3 DEF TypeOK
<1>8. SnapshotInv
  BY <1>4 DEF SnapshotInv
<1> QED
  BY <1>7, <1>8 DEF Inv

-----------------------------------------------------------------------------
(* Steps.                                                                  *)

(* A step of one process that writes nothing to the config.                *)
LEMMA JobStep ==
  ASSUME Inv, NEW p \in Proc, UNCHANGED <<config, ours, mine, edits>>,
         NEW j \in Job, job' = [job EXCEPT ![p] = j],
         receipt' \in Entries \cup {None}, backups \subseteq backups', backups' \subseteq Config,
         begun' \in 0..MaxBegun, failed' \in BOOLEAN,
         lock' = lock \/ (lock = Free /\ lock' = p)
           \/ (lock = p /\ lock' = Free /\ j.pc \in {"idle", "read", "lock"}),
         j.pc \notin {"idle", "read", "lock"} => lock' = p,
         j.pc \in {"check", "rename"} => j.original \in backups' \cup {Missing},
         j.pc = "rename" => config = j.original,
         j.pc = "restore" => config = j.next
  PROVE  Inv'
<1>1. /\ job' \in [Proc -> Job] /\ job'[p] = j
      /\ \A q \in Proc \ {p} : job'[q] = job[q]
  BY DEF Inv, TypeOK
<1>2. lock' \in Proc \cup {Free}
  BY DEF Inv, TypeOK
<1>3. \A q \in Proc : Locked(q)' => lock' = q
  BY <1>1, InstallerAssumption DEF Inv, TypeOK, Locked
<1>4. TypeOK'
  BY <1>1, <1>2, <1>3 DEF Inv, TypeOK
<1>5. SnapshotInv'
  BY <1>1 DEF Inv, SnapshotInv
<1> QED
  BY <1>4, <1>5 DEF Inv

(* A job whose transaction goes on, or ends.                               *)
LEMMA JobFacts ==
  ASSUME Inv, NEW p \in Proc, NEW pc \in Pc
  PROVE  /\ job[p] \in Job /\ [job[p] EXCEPT !.pc = pc] \in Job
         /\ [job[p] EXCEPT !.pc = pc].pc = pc
         /\ [job[p] EXCEPT !.pc = pc].original = job[p].original
         /\ [job[p] EXCEPT !.pc = pc].next = job[p].next
         /\ To(p, pc) => job' = [job EXCEPT ![p] = [job[p] EXCEPT !.pc = pc]]
         /\ End(p) => job' = [job EXCEPT ![p] = Refused]
         /\ job[p].original \in Config \cup {Missing}
         /\ begun \in 0..MaxBegun /\ failed \in BOOLEAN
         /\ receipt \in Entries \cup {None} /\ backups \subseteq Config
<1>1. job[p] \in Job
  BY DEF Inv, TypeOK
<1> QED
  BY <1>1 DEF Job, Pc, To, End, Inv, TypeOK

(* A step that takes a transaction further, from where it has the lock.    *)
LEMMA ToStep ==
  ASSUME Inv, NEW p \in Proc, Locked(p), NEW pc \in Pc, To(p, pc),
         UNCHANGED <<config, lock, ours, mine, begun, edits>>,
         receipt' \in Entries \cup {None}, backups \subseteq backups', backups' \subseteq Config,
         failed' \in BOOLEAN,
         pc \in {"check", "rename"} => job[p].original \in backups' \cup {Missing},
         pc = "rename" => config = job[p].original,
         pc = "restore" => config = job[p].next
  PROVE  Inv'
<1> DEFINE j == [job[p] EXCEPT !.pc = pc]
<1>1. /\ j \in Job /\ j.pc = pc /\ j.original = job[p].original /\ j.next = job[p].next
      /\ job' = [job EXCEPT ![p] = j] /\ begun \in 0..MaxBegun
  BY JobFacts
<1>2. lock = p
  BY DEF Inv, TypeOK
<1> HIDE DEF j
<1> QED
  BY <1>1, <1>2, JobStep

LEMMA EndStep ==
  ASSUME Inv, NEW p \in Proc, End(p), UNCHANGED <<config, receipt, backups, ours, mine, begun, edits>>,
         failed' \in BOOLEAN, lock' = lock \/ (lock = p /\ lock' = Free)
  PROVE  Inv'
<1>1. job' = [job EXCEPT ![p] = Refused]
  BY DEF End
<1> QED
  BY <1>1, BlankFacts, JobStep DEF Inv, TypeOK

LEMMA BeginStep ==
  ASSUME Inv, NEW p \in Proc, NEW op \in {"install", "uninstall"}, Begin(p, op)
  PROVE  Inv'
<1> DEFINE j == [Refused EXCEPT !.pc = "read", !.op = op, !.receipt = receipt]
<1>1. j \in Job /\ j.pc = "read"
  BY BlankFacts DEF Inv, TypeOK, Job
<1>2. /\ begun' = begun + 1 /\ begun' \in 0..MaxBegun /\ job' = [job EXCEPT ![p] = j]
      /\ UNCHANGED <<config, receipt, backups, lock, mine, ours, failed, edits>>
  BY InstallerAssumption DEF Begin, Inv, TypeOK
<1> HIDE DEF j
<1> QED
  BY <1>1, <1>2, JobStep DEF Inv, TypeOK

LEMMA PlanInstallStep == ASSUME Inv, NEW p \in Proc, PlanInstall(p) PROVE Inv'
<1>1. UNCHANGED <<config, receipt, backups, lock, mine, ours, failed, begun, edits>>
  BY DEF PlanInstall
<1>2. CASE End(p)
  BY <1>1, <1>2, EndStep DEF Inv, TypeOK
<1>3. ASSUME NEW enabled \in BOOLEAN, NEW next \in Config, NEW desired \in Entries,
             job' = [job EXCEPT ![p].pc = "lock", ![p].original = config,
                                ![p].next = next, ![p].entries = desired]
      PROVE  Inv'
  <2> DEFINE j == [job[p] EXCEPT !.pc = "lock", !.original = config,
                                 !.next = next, !.entries = desired]
  <2>1. job[p] \in Job /\ config \in Config \cup {Missing}
    BY DEF Inv, TypeOK
  <2>2. j \in Job /\ j.pc = "lock" /\ job' = [job EXCEPT ![p] = j]
    BY <1>3, <2>1 DEF Job
  <2> HIDE DEF j
  <2> QED
    BY <1>1, <2>2, JobStep DEF Inv, TypeOK
<1>4. PICK enabled \in BOOLEAN :
        LET c == Read(config)
            previous == Recorded(job[p].receipt)
            desired == Desired(PackageOf[p], MakeDefault(enabled, c, previous))
            next == Connected(c, previous, desired)
        IN \/ End(p)
           \/ job' = [job EXCEPT ![p].pc = "lock", ![p].original = config,
                                 ![p].next = next, ![p].entries = desired]
  BY DEF PlanInstall
<1>5. /\ Read(config) \in Config /\ Recorded(job[p].receipt) \in Entries
      /\ PackageOf[p] \in Version
  <2>1. config \in Config \cup {Missing} /\ job[p].receipt \in Entries \cup {None}
    BY DEF Inv, TypeOK, Job
  <2> QED
    BY <2>1, ReadType, RecordedType, InstallerAssumption
<1>6. Desired(PackageOf[p], MakeDefault(enabled, Read(config), Recorded(job[p].receipt))) \in Entries
  BY <1>5, DesiredType
<1>7. Connected(Read(config), Recorded(job[p].receipt),
                Desired(PackageOf[p], MakeDefault(enabled, Read(config), Recorded(job[p].receipt))))
        \in Config
  BY <1>5, <1>6, ConnectedType
<1> QED
  BY <1>2, <1>3, <1>4, <1>6, <1>7

LEMMA PlanUninstallStep == ASSUME Inv, NEW p \in Proc, PlanUninstall(p) PROVE Inv'
<1>1. UNCHANGED <<config, receipt, backups, lock, mine, ours, failed, begun, edits>>
  BY DEF PlanUninstall
<1>2. CASE End(p)
  BY <1>1, <1>2, EndStep DEF Inv, TypeOK
<1>3. CASE /\ config # Missing /\ job[p].op = "uninstall"
           /\ Matches(config, job[p].receipt)
           /\ job' = [job EXCEPT ![p].pc = "lock", ![p].original = config,
                                 ![p].next = Disconnected(config, job[p].receipt)]
  <2> DEFINE next == Disconnected(config, job[p].receipt)
             j == [job[p] EXCEPT !.pc = "lock", !.original = config, !.next = next]
  <2>1. job[p] \in Job /\ config \in Config
    BY <1>3 DEF Inv, TypeOK
  <2>2. next \in Config
    BY <2>1, DisconnectedType
  <2> HIDE DEF next
  <2>3. j \in Job /\ j.pc = "lock" /\ job' = [job EXCEPT ![p] = j]
    BY <1>3, <2>1, <2>2 DEF Job, next
  <2> HIDE DEF j
  <2> QED
    BY <1>1, <2>3, JobStep DEF Inv, TypeOK
<1> QED
  BY <1>2, <1>3 DEF PlanUninstall

(* What takes the lock, and what does not get it.                          *)
LEMMA LockStep == ASSUME Inv, NEW p \in Proc, Lock(p) PROVE Inv'
<1> DEFINE j == [job[p] EXCEPT !.pc = "guard"]
<1>1. j \in Job /\ j.pc = "guard" /\ job' = [job EXCEPT ![p] = j]
  BY JobFacts DEF Lock, Pc
<1> HIDE DEF j
<1> QED
  BY <1>1, JobStep, JobFacts DEF Lock, Pc

LEMMA GuardedStep ==
  ASSUME Inv, NEW p \in Proc,
         Guard(p) \/ Backup(p) \/ Check(p) \/ CommitReceipt(p) \/ Undo(p)
  PROVE  Inv'
<1>1. job[p].pc \in Pc /\ Locked(p)
  BY JobFacts DEF Guard, Backup, Check, CommitReceipt, Undo, Pc, Locked
<1>2. /\ job[p].original \in Config \cup {Missing} /\ backups \subseteq Config
      /\ job[p].entries \in Entries /\ receipt \in Entries \cup {None} /\ failed \in BOOLEAN
  BY DEF Inv, TypeOK, Job
<1>3. CASE Guard(p)
  <2>1. PICK pc \in {"backup", "release"} : To(p, pc)
    BY <1>3 DEF Guard
  <2> QED
    BY <1>1, <1>2, <1>3, <2>1, ToStep DEF Guard, Pc
<1>4. CASE Backup(p)
  <2>1. CASE backups' = backups \cup ({job[p].original} \ {Missing}) /\ To(p, "check")
    BY <1>1, <1>2, <1>4, <2>1, ToStep DEF Backup, Pc
  <2>2. CASE UNCHANGED backups /\ To(p, "release")
    BY <1>1, <1>2, <1>4, <2>2, ToStep DEF Backup, Pc
  <2> QED
    BY <1>4, <2>1, <2>2 DEF Backup
<1>5. CASE Check(p)
  <2>1. CASE Unchanged(p) /\ To(p, "rename")
    BY <1>1, <1>2, <1>5, <2>1, ToStep DEF Check, Unchanged, Pc, Inv, SnapshotInv
  <2>2. CASE To(p, "release")
    BY <1>1, <1>2, <1>5, <2>2, ToStep DEF Check, Pc
  <2> QED
    BY <1>5, <2>1, <2>2 DEF Check
<1>6. CASE CommitReceipt(p)
  <2>1. PICK pc \in {"release", "undo"} : To(p, pc)
    BY <1>6 DEF CommitReceipt
  <2>2. receipt' \in Entries \cup {None}
    BY <1>2, <1>6 DEF CommitReceipt
  <2> QED
    BY <1>1, <1>2, <1>6, <2>1, <2>2, ToStep DEF CommitReceipt, Pc
<1>7. CASE Undo(p)
  <2>1. CASE config = job[p].next /\ To(p, "restore") /\ UNCHANGED failed
    BY <1>1, <1>2, <1>7, <2>1, ToStep DEF Undo, Pc
  <2>2. CASE To(p, "release") /\ failed' = TRUE
    BY <1>1, <1>2, <1>7, <2>2, ToStep DEF Undo, Pc
  <2> QED
    BY <1>7, <2>1, <2>2 DEF Undo
<1> QED
  BY <1>3, <1>4, <1>5, <1>6, <1>7

(* The owner of the lock writes: nobody else relies on the config.         *)
LEMMA WriteStep == ASSUME Inv, NEW p \in Proc, Rename(p) \/ Restore(p) PROVE Inv'
<1>1. PICK pc \in {"receipt", "release"}, new \in Config \cup {Missing} :
        /\ To(p, pc) /\ Write(new)
        /\ UNCHANGED <<receipt, backups, lock, mine, begun, edits>>
  BY DEF Rename, Restore, Inv, TypeOK, Job
<1>2. Locked(p) /\ lock = p
  BY DEF Rename, Restore, Locked, Inv, TypeOK
<1>3. failed' \in BOOLEAN
  <2>1. failed \in BOOLEAN
    BY DEF Inv, TypeOK
  <2>2. failed' = failed \/ failed' = (failed \/ receipt # job[p].receipt)
    BY DEF Rename, Restore
  <2> QED
    BY <2>1, <2>2, Zenon
<1>4. config' = new /\ ours' \in Entries
  BY <1>1, WriteType DEF Inv
<1>5. /\ job' \in [Proc -> Job] /\ job'[p].pc = pc
      /\ \A q \in Proc \ {p} : job'[q] = job[q]
  <2>1. /\ [job[p] EXCEPT !.pc = pc] \in Job /\ [job[p] EXCEPT !.pc = pc].pc = pc
        /\ job' = [job EXCEPT ![p] = [job[p] EXCEPT !.pc = pc]]
    <3>1. pc \in Pc
      BY <1>1 DEF Pc
    <3>2. job[p] \in Job
      BY DEF Inv, TypeOK
    <3>3. [job[p] EXCEPT !.pc = pc] \in Job /\ [job[p] EXCEPT !.pc = pc].pc = pc
      BY <3>1, <3>2 DEF Job
    <3> QED
      BY <1>1, <3>3 DEF To
  <2> QED
    BY <2>1 DEF Inv, TypeOK
<1>6. TypeOK'
  BY <1>1, <1>2, <1>3, <1>4, <1>5 DEF Inv, TypeOK, Locked
<1>7. SnapshotInv'
  <2>1. \A q \in Proc \ {p} : ~Locked(q)
    BY <1>2 DEF Inv, TypeOK
  <2> QED
    BY <1>1, <1>5, <2>1 DEF SnapshotInv, Locked
<1> QED
  BY <1>6, <1>7 DEF Inv

(* What the user saves is a config.                                        *)
LEMMA EditType == ASSUME Inv, Edit PROVE config' \in Config
<1> DEFINE c == Read(config)
<1>1. /\ c \in Config /\ c.text \in Text /\ c.keys \in [Key -> Value \cup {Nothing}]
      /\ c.plugins \subseteq Plugin
  BY ReadType DEF Inv, TypeOK, Config
<1> HIDE DEF c
<1>2. CASE \E t \in Text : config' = [c EXCEPT !.text = t]
  BY <1>1, <1>2 DEF Config
<1>3. ASSUME NEW k \in Key, NEW v \in {Own, Nothing}, config' = [c EXCEPT !.keys[k] = v]
      PROVE  config' \in Config
  <2>1. [c.keys EXCEPT ![k] = v] \in [Key -> Value \cup {Nothing}]
    BY <1>1 DEF Value
  <2> QED
    BY <1>1, <1>3, <2>1 DEF Config
<1>4. CASE \E q : config' = [c EXCEPT !.plugins = @ \ {q}]
  BY <1>1, <1>4 DEF Config
<1>5. CASE \E q \in Other : config' = [c EXCEPT !.plugins = @ \cup {q}]
  BY <1>1, <1>5 DEF Config, Plugin
<1> QED
  BY <1>2, <1>3, <1>4, <1>5 DEF Edit, c

LEMMA EditStep == ASSUME Inv, Edit, ~MayRace PROVE Inv'
<1> DEFINE c == Read(config)
<1>1. c \in Config /\ mine \in Config /\ ours \in Entries /\ edits \in 0..MaxEdits
  BY ReadType DEF Inv, TypeOK
<1>2. /\ edits' \in 0..MaxEdits /\ \A p \in Proc : job[p].pc \notin {"rename", "restore"}
      /\ UNCHANGED <<receipt, backups, lock, job, failed, begun>>
  BY <1>1, InstallerAssumption DEF Edit
<1> HIDE DEF c
<1>3. config' \in Config
  BY EditType
<1>4. ours' \in Entries /\ mine' \in Config
  <2>1. /\ ours' = [keys    |-> [k \in Key |-> IF config'.keys[k] = c.keys[k] THEN ours.keys[k]
                                               ELSE Nothing],
                    plugins |-> ours.plugins \cap config'.plugins]
        /\ mine' = [text    |-> config'.text,
                    keys    |-> [k \in Key |-> IF config'.keys[k] = c.keys[k] THEN mine.keys[k]
                                               ELSE config'.keys[k]],
                    plugins |-> (mine.plugins \cap config'.plugins)
                                  \cup (config'.plugins \ c.plugins)]
    BY DEF Edit, c
  <2>2. /\ config'.text \in Text /\ config'.plugins \subseteq Plugin
        /\ config'.keys \in [Key -> Value \cup {Nothing}]
    BY <1>3 DEF Config
  <2>3. /\ mine.plugins \subseteq Plugin /\ ours.plugins \subseteq Plugin
        /\ mine.keys \in [Key -> Value \cup {Nothing}]
        /\ ours.keys \in [Key -> Value \cup {Nothing}]
    BY <1>1 DEF Config, Entries
  <2>4. /\ [k \in Key |-> IF config'.keys[k] = c.keys[k] THEN ours.keys[k] ELSE Nothing]
             \in [Key -> Value \cup {Nothing}]
        /\ [k \in Key |-> IF config'.keys[k] = c.keys[k] THEN mine.keys[k] ELSE config'.keys[k]]
             \in [Key -> Value \cup {Nothing}]
        /\ ours.plugins \cap config'.plugins \subseteq Plugin
        /\ (mine.plugins \cap config'.plugins) \cup (config'.plugins \ c.plugins) \subseteq Plugin
    BY <2>2, <2>3
  <2> QED
    BY <2>1, <2>2, <2>4 DEF Config, Entries
<1>5. TypeOK'
  BY <1>2, <1>3, <1>4 DEF Inv, TypeOK, Locked
<1>6. SnapshotInv'
  BY <1>2 DEF Inv, SnapshotInv
<1> QED
  BY <1>5, <1>6 DEF Inv

LEMMA InvStep == Inv /\ ~MayRace /\ [Next]_vars => Inv'
<1> SUFFICES ASSUME Inv, ~MayRace, [Next]_vars PROVE Inv'
  OBVIOUS
<1>1. CASE UNCHANGED vars
  BY <1>1 DEF vars, Inv, TypeOK, SnapshotInv, Locked
<1>2. ASSUME NEW p \in Proc, VerifyFails(p) \/ Busy(p) PROVE Inv'
  BY <1>2, EndStep DEF VerifyFails, Busy, Inv, TypeOK
<1>3. ASSUME NEW p \in Proc, Release(p) PROVE Inv'
  BY <1>3, EndStep DEF Release, Locked, Inv, TypeOK
<1>4. ASSUME NEW p \in Proc, Crash(p) PROVE Inv'
  <2>1. failed' \in BOOLEAN
    <3>1. failed \in BOOLEAN /\ failed' = (failed \/ Locked(p))
      BY <1>4 DEF Crash, Inv, TypeOK
    <3>2. Locked(p) \in BOOLEAN
      BY DEF Locked
    <3> QED
      BY <3>1, <3>2
  <2> QED
    BY <1>4, <2>1, EndStep DEF Crash
<1>5. CASE RemoveLock
  BY <1>5, InstallerAssumption DEF RemoveLock, Inv, TypeOK, SnapshotInv, Locked
<1>6. ASSUME NEW p \in Proc, Step(p) PROVE Inv'
  BY <1>2, <1>3, <1>6, BeginStep, PlanInstallStep, PlanUninstallStep, LockStep, GuardedStep,
     WriteStep DEF Step
<1> QED
  BY <1>1, <1>4, <1>5, <1>6, EditStep DEF Next

(* While the user does not save in the one moment that atomicWrite cannot  *)
(* notice: a transaction that writes has the lock to itself, for any       *)
(* processes, packages and edits, with crashes and failing writes.         *)
THEOREM TypeCorrect == ASSUME ~MayRace PROVE Spec => []TypeOK
<1>1. Inv => TypeOK
  BY DEF Inv
<1>2. Inv /\ [Next]_vars => Inv'
  BY InvStep
<1> QED
  BY <1>1, <1>2, InvInit, PTL DEF Spec

(* And what it replaces was saved to a backup before, or is what it has    *)
(* itself written: no version of the user's config is overwritten unsaved  *)
(* (backup, atomicWrite).                                                  *)
THEOREM NothingUnsavedIsReplaced == ASSUME ~MayRace PROVE Spec => ReplacedIsBackedUp
<1>1. Inv => \A p \in Proc : job[p].pc \in {"rename", "restore"} =>
        config \in backups \cup {Missing, job[p].next}
  BY DEF Inv, SnapshotInv
<1>2. Inv /\ [Next]_vars => Inv'
  BY InvStep
<1>3. Inv /\ [Next]_vars =>
        [\A p \in Proc : config' # config /\ job[p].pc \in {"rename", "restore"} /\ job'[p] # job[p] =>
           config \in backups \cup {Missing, job[p].next}]_vars
  BY <1>1
<1> QED
  BY <1>2, <1>3, InvInit, PTL DEF Spec, ReplacedIsBackedUp

-----------------------------------------------------------------------------
(* Whose the entries are.                                                  *)

(* What a package puts into the config can be told from what the user may. *)
Apart ==
  /\ Own # Stock /\ Own \notin Version /\ Nothing \notin Value
  /\ Other \cap Version = {}

Managed == Version \cup {Stock}

OurPart(c) ==
  [keys    |-> [k \in Key |-> IF c.keys[k] \in Managed THEN c.keys[k] ELSE Nothing],
   plugins |-> c.plugins \cap Version]
UserPart(c) ==
  [text    |-> c.text,
   keys    |-> [k \in Key |-> IF c.keys[k] \in Managed THEN Nothing ELSE c.keys[k]],
   plugins |-> c.plugins \ Version]

Pure(e) ==
  /\ e \in Entries /\ e.plugins \subseteq Version
  /\ \A k \in Key : e.keys[k] \in Managed \cup {Nothing}

(* All that is ours in the config is named.                                *)
Held(c, e) ==
  /\ \A k \in Key : c.keys[k] \in Managed => c.keys[k] = e.keys[k]
  /\ c.plugins \cap Version \subseteq e.plugins

After(j) == IF j.op = "install" THEN j.entries ELSE NoEntries
Planned == {"lock", "guard", "backup", "check", "rename", "receipt", "undo", "restore", "release"}
Written == {"receipt", "undo", "restore"}

(* A job names entries of ours only; its plan leaves the user's part alone,*)
(* and puts or leaves nothing of ours there that it will not name.         *)
JobOK(j) ==
  /\ Pure(Recorded(j.receipt)) /\ Pure(j.entries)
  /\ j.op = "uninstall" => j.receipt # None
  /\ j.pc \in Planned =>
       /\ UserPart(j.next) = UserPart(Read(j.original))
       /\ Held(Read(j.original), Recorded(j.receipt)) => Held(j.next, After(j))

PartInv ==
  /\ ours = OurPart(Read(config)) /\ mine = UserPart(Read(config))
  /\ Pure(Recorded(receipt))
  /\ \A p \in Proc : JobOK(job[p])

(* Until something failed: the receipt names what is ours, or the one who  *)
(* has the lock has written and is about to name it, or to undo it.        *)
OwnedInv ==
  ~failed =>
    /\ (\A p \in Proc : job[p].pc \notin Written) => Held(Read(config), Recorded(receipt))
    /\ \A p \in Proc : job[p].pc \in Written =>
         /\ Held(Read(config), After(job[p]))
         /\ receipt = job[p].receipt /\ Held(Read(job[p].original), Recorded(receipt))

LEMMA PureFacts == Pure(NoEntries) /\ \A c \in Config : Read(c) = c
<1>1. NoEntries \in Entries /\ NoEntries.plugins = {} /\ \A k \in Key : NoEntries.keys[k] = Nothing
  BY BlankFacts DEF NoEntries
<1>2. \A c \in Config : c # Missing
  BY MarksAssumption
<1> QED
  BY <1>1, <1>2 DEF Pure, Read

(* What is planned touches entries of ours only.                           *)
LEMMA ConnectedParts ==
  ASSUME Apart, NEW c \in Config, NEW previous \in Entries \cup {None}, NEW version \in Version,
         NEW enabled \in BOOLEAN, Pure(Recorded(previous)),
         LET desired == Desired(version, MakeDefault(enabled, c, Recorded(previous)))
         IN Installable(c, previous, desired)
  PROVE  LET desired == Desired(version, MakeDefault(enabled, c, Recorded(previous)))
             next == Connected(c, Recorded(previous), desired)
         IN /\ Pure(desired) /\ UserPart(next) = UserPart(c)
            /\ Held(c, Recorded(previous)) => Held(next, desired)
<1> DEFINE e == Recorded(previous)
           desired == Desired(version, MakeDefault(enabled, c, e))
           next == Connected(c, e, desired)
<1>1. Pure(desired)
  <2>1. /\ desired.plugins = {version}
        /\ \A k \in Key : desired.keys[k] \in {version, Stock, Nothing}
    BY DEF Desired
  <2>2. desired \in Entries
    BY DesiredType
  <2> HIDE DEF desired
  <2> QED
    BY <2>1, <2>2 DEF Pure, Managed
<1>2. \A k \in Key : e.keys[k] # Nothing => c.keys[k] = e.keys[k]
  BY PureFacts DEF Installable, Matches, Recorded, NoEntries
<1>3. \A k \in Key : desired.keys[k] # Nothing /\ e.keys[k] = Nothing => c.keys[k] = Nothing
  <2>1. CASE previous = None
    <3>1. \A k \in {"mcp", "agent"} : c.keys[k] = Nothing
      BY <2>1 DEF Installable, OwnedCollision, Unexpected, NoEntries, Key
    <3>2. desired.keys["default_agent"] # Nothing /\ e.keys["default_agent"] = Nothing
            => c.keys["default_agent"] = Nothing
      BY DEF Desired, MakeDefault, Key
    <3> QED
      BY <3>1, <3>2 DEF Key
  <2>2. CASE previous # None
    BY <2>2 DEF Installable, NewCollision, Recorded
  <2> QED
    BY <2>1, <2>2
<1>4. /\ next.text = c.text
      /\ \A k \in Key : next.keys[k] = IF desired.keys[k] # Nothing THEN desired.keys[k]
                                       ELSE IF e.keys[k] # Nothing THEN Nothing ELSE c.keys[k]
      /\ next.plugins = (c.plugins \ e.plugins) \cup desired.plugins
  BY DEF Connected
<1>5. Pure(e) /\ Nothing \notin Managed
  BY DEF Apart, Managed, Value
<1> HIDE DEF e, desired, next
<1>6. ASSUME NEW k \in Key
      PROVE  /\ next.keys[k] \in Managed =>
                  next.keys[k] = desired.keys[k] \/ (next.keys[k] = c.keys[k] /\ e.keys[k] = Nothing)
             /\ (IF next.keys[k] \in Managed THEN Nothing ELSE next.keys[k])
                  = (IF c.keys[k] \in Managed THEN Nothing ELSE c.keys[k])
  <2>1. /\ desired.keys[k] \in Managed \cup {Nothing} /\ e.keys[k] \in Managed \cup {Nothing}
    BY <1>1, <1>5 DEF Pure
  <2>2. CASE desired.keys[k] # Nothing
    BY <1>2, <1>3, <1>4, <1>5, <2>1, <2>2
  <2>3. CASE desired.keys[k] = Nothing /\ e.keys[k] # Nothing
    BY <1>2, <1>4, <1>5, <2>1, <2>3
  <2>4. CASE desired.keys[k] = Nothing /\ e.keys[k] = Nothing
    BY <1>4, <1>5, <2>4
  <2> QED
    BY <2>2, <2>3, <2>4
<1>7. next.plugins \ Version = c.plugins \ Version
  BY <1>1, <1>4, <1>5 DEF Pure
<1>8. UserPart(next) = UserPart(c)
  BY <1>4, <1>6, <1>7 DEF UserPart
<1>9. ASSUME Held(c, e) PROVE Held(next, desired)
  BY <1>4, <1>5, <1>6, <1>9 DEF Held
<1> QED
  BY <1>1, <1>8, <1>9 DEF e, desired, next

LEMMA DisconnectedParts ==
  ASSUME Apart, NEW c \in Config, NEW e \in Entries, Pure(e), Matches(c, e)
  PROVE  /\ UserPart(Disconnected(c, e)) = UserPart(c)
         /\ Held(c, e) => Held(Disconnected(c, e), NoEntries)
<1> DEFINE next == Disconnected(c, e)
<1>1. /\ next.text = c.text /\ next.plugins = c.plugins \ e.plugins
      /\ \A k \in Key : next.keys[k] = IF e.keys[k] # Nothing THEN Nothing ELSE c.keys[k]
  BY DEF Disconnected
<1>2. \A k \in Key : e.keys[k] # Nothing => c.keys[k] = e.keys[k] /\ e.keys[k] \in Managed
  BY DEF Matches, Pure
<1>3. Nothing \notin Managed
  BY DEF Apart, Managed, Value
<1>4. NoEntries.plugins = {} /\ e.plugins \subseteq Version
  BY DEF NoEntries, Pure
<1> HIDE DEF next
<1>5. UserPart(next) = UserPart(c)
  BY <1>1, <1>2, <1>3, <1>4 DEF UserPart
<1>6. Held(c, e) => Held(next, NoEntries)
  BY <1>1, <1>2, <1>3, <1>4 DEF Held
<1> QED
  BY <1>5, <1>6 DEF next

(* A write that leaves the user's part alone.                              *)
LEMMA WriteParts ==
  ASSUME Inv, Apart, PartInv, NEW new \in Config \cup {Missing}, Write(new), UNCHANGED mine,
         UserPart(Read(new)) = UserPart(Read(config))
  PROVE  ours' = OurPart(Read(config')) /\ mine' = UserPart(Read(config'))
<1> DEFINE old == Read(config)
           now == Read(new)
<1>1. old \in Config /\ now \in Config
  BY ReadType DEF Inv, TypeOK
<1>2. /\ config' = new
      /\ ours' = [keys    |-> [k \in Key |-> IF now.keys[k] = old.keys[k] THEN ours.keys[k]
                                             ELSE now.keys[k]],
                  plugins |-> (ours.plugins \cap now.plugins) \cup (now.plugins \ old.plugins)]
  BY DEF Write
<1>3. ours = OurPart(old) /\ mine = UserPart(now)
  BY DEF PartInv
<1>4. /\ \A k \in Key : (IF now.keys[k] \in Managed THEN Nothing ELSE now.keys[k])
                          = (IF old.keys[k] \in Managed THEN Nothing ELSE old.keys[k])
      /\ now.plugins \ Version = old.plugins \ Version
  BY DEF UserPart
<1> HIDE DEF old, now
<1>5. /\ \A k \in Key : ours.keys[k] = IF old.keys[k] \in Managed THEN old.keys[k] ELSE Nothing
      /\ ours.plugins = old.plugins \cap Version
  BY <1>3 DEF OurPart
<1>6. \A k \in Key : (IF now.keys[k] = old.keys[k] THEN ours.keys[k] ELSE now.keys[k])
                       = (IF now.keys[k] \in Managed THEN now.keys[k] ELSE Nothing)
  BY <1>4, <1>5
<1>7. (ours.plugins \cap now.plugins) \cup (now.plugins \ old.plugins) = now.plugins \cap Version
  BY <1>4, <1>5
<1> QED
  BY <1>2, <1>3, <1>6, <1>7 DEF OurPart, now

LEMMA PartInit == Init => PartInv /\ OwnedInv
<1> SUFFICES ASSUME Init PROVE PartInv /\ OwnedInv
  OBVIOUS
<1> DEFINE c == Read(config)
           e == Recorded(receipt)
<1>1. /\ c.text = Plain /\ c.plugins = {} /\ e.plugins = {} /\ e \in Entries
      /\ e.keys = c.keys
      /\ \A k \in Key : e.keys[k] \in Version \cup {Nothing}
  <2>1. CASE config = Missing /\ receipt = None
    BY <2>1, BlankFacts DEF Read, Recorded, Blank, NoEntries
  <2>2. CASE \E v \in Version : /\ receipt = [NoEntries EXCEPT !.keys["mcp"] = v]
                                /\ config = [Blank EXCEPT !.keys["mcp"] = v]
    <3>1. receipt \in Entries /\ config \in Config
      BY <2>2, InstallerAssumption DEF NoEntries, Entries, Blank, Config, Key, Value
    <3>2. e = receipt /\ c = config
      BY <3>1, MarksAssumption DEF Recorded, Read
    <3>3. PICK v \in Version : /\ receipt = [NoEntries EXCEPT !.keys["mcp"] = v]
                                /\ config = [Blank EXCEPT !.keys["mcp"] = v]
      BY <2>2
    <3>4. /\ receipt.plugins = {} /\ receipt.keys = [k \in Key |-> IF k = "mcp" THEN v ELSE Nothing]
          /\ config.text = Plain /\ config.plugins = {}
          /\ config.keys = [k \in Key |-> IF k = "mcp" THEN v ELSE Nothing]
      BY <3>3 DEF NoEntries, Blank
    <3> QED
      BY <3>1, <3>2, <3>4
  <2> QED
    BY <2>1, <2>2 DEF Init
<1>2. Pure(e)
  BY <1>1 DEF Pure, Managed
<1>3. ours = e /\ mine = Blank /\ \A p \in Proc : job[p] = Refused
  BY DEF Init
<1>4. e = [keys |-> e.keys, plugins |-> e.plugins] /\ e.keys \in [Key -> Value \cup {Nothing}]
  BY <1>1 DEF Entries
<1> HIDE DEF c, e
<1>5. e = OurPart(c)
  BY <1>1, <1>4 DEF OurPart, Managed
<1>6. Blank = UserPart(c)
  BY <1>1 DEF UserPart, Blank, Managed
<1>7. JobOK(Refused)
  BY PureFacts DEF JobOK, Refused, Recorded, Planned
<1>8. Held(c, e)
  BY <1>1 DEF Held
<1>9. Refused.pc \notin Written
  BY DEF Refused, Written
<1> QED
  BY <1>2, <1>3, <1>5, <1>6, <1>7, <1>8, <1>9 DEF PartInv, OwnedInv, c, e

(* A step of one process that writes neither the config nor the receipt.   *)
LEMMA KeepParts ==
  ASSUME Inv, PartInv, OwnedInv, NEW p \in Proc, NEW j, job' = [job EXCEPT ![p] = j], JobOK(j),
         UNCHANGED <<config, receipt, mine, ours>>,
         ~failed' => /\ ~failed /\ (j.pc \in Written <=> job[p].pc \in Written)
                     /\ j.pc \in Written => j = [job[p] EXCEPT !.pc = j.pc]
  PROVE  PartInv' /\ OwnedInv'
<1>1. job'[p] = j /\ \A q \in Proc \ {p} : job'[q] = job[q]
  BY DEF Inv, TypeOK
<1>2. PartInv'
  BY <1>1 DEF PartInv
<1>3. ASSUME ~failed', j.pc \in Written
      PROVE  After(j) = After(job[p]) /\ j.receipt = job[p].receipt /\ j.original = job[p].original
  <2>1. job[p] \in Job
    BY DEF Inv, TypeOK
  <2> QED
    BY <1>3, <2>1 DEF Job, After
<1>4. OwnedInv'
  BY <1>1, <1>3 DEF OwnedInv
<1> QED
  BY <1>2, <1>4

LEMMA ToParts ==
  ASSUME Inv, PartInv, NEW p \in Proc, job[p].pc \in Planned, NEW pc \in Pc, To(p, pc)
  PROVE  /\ job' = [job EXCEPT ![p] = [job[p] EXCEPT !.pc = pc]]
         /\ JobOK([job[p] EXCEPT !.pc = pc])
         /\ [job[p] EXCEPT !.pc = pc].pc = pc
         /\ After([job[p] EXCEPT !.pc = pc]) = After(job[p])
         /\ [job[p] EXCEPT !.pc = pc].receipt = job[p].receipt
         /\ [job[p] EXCEPT !.pc = pc].original = job[p].original
<1> DEFINE j == [job[p] EXCEPT !.pc = pc]
<1>1. job[p] \in Job /\ JobOK(job[p]) /\ job' = [job EXCEPT ![p] = j]
  BY JobFacts DEF Inv, TypeOK, PartInv
<1>2. /\ j.pc = pc /\ j.receipt = job[p].receipt /\ j.entries = job[p].entries
      /\ j.next = job[p].next /\ j.original = job[p].original /\ j.op = job[p].op
  BY <1>1 DEF Job
<1> HIDE DEF j
<1>3. After(j) = After(job[p])
  BY <1>2 DEF After
<1>4. JobOK(j)
  BY <1>1, <1>2, <1>3 DEF JobOK
<1> QED
  BY <1>1, <1>2, <1>3, <1>4 DEF j

(* A transaction goes on with its files as they are.                       *)
LEMMA ToKeeps ==
  ASSUME Inv, PartInv, OwnedInv, NEW p \in Proc, job[p].pc \in Planned, NEW pc \in Pc, To(p, pc),
         UNCHANGED <<config, receipt, mine, ours>>,
         ~failed' => ~failed /\ (pc \in Written <=> job[p].pc \in Written)
  PROVE  PartInv' /\ OwnedInv'
<1> DEFINE j == [job[p] EXCEPT !.pc = pc]
<1>1. job' = [job EXCEPT ![p] = j] /\ JobOK(j) /\ j.pc = pc
  BY ToParts
<1>2. j = [job[p] EXCEPT !.pc = j.pc]
  BY <1>1
<1> HIDE DEF j
<1> QED
  BY <1>1, <1>2, KeepParts

LEMMA EndKeeps ==
  ASSUME Inv, PartInv, OwnedInv, NEW p \in Proc, End(p), UNCHANGED <<config, receipt, mine, ours>>,
         ~failed' => ~failed /\ job[p].pc \notin Written
  PROVE  PartInv' /\ OwnedInv'
<1> DEFINE j == Refused
<1>1. JobOK(j) /\ j.pc \notin Written
  BY PureFacts DEF JobOK, Refused, Recorded, Planned, Written
<1>2. job' = [job EXCEPT ![p] = j]
  BY DEF End
<1> HIDE DEF j
<1> QED
  BY <1>1, <1>2, KeepParts

LEMMA BeginKeeps ==
  ASSUME Inv, PartInv, OwnedInv, NEW p \in Proc, NEW op \in {"install", "uninstall"}, Begin(p, op)
  PROVE  PartInv' /\ OwnedInv'
<1> DEFINE j == [Refused EXCEPT !.pc = "read", !.op = op, !.receipt = receipt]
<1>1. j.pc = "read" /\ j.op = op /\ j.receipt = receipt /\ j.entries = NoEntries
  BY DEF Refused
<1>2. job' = [job EXCEPT ![p] = j] /\ job[p].pc = "idle" /\ (op = "uninstall" => receipt # None)
      /\ UNCHANGED <<config, receipt, mine, ours, failed>>
  BY DEF Begin
<1> HIDE DEF j
<1>3. JobOK(j)
  BY <1>1, <1>2, PureFacts DEF JobOK, PartInv, Planned
<1> QED
  BY <1>1, <1>2, <1>3, KeepParts DEF Written

LEMMA PlanInstallKeeps ==
  ASSUME Inv, Apart, PartInv, OwnedInv, NEW p \in Proc, PlanInstall(p)
  PROVE  PartInv' /\ OwnedInv'
<1>1. /\ UNCHANGED <<config, receipt, mine, ours, failed>>
      /\ job[p].pc = "read" /\ job[p].op = "install"
  BY DEF PlanInstall
<1> DEFINE c == Read(config)
           previous == Recorded(job[p].receipt)
           desired(enabled) == Desired(PackageOf[p], MakeDefault(enabled, c, previous))
<1>2. CASE End(p)
  BY <1>1, <1>2, EndKeeps DEF Written
<1>3. ASSUME NEW enabled \in BOOLEAN, Installable(c, job[p].receipt, desired(enabled)),
             job' = [job EXCEPT ![p].pc = "lock", ![p].original = config,
                                ![p].next = Connected(c, previous, desired(enabled)),
                                ![p].entries = desired(enabled)]
      PROVE  PartInv' /\ OwnedInv'
  <2> DEFINE d == desired(enabled)
             next == Connected(c, previous, d)
             j == [job[p] EXCEPT !.pc = "lock", !.original = config, !.next = next, !.entries = d]
  <2>1. job[p] \in Job /\ JobOK(job[p])
    BY DEF Inv, TypeOK, PartInv
  <2>2. c \in Config /\ job[p].receipt \in Entries \cup {None} /\ PackageOf[p] \in Version
        /\ Pure(previous)
    BY <2>1, ReadType, InstallerAssumption DEF Inv, TypeOK, Job, JobOK
  <2>3. Pure(d) /\ UserPart(next) = UserPart(c) /\ (Held(c, previous) => Held(next, d))
    BY <1>3, <2>2, ConnectedParts
  <2> HIDE DEF d, next
  <2>4. /\ j.pc = "lock" /\ j.original = config /\ j.next = next /\ j.entries = d
        /\ j.receipt = job[p].receipt /\ j.op = "install" /\ job' = [job EXCEPT ![p] = j]
    BY <1>1, <1>3, <2>1 DEF Job, d, next
  <2> HIDE DEF j
  <2>5. JobOK(j)
    BY <2>1, <2>3, <2>4 DEF JobOK, After
  <2> QED
    BY <1>1, <2>4, <2>5, KeepParts DEF Written
<1> QED
  BY <1>2, <1>3 DEF PlanInstall

LEMMA PlanUninstallKeeps ==
  ASSUME Inv, Apart, PartInv, OwnedInv, NEW p \in Proc, PlanUninstall(p)
  PROVE  PartInv' /\ OwnedInv'
<1>1. /\ UNCHANGED <<config, receipt, mine, ours, failed>>
      /\ job[p].pc = "read" /\ job[p].op = "uninstall"
  BY DEF PlanUninstall
<1>2. CASE End(p)
  BY <1>1, <1>2, EndKeeps DEF Written
<1>3. CASE /\ config # Missing /\ Matches(config, job[p].receipt)
           /\ job' = [job EXCEPT ![p].pc = "lock", ![p].original = config,
                                 ![p].next = Disconnected(config, job[p].receipt)]
  <2> DEFINE next == Disconnected(config, job[p].receipt)
             j == [job[p] EXCEPT !.pc = "lock", !.original = config, !.next = next]
  <2>1. job[p] \in Job /\ JobOK(job[p]) /\ config \in Config
    BY <1>3 DEF Inv, TypeOK, PartInv
  <2>2. job[p].receipt \in Entries /\ Recorded(job[p].receipt) = job[p].receipt
        /\ Pure(job[p].receipt) /\ Read(config) = config
    BY <1>1, <1>3, <2>1 DEF JobOK, Job, Recorded, Read
  <2>3. /\ UserPart(next) = UserPart(config)
        /\ Held(config, job[p].receipt) => Held(next, NoEntries)
    BY <1>3, <2>1, <2>2, DisconnectedParts
  <2> HIDE DEF next
  <2>4. /\ j.pc = "lock" /\ j.original = config /\ j.next = next /\ j.entries = job[p].entries
        /\ j.receipt = job[p].receipt /\ j.op = "uninstall" /\ job' = [job EXCEPT ![p] = j]
    BY <1>1, <1>3, <2>1 DEF Job, next
  <2> HIDE DEF j
  <2>5. JobOK(j)
    BY <1>1, <2>1, <2>2, <2>3, <2>4 DEF JobOK, After
  <2> QED
    BY <1>1, <2>4, <2>5, KeepParts DEF Written
<1> QED
  BY <1>1, <1>2, <1>3 DEF PlanUninstall

(* Only one transaction is past its write.                                 *)
LEMMA OneWrites ==
  ASSUME Inv, NEW p \in Proc, Locked(p), NEW q \in Proc, job[q].pc \in Written PROVE q = p
BY DEF Inv, TypeOK, Locked, Written

LEMMA RenameKeeps ==
  ASSUME Inv, Apart, PartInv, OwnedInv, NEW p \in Proc, Rename(p)
  PROVE  PartInv' /\ OwnedInv'
<1>1. /\ job[p].pc = "rename" /\ Write(job[p].next) /\ To(p, "receipt")
      /\ failed' = (failed \/ receipt # job[p].receipt) /\ UNCHANGED <<receipt, mine>>
  BY DEF Rename
<1>2. job[p].next \in Config /\ config = job[p].original /\ JobOK(job[p]) /\ Locked(p)
  BY <1>1 DEF Inv, TypeOK, Job, SnapshotInv, PartInv, Locked
<1>3. Read(job[p].next) = job[p].next /\ config' = job[p].next
  BY <1>1, <1>2, PureFacts DEF Write
<1>4. UserPart(job[p].next) = UserPart(Read(config))
  BY <1>1, <1>2 DEF JobOK, Planned
<1>5. ours' = OurPart(Read(config')) /\ mine' = UserPart(Read(config'))
  BY <1>1, <1>2, <1>3, <1>4, WriteParts
<1> DEFINE j == [job[p] EXCEPT !.pc = "receipt"]
<1>6. /\ job' = [job EXCEPT ![p] = j] /\ JobOK(j) /\ After(j) = After(job[p])
      /\ j.receipt = job[p].receipt /\ j.original = job[p].original /\ j.pc = "receipt"
  BY <1>1, ToParts DEF Planned, Pc
<1> HIDE DEF j
<1>7. job'[p] = j /\ \A q \in Proc \ {p} : job'[q] = job[q] /\ job[q].pc \notin Written
  BY <1>2, <1>6, OneWrites DEF Inv, TypeOK
<1>8. PartInv'
  BY <1>1, <1>5, <1>6, <1>7 DEF PartInv
<1>9. ASSUME ~failed' PROVE Held(job[p].next, After(j)) /\ Held(Read(job[p].original), Recorded(receipt))
                            /\ receipt = job[p].receipt
  <2>1. ~failed /\ receipt = job[p].receipt
    BY <1>1, <1>9
  <2>2. Held(Read(config), Recorded(receipt))
    BY <1>1, <1>7, <2>1 DEF OwnedInv, Written
  <2> QED
    BY <1>1, <1>2, <1>6, <2>1, <2>2 DEF JobOK, Planned
<1>10. OwnedInv'
  BY <1>1, <1>3, <1>6, <1>7, <1>9 DEF OwnedInv, Written
<1> QED
  BY <1>8, <1>10

LEMMA RestoreKeeps ==
  ASSUME Inv, Apart, PartInv, OwnedInv, NEW p \in Proc, Restore(p)
  PROVE  PartInv' /\ OwnedInv'
<1>1. /\ job[p].pc = "restore" /\ Write(job[p].original) /\ To(p, "release")
      /\ UNCHANGED <<receipt, mine, failed>>
  BY DEF Restore
<1>2. /\ job[p].original \in Config \cup {Missing} /\ config = job[p].next
      /\ JobOK(job[p]) /\ Locked(p) /\ job[p].next \in Config
  BY <1>1 DEF Inv, TypeOK, Job, SnapshotInv, PartInv, Locked
<1>3. Read(config) = job[p].next /\ config' = job[p].original
  BY <1>1, <1>2, PureFacts DEF Write
<1>4. UserPart(Read(job[p].original)) = UserPart(Read(config))
  BY <1>1, <1>2, <1>3 DEF JobOK, Planned
<1>5. ours' = OurPart(Read(config')) /\ mine' = UserPart(Read(config'))
  BY <1>1, <1>2, <1>4, WriteParts
<1> DEFINE j == [job[p] EXCEPT !.pc = "release"]
<1>6. job' = [job EXCEPT ![p] = j] /\ JobOK(j) /\ j.pc = "release"
  BY <1>1, ToParts DEF Planned, Pc
<1> HIDE DEF j
<1>7. job'[p] = j /\ \A q \in Proc \ {p} : job'[q] = job[q] /\ job[q].pc \notin Written
  BY <1>2, <1>6, OneWrites DEF Inv, TypeOK
<1>8. PartInv'
  BY <1>1, <1>5, <1>6, <1>7 DEF PartInv
<1>9. OwnedInv'
  BY <1>1, <1>3, <1>6, <1>7 DEF OwnedInv, Written
<1> QED
  BY <1>8, <1>9

LEMMA CommitReceiptKeeps ==
  ASSUME Inv, PartInv, OwnedInv, NEW p \in Proc, CommitReceipt(p)
  PROVE  PartInv' /\ OwnedInv'
<1>1. job[p].pc = "receipt" /\ UNCHANGED <<config, mine, ours, failed>>
  BY DEF CommitReceipt
<1>2. CASE receipt' = receipt /\ To(p, "undo")
  BY <1>1, <1>2, ToKeeps DEF Planned, Written, Pc
<1>3. CASE receipt' = (IF job[p].op = "install" THEN job[p].entries ELSE None) /\ To(p, "release")
  <2> DEFINE j == [job[p] EXCEPT !.pc = "release"]
  <2>1. job' = [job EXCEPT ![p] = j] /\ JobOK(j) /\ j.pc = "release"
    BY <1>1, <1>3, ToParts DEF Planned, Pc
  <2> HIDE DEF j
  <2>2. Locked(p) /\ JobOK(job[p]) /\ job[p].entries \in Entries
    BY <1>1 DEF Locked, PartInv, Inv, TypeOK, Job
  <2>3. job'[p] = j /\ \A q \in Proc \ {p} : job'[q] = job[q] /\ job[q].pc \notin Written
    BY <2>1, <2>2, OneWrites DEF Inv, TypeOK
  <2>4. Recorded(receipt') = After(job[p]) /\ Pure(After(job[p]))
    BY <1>3, <2>2, PureFacts, MarksAssumption DEF Recorded, After, JobOK
  <2>5. PartInv'
    BY <1>1, <2>1, <2>3, <2>4 DEF PartInv
  <2>6. OwnedInv'
    BY <1>1, <2>1, <2>3, <2>4 DEF OwnedInv, Written
  <2> QED
    BY <2>5, <2>6
<1> QED
  BY <1>2, <1>3 DEF CommitReceipt

LEMMA EditKeeps == ASSUME Inv, Apart, PartInv, OwnedInv, ~MayRace, Edit PROVE PartInv' /\ OwnedInv'
<1> DEFINE c == Read(config)
<1>1. c \in Config /\ ours = OurPart(c) /\ mine = UserPart(c)
  BY ReadType DEF Inv, TypeOK, PartInv
<1>2. UNCHANGED <<receipt, job, failed>>
  BY DEF Edit
<1>3. config' \in Config
  BY EditType
<1>4. Read(config') = config'
  BY <1>3, PureFacts
<1>5. /\ ours' = [keys    |-> [k \in Key |-> IF config'.keys[k] = c.keys[k] THEN ours.keys[k]
                                             ELSE Nothing],
                  plugins |-> ours.plugins \cap config'.plugins]
      /\ mine' = [text    |-> config'.text,
                  keys    |-> [k \in Key |-> IF config'.keys[k] = c.keys[k] THEN mine.keys[k]
                                             ELSE config'.keys[k]],
                  plugins |-> (mine.plugins \cap config'.plugins)
                                \cup (config'.plugins \ c.plugins)]
  BY DEF Edit
<1>6. /\ \A k \in Key : config'.keys[k] = c.keys[k] \/ config'.keys[k] \in {Own, Nothing}
      /\ config'.plugins \cap Version \subseteq c.plugins
  <2> HIDE DEF c
  <2>0. c.keys \in [Key -> Value \cup {Nothing}]
    BY <1>1 DEF Config
  <2>1. CASE \E t \in Text : config' = [c EXCEPT !.text = t]
    BY <1>1, <2>1 DEF Config
  <2>2. CASE \E k \in Key, v \in {Own, Nothing} : config' = [c EXCEPT !.keys[k] = v]
    BY <1>1, <2>0, <2>2 DEF Config
  <2>3. CASE \E q : config' = [c EXCEPT !.plugins = @ \ {q}]
    BY <1>1, <2>3 DEF Config
  <2>4. CASE \E q \in Other : config' = [c EXCEPT !.plugins = @ \cup {q}]
    BY <1>1, <2>4 DEF Config, Apart
  <2> QED
    BY <2>1, <2>2, <2>3, <2>4 DEF Edit, c
<1> HIDE DEF c
<1>7. Own \notin Managed /\ Nothing \notin Managed
  BY DEF Apart, Managed, Value
<1>8. /\ \A k \in Key : ours.keys[k] = IF c.keys[k] \in Managed THEN c.keys[k] ELSE Nothing
      /\ \A k \in Key : mine.keys[k] = IF c.keys[k] \in Managed THEN Nothing ELSE c.keys[k]
      /\ ours.plugins = c.plugins \cap Version /\ mine.plugins = c.plugins \ Version
  BY <1>1 DEF OurPart, UserPart
<1>9. ours' = OurPart(config')
  <2>1. \A k \in Key : (IF config'.keys[k] = c.keys[k] THEN ours.keys[k] ELSE Nothing)
                         = (IF config'.keys[k] \in Managed THEN config'.keys[k] ELSE Nothing)
    BY <1>6, <1>7, <1>8
  <2>2. ours.plugins \cap config'.plugins = config'.plugins \cap Version
    BY <1>6, <1>8
  <2> QED
    BY <1>5, <2>1, <2>2 DEF OurPart
<1>10. mine' = UserPart(config')
  <2>1. \A k \in Key : (IF config'.keys[k] = c.keys[k] THEN mine.keys[k] ELSE config'.keys[k])
                         = (IF config'.keys[k] \in Managed THEN Nothing ELSE config'.keys[k])
    BY <1>6, <1>7, <1>8
  <2>2. (mine.plugins \cap config'.plugins) \cup (config'.plugins \ c.plugins)
          = config'.plugins \ Version
    BY <1>6, <1>8
  <2> QED
    BY <1>5, <2>1, <2>2 DEF UserPart
<1>11. PartInv'
  BY <1>2, <1>4, <1>9, <1>10 DEF PartInv
<1>12. \A e : Held(c, e) => Held(config', e)
  BY <1>6, <1>7 DEF Held
<1>13. OwnedInv'
  BY <1>2, <1>4, <1>12 DEF OwnedInv, c
<1> QED
  BY <1>11, <1>13

LEMMA PartStep == Inv /\ Apart /\ PartInv /\ OwnedInv /\ ~MayRace /\ [Next]_vars => PartInv' /\ OwnedInv'
<1> SUFFICES ASSUME Inv, Apart, PartInv, OwnedInv, ~MayRace, [Next]_vars PROVE PartInv' /\ OwnedInv'
  OBVIOUS
<1>1. CASE UNCHANGED vars
  BY <1>1 DEF vars, PartInv, OwnedInv
<1>2. ASSUME NEW p \in Proc, VerifyFails(p) \/ Busy(p) \/ Release(p) PROVE PartInv' /\ OwnedInv'
  BY <1>2, EndKeeps DEF VerifyFails, Busy, Release, Written
<1>3. ASSUME NEW p \in Proc, Lock(p) \/ Guard(p) \/ Backup(p) \/ Check(p) PROVE PartInv' /\ OwnedInv'
  <2>1. PICK pc \in {"guard", "backup", "check", "rename", "release"} : To(p, pc)
    BY <1>3 DEF Lock, Guard, Backup, Check
  <2>2. /\ job[p].pc \in {"lock", "guard", "backup", "check"}
        /\ UNCHANGED <<config, receipt, mine, ours, failed>>
    BY <1>3 DEF Lock, Guard, Backup, Check
  <2> QED
    BY <2>1, <2>2, ToKeeps DEF Planned, Written, Pc
<1>4. ASSUME NEW p \in Proc, Undo(p) PROVE PartInv' /\ OwnedInv'
  <2>1. job[p].pc = "undo" /\ UNCHANGED <<config, receipt, mine, ours>>
    BY <1>4 DEF Undo
  <2>2. CASE To(p, "restore") /\ UNCHANGED failed
    BY <2>1, <2>2, ToKeeps DEF Planned, Written, Pc
  <2>3. CASE To(p, "release") /\ failed' = TRUE
    BY <2>1, <2>3, ToKeeps DEF Planned, Written, Pc
  <2> QED
    BY <1>4, <2>2, <2>3 DEF Undo
<1>5. ASSUME NEW p \in Proc, Crash(p) PROVE PartInv' /\ OwnedInv'
  BY <1>5, EndKeeps DEF Crash, Locked, Written
<1>6. CASE RemoveLock
  BY <1>6 DEF RemoveLock, PartInv, OwnedInv
<1>7. ASSUME NEW p \in Proc, Step(p) PROVE PartInv' /\ OwnedInv'
  BY <1>2, <1>3, <1>4, <1>7, BeginKeeps, PlanInstallKeeps, PlanUninstallKeeps, RenameKeeps,
     CommitReceiptKeeps, RestoreKeeps DEF Step
<1> QED
  BY <1>1, <1>5, <1>6, <1>7, EditKeeps DEF Next

(* For any processes, packages, edits, crashes and failures: without our   *)
(* entries the config is what the user alone has made of it, as long as    *)
(* the user writes nothing that a package writes (planUpdate, uninstall).  *)
THEOREM UserPartSurvives == ASSUME ~MayRace, Apart PROVE Spec => []UserEditsSurvive
<1>1. Inv /\ PartInv => UserEditsSurvive
  <2> SUFFICES ASSUME Inv, PartInv PROVE UserEditsSurvive
    OBVIOUS
  <2> DEFINE c == Read(config)
  <2>1. ours = OurPart(c) /\ mine = UserPart(c)
    BY DEF PartInv
  <2> HIDE DEF c
  <2>2. \A k \in Key : ours.keys[k] # Nothing <=> c.keys[k] \in Managed
    BY <2>1 DEF OurPart, Apart, Managed, Value
  <2>3. c.plugins \ ours.plugins = c.plugins \ Version
    BY <2>1 DEF OurPart
  <2>4. Without(c, ours) = UserPart(c)
    BY <2>2, <2>3 DEF Without, UserPart
  <2> QED
    BY <2>1, <2>4 DEF UserEditsSurvive, c
<1>2. Inv /\ PartInv /\ OwnedInv /\ [Next]_vars => (Inv /\ PartInv /\ OwnedInv)'
  BY InvStep, PartStep
<1> QED
  BY <1>1, <1>2, InvInit, PartInit, PTL DEF Spec

(* And unless something failed or was planned with a receipt that was then *)
(* replaced, the receipt names all that is ours between transactions, so   *)
(* that Disconnect finds it (writeReceipt).                                *)
THEOREM ReceiptNamesOurs == ASSUME ~MayRace, Apart PROVE Spec => []OwnershipIsRecorded
<1>1. Inv /\ PartInv /\ OwnedInv => OwnershipIsRecorded
  <2> SUFFICES ASSUME Inv, PartInv, OwnedInv, ~failed, lock = Free
               PROVE  /\ \A k \in Key : ours.keys[k] \in {Nothing, Recorded(receipt).keys[k]}
                      /\ ours.plugins \subseteq Recorded(receipt).plugins
    BY DEF OwnershipIsRecorded
  <2>1. \A p \in Proc : job[p].pc \notin Written
    BY InstallerAssumption DEF Inv, TypeOK, Locked, Written
  <2>2. Held(Read(config), Recorded(receipt)) /\ ours = OurPart(Read(config))
    BY <2>1 DEF OwnedInv, PartInv
  <2> QED
    BY <2>2 DEF Held, OurPart
<1>2. Inv /\ PartInv /\ OwnedInv /\ [Next]_vars => (Inv /\ PartInv /\ OwnedInv)'
  BY InvStep, PartStep
<1> QED
  BY <1>1, <1>2, InvInit, PartInit, PTL DEF Spec
===============================================================================
