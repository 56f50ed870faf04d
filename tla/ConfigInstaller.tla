--------------------------- MODULE ConfigInstaller ---------------------------
(***************************************************************************)
(* The connector: Connect (install), Update (install once more) and        *)
(* Disconnect (uninstall) of the entries that Model Control owns in        *)
(* OpenCode's config, by the panel and the command line, beside a user who *)
(* edits the same file.                                                    *)
(*                                                                         *)
(* The config is abstracted to the owned keys, the plugin array and the    *)
(* rest of its text; equal contents have equal digests.  A transaction     *)
(* reads the receipt, reads the config and plans, verifies the plan, and   *)
(* only then takes the lock, a file that nobody recovers.  A file is       *)
(* replaced by one rename.                                                 *)
(***************************************************************************)
EXTENDS Naturals, FiniteSets

CONSTANTS
  Proc,         (* the panel's process and the command line's              *)
  Version,      (* installed packages; each has its command and its plugin *)
  PackageOf,    (* the package that a process runs from                    *)
  Text,         (* all that is neither an owned key nor a plugin           *)
  Plain,        (* the member of Text that is an empty file, or none       *)
  Other,        (* the plugins that the user may have besides              *)
  Own,          (* the user's value of an owned key                        *)
  Stock,        (* the value of a key that is the same in all versions     *)
  Nothing,      (* the key is not there                                    *)
  Missing,      (* there is no config file                                 *)
  None,         (* there is no receipt                                     *)
  Free,         (* there is no lock file                                   *)
  MaxBegun,     (* bound on the transactions begun                         *)
  MaxEdits,     (* bound on the user's edits                               *)
  MayRace,      (* the user may save between the last check and the rename *)
  MayCrash,     (* a process may die in a transaction                      *)
  MayFail       (* a write may fail                                        *)

ASSUME InstallerAssumption ==
  /\ PackageOf \in [Proc -> Version] /\ Plain \in Text
  /\ Free \notin Proc
  /\ MaxBegun \in Nat /\ MaxEdits \in Nat

VARIABLES
  config,   (* OpenCode's config file                                      *)
  receipt,  (* opencode-integration.json: the entries that are ours        *)
  backups,  (* the contents of the .omc-backup files                       *)
  lock,     (* who made the lock file                                      *)
  job,      (* the transaction of each process                             *)
  mine,     (* history: the config as the user alone made it               *)
  ours,     (* history: the entries that are in the config because of us   *)
  failed,   (* history: a crash under the lock, a rollback that failed, or *)
            (* a plan made with a receipt that was replaced meanwhile      *)
  begun, edits

vars == <<config, receipt, backups, lock, job, mine, ours, failed, begun, edits>>

-----------------------------------------------------------------------------
(* Configs and entries.                                                    *)

(* mcp.model-control and tools; the agents; the default agent.             *)
Key == {"mcp", "agent", "default_agent"}
Value == Version \cup {Own, Stock}
Plugin == Version \cup Other

Entries == [keys : [Key -> Value \cup {Nothing}], plugins : SUBSET Plugin]
Config == [text : Text, keys : [Key -> Value \cup {Nothing}], plugins : SUBSET Plugin]

ASSUME MarksAssumption == Missing \notin Config /\ None \notin Entries

NoEntries == [keys |-> [k \in Key |-> Nothing], plugins |-> {}]
Blank == [text |-> Plain, keys |-> [k \in Key |-> Nothing], plugins |-> {}]

Read(c) == IF c = Missing THEN Blank ELSE c
Recorded(r) == IF r = None THEN NoEntries ELSE r

(* The command and the plugin have their version's path, the rest is the   *)
(* same in all versions.                                                   *)
Desired(version, makeDefault) ==
  [keys    |-> [k \in Key |-> CASE k = "mcp"   -> version
                                [] k = "agent" -> Stock
                                [] OTHER       -> IF makeDefault THEN Stock ELSE Nothing],
   plugins |-> {version}]

(* Enabled in the settings, and ours already or nobody's.                  *)
MakeDefault(enabled, c, previous) ==
  /\ enabled
  /\ previous.keys["default_agent"] # Nothing \/ c.keys["default_agent"] = Nothing

Matches(c, e) ==
  /\ \A k \in Key : e.keys[k] \in {Nothing, c.keys[k]}
  /\ e.plugins \subseteq c.plugins

Unexpected(c, e) ==
  \E k \in {"mcp", "agent"} : e.keys[k] = Nothing /\ c.keys[k] # Nothing

(* An array that the receipt names is not looked into.                     *)
NewCollision(c, previous, desired) ==
  \/ \E k \in Key : Nothing \notin {desired.keys[k], c.keys[k]} /\ previous.keys[k] = Nothing
  \/ previous.plugins = {} /\ desired.plugins \cap c.plugins # {}

OwnedCollision(c, desired) ==
  Unexpected(c, NoEntries) \/ desired.plugins \cap c.plugins # {}

RequiresUpdate(e, version) == e.keys["mcp"] # version \/ e.plugins # {version}

Connected(c, previous, desired) ==
  [text    |-> c.text,
   keys    |-> [k \in Key |-> IF desired.keys[k] # Nothing THEN desired.keys[k]
                              ELSE IF previous.keys[k] # Nothing THEN Nothing
                              ELSE c.keys[k]],
   plugins |-> (c.plugins \ previous.plugins) \cup desired.plugins]

Disconnected(c, e) ==
  [text    |-> c.text,
   keys    |-> [k \in Key |-> IF e.keys[k] # Nothing THEN Nothing ELSE c.keys[k]],
   plugins |-> c.plugins \ e.plugins]

-----------------------------------------------------------------------------
(* The state.                                                              *)

Refused == [pc |-> "idle", op |-> "install", receipt |-> None, original |-> Missing,
            next |-> Blank, entries |-> NoEntries]

Job == [pc : {"idle", "read", "lock", "guard", "backup", "check", "rename", "receipt",
              "undo", "restore", "release"},
        op : {"install", "uninstall"}, receipt : Entries \cup {None},
        original : Config \cup {Missing}, next : Config, entries : Entries]

Locked(p) == job[p].pc \notin {"idle", "read", "lock"}

TypeOK ==
  /\ config \in Config \cup {Missing} /\ receipt \in Entries \cup {None}
  /\ backups \subseteq Config
  /\ lock \in Proc \cup {Free} /\ \A p \in Proc : Locked(p) => lock = p
  /\ job \in [Proc -> Job]
  /\ mine \in Config /\ ours \in Entries
  /\ failed \in BOOLEAN /\ begun \in 0..MaxBegun /\ edits \in 0..MaxEdits

(* Nothing is installed, or a version that managed the mcp entry only.     *)
Init ==
  /\ \/ config = Missing /\ receipt = None
     \/ \E v \in Version :
          /\ receipt = [NoEntries EXCEPT !.keys["mcp"] = v]
          /\ config = [Blank EXCEPT !.keys["mcp"] = v]
  /\ backups = {}
  /\ lock = Free
  /\ job = [p \in Proc |-> Refused]
  /\ mine = Blank
  /\ ours = Recorded(receipt)
  /\ failed = FALSE
  /\ begun = 0 /\ edits = 0

-----------------------------------------------------------------------------
(* A transaction.                                                          *)

To(p, pc) == job' = [job EXCEPT ![p].pc = pc]
End(p) == job' = [job EXCEPT ![p] = Refused]

(* The receipt is read first, and not again.                               *)
Begin(p, op) ==
  /\ job[p].pc = "idle" /\ begun < MaxBegun
  /\ op = "uninstall" => receipt # None
  /\ begun' = begun + 1
  /\ job' = [job EXCEPT ![p] = [Refused EXCEPT !.pc = "read", !.op = op, !.receipt = receipt]]
  /\ UNCHANGED <<config, receipt, backups, lock, mine, ours, failed, edits>>

Installable(c, previous, desired) ==
  IF previous = None THEN ~OwnedCollision(c, desired)
  ELSE /\ Matches(c, previous)
       /\ ~Unexpected(c, previous)
       /\ ~NewCollision(c, previous, desired)

(* The config is read and the plan made from it: it is refused, finds      *)
(* nothing to do, or goes on.                                              *)
PlanInstall(p) ==
  /\ job[p].pc = "read" /\ job[p].op = "install"
  /\ \E enabled \in BOOLEAN :
     LET j == job[p]
         c == Read(config)
         previous == Recorded(j.receipt)
         desired == Desired(PackageOf[p], MakeDefault(enabled, c, previous))
         next == Connected(c, previous, desired)
         unchanged == /\ next = c /\ j.receipt # None
                      /\ ~RequiresUpdate(previous, PackageOf[p])
     IN IF Installable(c, j.receipt, desired) /\ ~unchanged
        THEN job' = [job EXCEPT ![p].pc = "lock", ![p].original = config,
                                ![p].next = next, ![p].entries = desired]
        ELSE End(p)
  /\ UNCHANGED <<config, receipt, backups, lock, mine, ours, failed, begun, edits>>

PlanUninstall(p) ==
  /\ job[p].pc = "read" /\ job[p].op = "uninstall"
  /\ IF config # Missing /\ Matches(config, job[p].receipt) /\ ~Unexpected(config, job[p].receipt)
     THEN job' = [job EXCEPT ![p].pc = "lock", ![p].original = config,
                             ![p].next = Disconnected(config, job[p].receipt)]
     ELSE End(p)
  /\ UNCHANGED <<config, receipt, backups, lock, mine, ours, failed, begun, edits>>

(* OpenCode does not accept the plan, or the MCP command does not answer.  *)
VerifyFails(p) ==
  /\ job[p].pc = "lock" /\ job[p].op = "install"
  /\ End(p)
  /\ UNCHANGED <<config, receipt, backups, lock, mine, ours, failed, begun, edits>>

(* Mutant: the lock file is opened whether or not it is there.             *)
LockAnyway(p) ==
  /\ job[p].pc = "lock"
  /\ lock' = p
  /\ To(p, "guard")
  /\ UNCHANGED <<config, receipt, backups, mine, ours, failed, begun, edits>>

Lock(p) ==
  /\ job[p].pc = "lock" /\ lock = Free
  /\ lock' = p
  /\ To(p, "guard")
  /\ UNCHANGED <<config, receipt, backups, mine, ours, failed, begun, edits>>

(* OPENCODE_CONFIG_BUSY.                                                   *)
Busy(p) ==
  /\ job[p].pc = "lock" /\ lock # Free
  /\ End(p)
  /\ UNCHANGED <<config, receipt, backups, lock, mine, ours, failed, begun, edits>>

(* assertConfigSnapshotUnchanged: OPENCODE_CONFIG_CHANGED, or go on.       *)
Unchanged(p) == config = job[p].original

Guard(p) ==
  /\ job[p].pc = "guard"
  /\ To(p, IF Unchanged(p) THEN "backup" ELSE "release")
  /\ UNCHANGED <<config, receipt, backups, lock, mine, ours, failed, begun, edits>>

(* Mutant: only an install makes a backup.                                 *)
BackupOfInstall(p) ==
  /\ job[p].pc = "backup"
  /\ backups' = IF job[p].op = "install" THEN backups \cup ({job[p].original} \ {Missing})
                ELSE backups
  /\ To(p, "check")
  /\ UNCHANGED <<config, receipt, lock, mine, ours, failed, begun, edits>>

Backup(p) ==
  /\ job[p].pc = "backup"
  /\ \/ /\ backups' = backups \cup ({job[p].original} \ {Missing})
        /\ To(p, "check")
     \/ MayFail /\ UNCHANGED backups /\ To(p, "release")
  /\ UNCHANGED <<config, receipt, lock, mine, ours, failed, begun, edits>>

(* Mutant: the config is not compared once more after the backup.          *)
CheckNothing(p) ==
  /\ job[p].pc = "check"
  /\ To(p, "rename")
  /\ UNCHANGED <<config, receipt, backups, lock, mine, ours, failed, begun, edits>>

(* atomicWrite compares once more, with the new file ready.                *)
Check(p) ==
  /\ job[p].pc = "check"
  /\ \/ To(p, IF Unchanged(p) THEN "rename" ELSE "release")
     \/ MayFail /\ To(p, "release")
  /\ UNCHANGED <<config, receipt, backups, lock, mine, ours, failed, begun, edits>>

(* What a write of ours puts into the config is ours from then on.         *)
Write(new) ==
  LET old == Read(config)
      now == Read(new)
  IN /\ config' = new
     /\ ours' = [keys    |-> [k \in Key |-> IF now.keys[k] = old.keys[k] THEN ours.keys[k]
                                            ELSE now.keys[k]],
                 plugins |-> (ours.plugins \cap now.plugins) \cup (now.plugins \ old.plugins)]

Rename(p) ==
  /\ job[p].pc = "rename"
  /\ Write(job[p].next)
  /\ To(p, "receipt")
  /\ failed' = (failed \/ receipt # job[p].receipt)
  /\ UNCHANGED <<receipt, backups, lock, mine, begun, edits>>

(* Mutant: nothing is undone when the receipt cannot be saved or removed.  *)
CommitReceiptAnyway(p) ==
  /\ job[p].pc = "receipt"
  /\ \/ receipt' = IF job[p].op = "install" THEN job[p].entries ELSE None
     \/ MayFail /\ UNCHANGED receipt
  /\ To(p, "release")
  /\ UNCHANGED <<config, backups, lock, mine, ours, failed, begun, edits>>

(* The receipt is written, or for an uninstall removed.                    *)
CommitReceipt(p) ==
  /\ job[p].pc = "receipt"
  /\ \/ /\ job[p].op = "uninstall" => receipt # None
        /\ receipt' = IF job[p].op = "install" THEN job[p].entries ELSE None
        /\ To(p, "release")
     \/ /\ MayFail \/ (job[p].op = "uninstall" /\ receipt = None)
        /\ UNCHANGED receipt
        /\ To(p, "undo")
  /\ UNCHANGED <<config, backups, lock, mine, ours, failed, begun, edits>>

(* The rollback: the config must still be what was written, or the user is *)
(* told that the rollback failed.                                          *)
Undo(p) ==
  /\ job[p].pc = "undo"
  /\ \/ config = job[p].next /\ To(p, "restore") /\ UNCHANGED failed
     \/ (config # job[p].next \/ MayFail) /\ To(p, "release") /\ failed' = TRUE
  /\ UNCHANGED <<config, receipt, backups, lock, mine, ours, begun, edits>>

Restore(p) ==
  /\ job[p].pc = "restore"
  /\ Write(job[p].original)
  /\ To(p, "release")
  /\ UNCHANGED <<receipt, backups, lock, mine, failed, begun, edits>>

Release(p) ==
  /\ job[p].pc = "release"
  /\ lock' = Free
  /\ End(p)
  /\ UNCHANGED <<config, receipt, backups, mine, ours, failed, begun, edits>>

-----------------------------------------------------------------------------
(* The environment.                                                        *)

(* The user, or OpenCode, saves a change to one thing in the config; with  *)
(* MayRace also in the one moment that atomicWrite cannot notice.          *)
Edit ==
  /\ edits < MaxEdits /\ edits' = edits + 1
  /\ MayRace \/ \A p \in Proc : job[p].pc \notin {"rename", "restore"}
  /\ LET c == Read(config) IN
     /\ \/ \E t \in Text \ {c.text} : config' = [c EXCEPT !.text = t]
        \/ \E k \in Key, v \in {Own, Nothing} :
             v # c.keys[k] /\ config' = [c EXCEPT !.keys[k] = v]
        \/ \E q \in c.plugins : config' = [c EXCEPT !.plugins = @ \ {q}]
        \/ \E q \in Other \ c.plugins : config' = [c EXCEPT !.plugins = @ \cup {q}]
     /\ ours' = [keys    |-> [k \in Key |-> IF config'.keys[k] = c.keys[k] THEN ours.keys[k]
                                            ELSE Nothing],
                 plugins |-> ours.plugins \cap config'.plugins]
     /\ mine' = [text    |-> config'.text,
                 keys    |-> [k \in Key |-> IF config'.keys[k] = c.keys[k] THEN mine.keys[k]
                                            ELSE config'.keys[k]],
                 plugins |-> (mine.plugins \cap config'.plugins) \cup (config'.plugins \ c.plugins)]
  /\ UNCHANGED <<receipt, backups, lock, job, failed, begun>>

Crash(p) ==
  /\ MayCrash /\ job[p].pc # "idle"
  /\ End(p)
  /\ failed' = (failed \/ Locked(p))
  /\ UNCHANGED <<config, receipt, backups, lock, mine, ours, begun, edits>>

(* Nothing but the user removes a lock file that a dead process left.      *)
RemoveLock ==
  /\ lock # Free /\ ~Locked(lock)
  /\ lock' = Free
  /\ UNCHANGED <<config, receipt, backups, job, mine, ours, failed, begun, edits>>

-----------------------------------------------------------------------------

Step(p) ==
  \/ \E op \in {"install", "uninstall"} : Begin(p, op)
  \/ PlanInstall(p) \/ PlanUninstall(p) \/ VerifyFails(p)
  \/ Lock(p) \/ Busy(p) \/ Guard(p) \/ Backup(p) \/ Check(p) \/ Rename(p)
  \/ CommitReceipt(p) \/ Undo(p) \/ Restore(p) \/ Release(p)

Next == (\E p \in Proc : Step(p) \/ Crash(p)) \/ Edit \/ RemoveLock

Spec == Init /\ [][Next]_vars

-----------------------------------------------------------------------------
(* Properties.                                                             *)

Without(c, e) ==
  [text    |-> c.text,
   keys    |-> [k \in Key |-> IF e.keys[k] # Nothing THEN Nothing ELSE c.keys[k]],
   plugins |-> c.plugins \ e.plugins]

(* Whatever is connected, disconnected, refused or undone, by whomever, and*)
(* wherever it fails: without our entries, the config is at any moment what*)
(* the user alone has made of it ("preserves unrelated OpenCode            *)
(* configuration").  With MayRace it is not: what the user saves between   *)
(* atomicWrite's comparison and its rename is overwritten.                 *)
UserEditsSurvive == Without(Read(config), ours) = mine

(* Between transactions the receipt names every entry that is in the       *)
(* config because of us, so that Disconnect can find it.  Others are left  *)
(* only by a crash, by a rollback that was reported as failed, and by a    *)
(* plan made with a receipt that another process replaced before the       *)
(* config was read: nothing compares the receipt again under the lock.     *)
OwnershipIsRecorded ==
  ~failed /\ lock = Free =>
    /\ \A k \in Key : ours.keys[k] \in {Nothing, Recorded(receipt).keys[k]}
    /\ ours.plugins \subseteq Recorded(receipt).plugins

(* What a transaction replaces was saved to a backup before, but for what  *)
(* it has itself written.                                                  *)
ReplacedIsBackedUp ==
  [][\A p \in Proc : config' # config /\ job[p].pc \in {"rename", "restore"} /\ job'[p] # job[p] =>
       config \in backups \cup {Missing, job[p].next}]_vars
=============================================================================
