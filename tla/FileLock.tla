------------------------------ MODULE FileLock ------------------------------
(***************************************************************************)
(* The cross-process file lock of src/server/state-lock.js.                *)
(*                                                                         *)
(* The lock is a directory.  Making it is the exclusive step; a record     *)
(* owner.json published inside it by link(2) says who holds it.  A caller  *)
(* that finds the directory already there raises a recovery fence (a       *)
(* directory with a unique name beside the lock), decides whether the      *)
(* lock was left behind by a process that died, and if so removes it.  A   *)
(* caller that sees a live fence after making the directory gives it up.   *)
(*                                                                         *)
(* One action is one file-system call (or the tail of JavaScript between   *)
(* two of them): the code awaits every call, so any other caller, in this  *)
(* process or another, may run in between.                                 *)
(*                                                                         *)
(* Abstractions.  A caller makes one acquisition at a time, so its name    *)
(* stands for the random token of the acquisition.  The 10 s grace period  *)
(* is the directory's age: "old" when its mtime is more than the grace     *)
(* period ago, which Age brings about.  A process id is not reused.        *)
(***************************************************************************)
CONSTANTS
  Caller,       (* one asynchronous acquirer; its name is its token         *)
  Pid,          (* operating-system processes                               *)
  PidOf,        (* the process a caller runs in                             *)
  NoDir,        (* the lock directory does not exist                        *)
  NoOwner,      (* it does, but owner.json in it does not                   *)
  Malformed,    (* a truncated owner.json of an older release               *)
  MayCrash,     (* processes may die                                        *)
  MayStall,     (* a caller may stall for the grace period between two calls*)
  Leftover      (* a lock directory without a valid record may be there at  *)
                (* the start, left by a process that is gone                *)

ASSUME CallerAssumption ==
  /\ PidOf \in [Caller -> Pid]
  /\ {NoDir, NoOwner, Malformed} \cap Caller = {}
  /\ NoDir # NoOwner /\ NoDir # Malformed /\ NoOwner # Malformed

ASSUME FaultAssumption ==
  /\ MayCrash \in BOOLEAN
  /\ MayStall \in BOOLEAN
  /\ Leftover \in BOOLEAN

VARIABLES
  pc,         (* where each caller is in acquireFileLock or in its release  *)
  owner,      (* the lock directory: NoDir, or the owner.json in it         *)
  temps,      (* callers whose .owner-<pid>-<token>.tmp is in it            *)
  age,        (* whether its mtime is older than the grace period           *)
  fences,     (* callers whose recovery fence exists                        *)
  alive       (* processes that have not died                               *)

dirVars == <<owner, temps, age>>
vars == <<pc, owner, temps, age, fences, alive>>

-----------------------------------------------------------------------------
(* Program counters, in the order of the code.                             *)

Acquiring == {"scan", "mkdir", "rescan", "write", "link"}
Tidying   == {"tidyHeld", "tidyBusy", "tidyFail"}
Removing  == {"abandonClear", "abandonRmdir", "releaseClear", "releaseRmdir",
              "reapClear", "reapRmdir"}
Reaping   == {"fence", "inspect", "pending", "stat", "unfence", "unfenceFail"}
PCs       == {"idle", "held", "wait", "dead"}
               \cup Acquiring \cup Tidying \cup Removing \cup Reaping

Live(c) == PidOf[c] \in alive
LiveFence == \E c \in fences : Live(c)
DirExists == owner # NoDir
Empty == owner = NoOwner /\ temps = {}

(* Between two of these points a caller acts on what it saw of the         *)
(* directory.  Without MayStall, no live caller spends the whole grace     *)
(* period there.                                                           *)
Hurried == {"rescan", "write", "abandonClear", "abandonRmdir",
            "releaseRmdir", "pending", "stat", "reapRmdir"}

Goto(c, to) == pc' = [pc EXCEPT ![c] = to]
At(c, from) == Live(c) /\ pc[c] = from

(* Every variable has its type, and a directory that is not there holds    *)
(* nothing and has no age.                                                 *)
TypeOK ==
  /\ pc \in [Caller -> PCs]
  /\ owner \in Caller \cup {NoDir, NoOwner, Malformed}
  /\ temps \in SUBSET Caller
  /\ age \in {"young", "old"}
  /\ fences \in SUBSET Caller
  /\ alive \in SUBSET Pid
  /\ ~DirExists => temps = {} /\ age = "young"

(* The code makes the parent directory first and sweeps nothing: a lock    *)
(* directory of an earlier process is simply there.                        *)
Init ==
  /\ pc = [c \in Caller |-> "idle"]
  /\ \/ owner = NoDir /\ age = "young"
     \/ Leftover /\ owner \in {NoOwner, Malformed} /\ age \in {"young", "old"}
  /\ temps = {}
  /\ fences = {}
  /\ alive = Pid

-----------------------------------------------------------------------------
(* Acquiring.                                                              *)

Begin(c) ==
  /\ At(c, "idle")
  /\ Goto(c, "scan")
  /\ UNCHANGED <<dirVars, fences, alive>>

(* Mutant: any fence counts, also one whose process is gone.               *)
ScanAnyFence(c, from, seen, clear) ==
  /\ At(c, from)
  /\ Goto(c, IF fences # {} THEN seen ELSE clear)
  /\ UNCHANGED <<dirVars, fences, alive>>

(* hasRecoveryFence: fences of dead processes are removed on the way; a    *)
(* live one sends the caller to `seen`, none to `clear`.                   *)
ScanFences(c, from, seen, clear) ==
  /\ At(c, from)
  /\ fences' = {f \in fences : Live(f)}
  /\ Goto(c, IF LiveFence THEN seen ELSE clear)
  /\ UNCHANGED <<dirVars, alive>>

Scan(c)   == ScanFences(c, "scan", "wait", "mkdir")
Rescan(c) == ScanFences(c, "rescan", "abandonClear", "write")

(* Mutant: mkdir with recursive: true, which does not mind the directory.  *)
MakeLockRecursive(c) ==
  /\ At(c, "mkdir")
  /\ owner' = IF DirExists THEN owner ELSE NoOwner
  /\ Goto(c, "rescan")
  /\ UNCHANGED <<temps, age, fences, alive>>

MakeLock(c) ==
  /\ At(c, "mkdir")
  /\ ~DirExists
  /\ owner' = NoOwner /\ temps' = {} /\ age' = "young"
  /\ Goto(c, "rescan")
  /\ UNCHANGED <<fences, alive>>

LockThere(c) ==
  /\ At(c, "mkdir")
  /\ DirExists
  /\ Goto(c, "fence")
  /\ UNCHANGED <<dirVars, fences, alive>>

(* Mutant: the temporary is created beside, not inside, a removed lock.    *)
WriteTempAnywhere(c) ==
  /\ At(c, "write")
  /\ temps' = temps \cup {c}
  /\ Goto(c, "link")
  /\ UNCHANGED <<owner, age, fences, alive>>

WriteTemp(c) ==
  /\ At(c, "write")
  /\ DirExists
  /\ temps' = temps \cup {c} /\ age' = "young"
  /\ Goto(c, "link")
  /\ UNCHANGED <<owner, fences, alive>>

(* The directory is gone: ENOENT rejects the acquisition.                  *)
WriteTempFails(c) ==
  /\ At(c, "write")
  /\ ~DirExists
  /\ Goto(c, "idle")
  /\ UNCHANGED <<dirVars, fences, alive>>

LinkOwner(c) ==
  /\ At(c, "link")
  /\ c \in temps /\ owner = NoOwner
  /\ owner' = c /\ age' = "young"
  /\ Goto(c, "tidyHeld")
  /\ UNCHANGED <<temps, fences, alive>>

(* EEXIST, a record is there, continues as if mkdir had found the          *)
(* directory; ENOENT, the temporary is gone, rejects the acquisition.      *)
LinkRefused(c) ==
  /\ At(c, "link")
  /\ c \notin temps \/ owner # NoOwner
  /\ Goto(c, IF c \in temps THEN "tidyBusy" ELSE "tidyFail")
  /\ UNCHANGED <<dirVars, fences, alive>>

(* The finally of the publication: unlink the temporary.                   *)
Tidy(c) ==
  /\ \E step \in { <<"tidyHeld", "held">>, <<"tidyBusy", "fence">>, <<"tidyFail", "idle">> } :
       At(c, step[1]) /\ Goto(c, step[2])
  /\ temps' = temps \ {c}
  /\ age' = IF c \in temps THEN "young" ELSE age
  /\ UNCHANGED <<owner, fences, alive>>

-----------------------------------------------------------------------------
(* fs.rm(path, {recursive, force}): rmdir if the directory is empty;       *)
(* otherwise unlink what is in it and rmdir again, which fails with        *)
(* ENOTEMPTY if something was added in between.                            *)

RemoveEmptyDir ==
  owner' = NoDir /\ temps' = {} /\ age' = "young"

ClearDir(c, from, partly, done) ==
  /\ At(c, from)
  /\ \/ /\ ~DirExists
        /\ UNCHANGED dirVars
        /\ Goto(c, done)
     \/ /\ DirExists /\ Empty
        /\ RemoveEmptyDir
        /\ Goto(c, done)
     \/ /\ DirExists /\ ~Empty
        /\ owner' = NoOwner /\ temps' = {} /\ age' = "young"
        /\ Goto(c, partly)
  /\ UNCHANGED <<fences, alive>>

RemoveDir(c, from, done, refused) ==
  /\ At(c, from)
  /\ \/ /\ ~DirExists
        /\ UNCHANGED dirVars
        /\ Goto(c, done)
     \/ /\ DirExists /\ Empty
        /\ RemoveEmptyDir
        /\ Goto(c, done)
     \/ /\ DirExists /\ ~Empty
        /\ UNCHANGED dirVars
        /\ Goto(c, refused)
  /\ UNCHANGED <<fences, alive>>

(* A live fence was seen: give the directory up, then look at the lock as  *)
(* any contender does.                                                     *)
Abandon(c) ==
  \/ ClearDir(c, "abandonClear", "abandonRmdir", "fence")
  \/ RemoveDir(c, "abandonRmdir", "fence", "idle")

-----------------------------------------------------------------------------
(* Recovery.                                                               *)

(* Mutant: a recoverer that raises no fence.                               *)
RaiseNoFence(c) ==
  /\ At(c, "fence")
  /\ Goto(c, "inspect")
  /\ UNCHANGED <<dirVars, fences, alive>>

RaiseFence(c) ==
  /\ At(c, "fence")
  /\ fences' = fences \cup {c}
  /\ Goto(c, "inspect")
  /\ UNCHANGED <<dirVars, alive>>

(* Mutant: a missing record already means a dead owner.                    *)
ReadOwnerNoGrace(c) ==
  /\ At(c, "inspect")
  /\ Goto(c, IF owner \in Caller /\ Live(owner) THEN "unfence" ELSE "reapClear")
  /\ UNCHANGED <<dirVars, fences, alive>>

ReadOwner(c) ==
  /\ At(c, "inspect")
  /\ Goto(c, IF owner \notin Caller THEN "pending"
             ELSE IF Live(owner) THEN "unfence" ELSE "reapClear")
  /\ UNCHANGED <<dirVars, fences, alive>>

(* Mutant: any temporary is taken for one of a dead process.               *)
ReadPendingOfAnyone(c) ==
  /\ At(c, "pending")
  /\ Goto(c, IF DirExists THEN "stat" ELSE "unfence")
  /\ UNCHANGED <<dirVars, fences, alive>>

ReadPending(c) ==
  /\ At(c, "pending")
  /\ Goto(c, IF DirExists /\ \A t \in temps : ~Live(t) THEN "stat" ELSE "unfence")
  /\ UNCHANGED <<dirVars, fences, alive>>

ReadAge(c) ==
  /\ At(c, "stat")
  /\ Goto(c, IF DirExists /\ age = "old" THEN "reapClear" ELSE "unfence")
  /\ UNCHANGED <<dirVars, fences, alive>>

Reap(c) ==
  \/ ClearDir(c, "reapClear", "reapRmdir", "unfence")
  \/ RemoveDir(c, "reapRmdir", "unfence", "unfenceFail")

LowerFence(c) ==
  /\ \E step \in { <<"unfence", "wait">>, <<"unfenceFail", "idle">> } :
       At(c, step[1]) /\ Goto(c, step[2])
  /\ fences' = fences \ {c}
  /\ UNCHANGED <<dirVars, alive>>

(* Poll again, or give up after waitMs and return null.                    *)
Retry(c) ==
  /\ At(c, "wait")
  /\ \E to \in {"scan", "idle"} : Goto(c, to)
  /\ UNCHANGED <<dirVars, fences, alive>>

-----------------------------------------------------------------------------
(* Release, when the operation under the lock is over: remove the          *)
(* directory if the record in it is this acquisition's.                    *)

BeginRelease(c) ==
  /\ At(c, "held")
  /\ Goto(c, IF owner = c THEN "releaseClear" ELSE "idle")
  /\ UNCHANGED <<dirVars, fences, alive>>

Release(c) ==
  \/ ClearDir(c, "releaseClear", "releaseRmdir", "idle")
  \/ RemoveDir(c, "releaseRmdir", "idle", "idle")

-----------------------------------------------------------------------------
(* The environment.                                                        *)

(* Bound: one process always survives, so that somebody can recover.       *)
Crash(p) ==
  /\ MayCrash
  /\ p \in alive /\ alive # {p}
  /\ alive' = alive \ {p}
  /\ pc' = [c \in Caller |-> IF PidOf[c] = p THEN "dead" ELSE pc[c]]
  /\ UNCHANGED <<dirVars, fences>>

Age ==
  /\ DirExists /\ age = "young"
  /\ MayStall \/ \A c \in Caller : pc[c] \notin Hurried
  /\ age' = "old"
  /\ UNCHANGED <<pc, owner, temps, fences, alive>>

Acquire(c) ==
  \/ Begin(c) \/ Scan(c) \/ MakeLock(c) \/ LockThere(c) \/ Rescan(c)
  \/ WriteTemp(c) \/ WriteTempFails(c) \/ LinkOwner(c) \/ LinkRefused(c) \/ Tidy(c)

Recover(c) ==
  \/ Abandon(c) \/ RaiseFence(c) \/ ReadOwner(c) \/ ReadPending(c) \/ ReadAge(c)
  \/ Reap(c) \/ LowerFence(c) \/ Retry(c)

Step(c) == Acquire(c) \/ Recover(c) \/ BeginRelease(c) \/ Release(c)

Next ==
  \/ \E c \in Caller : Step(c)
  \/ \E p \in Pid : Crash(p)
  \/ Age

Spec == Init /\ [][Next]_vars

(* Node keeps running the continuations of a live process, the panel's     *)
(* refresh timer keeps asking for the lock, and time passes.               *)
FairSpec ==
  /\ Spec
  /\ \A c \in Caller : WF_vars(Step(c))
  /\ WF_vars(Age)
-----------------------------------------------------------------------------
(* Properties.                                                             *)

(* Two operations under the lock never run at once ("Cooperating           *)
(* catalog/settings readers and writers share this short lock").           *)
MutualExclusion ==
  \A c, d \in Caller : pc[c] = "held" /\ pc[d] = "held" => c = d

(* recoverFileLock: when a contender decides to remove the directory, the  *)
(* record in it names a process that has died, or there is no record and   *)
(* nobody is about to publish one: no temporary of a live caller is there, *)
(* and no caller is between its mkdir and its temporary.                   *)
ReapsOnlyDead ==
  [][\A r \in Caller : pc[r] # "reapClear" /\ pc'[r] = "reapClear" =>
       IF owner \in Caller
       THEN ~Live(owner)
       ELSE /\ \A t \in temps : ~Live(t)
            /\ \A m \in Caller : pc[m] \notin {"rescan", "write"}]_vars

(* While an operation runs under the lock, the directory and its record    *)
(* stay as published.                                                      *)
HeldIsRecorded ==
  \A c \in Caller : pc[c] = "held" => DirExists /\ owner = c

(* A lock whose holder died does not stay locked, and the fence of a       *)
(* recoverer that died does not keep others out.                           *)
DeadOwnerReclaimed ==
  \A c \in Caller : (owner = c /\ ~Live(c)) ~> owner # c

-----------------------------------------------------------------------------
(* Behind ReapsOnlyDead, with deaths and leftovers but without stalls: a   *)
(* directory that is old has not been touched since the contender at it    *)
(* looked, and is nobody's who has just made it.                           *)

Untouched(c) ==
  /\ pc[c] \in {"rescan", "write"} => age = "young"
  /\ pc[c] \in {"pending", "stat"} /\ age = "old" => owner \notin Caller
  /\ pc[c] = "stat" /\ age = "old" => \A t \in temps : ~Live(t)

GraceInv == TypeOK /\ \A c \in Caller : Untouched(c)

-----------------------------------------------------------------------------
(* Without stalls and leftovers, and while no process dies that has the    *)
(* directory, nobody is ever reaped: the caller that made the directory is *)
(* alone until it has removed it again, whatever becomes of the others.    *)

Prompt == ~MayStall /\ ~Leftover

(* From mkdir to the end of the release, the directory is this caller's.   *)
Fresh     == {"rescan", "write", "abandonClear", "releaseRmdir"}
Published == {"held", "releaseClear"}
Maker(c)  == pc[c] \in Fresh \cup Published \cup {"link", "tidyHeld"}

NoMakerDies == \A c \in Caller : Maker(c) => pc'[c] # "dead"
MakersSurvive == [][NoMakerDies]_vars

(* Where nobody gets to then.                                              *)
Faulty == {"tidyBusy", "tidyFail", "abandonRmdir", "reapClear", "reapRmdir",
           "unfenceFail"}

(* What the maker has published so far is what the directory holds.        *)
MakerInv(c) ==
  /\ Maker(c) => DirExists /\ Live(c)
  /\ pc[c] \in Fresh => owner = NoOwner /\ temps = {}
  /\ pc[c] = "link" => owner = NoOwner /\ temps = {c}
  /\ pc[c] = "tidyHeld" => owner = c /\ temps = {c}
  /\ pc[c] \in Published => owner = c /\ temps = {}

(* A contender that saw no record cannot go on to see an old directory     *)
(* without also seeing the temporary of the caller that is publishing.     *)
WatcherInv(c) ==
  /\ pc[c] = "pending" => (age = "old" => temps # {})
  /\ pc[c] = "stat" => age = "young"

(* The inductive invariant behind mutual exclusion: the directory exists   *)
(* exactly while one caller is its maker, an old directory shows a record  *)
(* or a live temporary, and therefore no contender decides to remove it.   *)
Inv ==
  /\ TypeOK
  /\ \A c, d \in Caller : Maker(c) /\ Maker(d) => c = d
  /\ DirExists => \E c \in Caller : Maker(c)
  /\ age = "old" => ~Empty
  /\ \A c \in Caller : pc[c] \notin Faulty /\ MakerInv(c) /\ WatcherInv(c)

-----------------------------------------------------------------------------
(* What the users of the lock rely on: the abstract mutual exclusion of    *)
(* Mutex, where being inside is running the operation under the lock.      *)

Abstract == INSTANCE Mutex WITH inside <- {c \in Caller : pc[c] = "held"}

(* Every behaviour of the lock without faults is one of the abstract       *)
(* mutex: withStateLock runs an operation only when no other runs.         *)
ImplementsMutex == Abstract!Spec
=============================================================================
