--------------------------- MODULE FileLockProofs ---------------------------
(***************************************************************************)
(* Proofs about FileLock, for every set of callers and processes.          *)
(***************************************************************************)
EXTENDS FileLock, TLAPS

USE DEF PCs, Acquiring, Tidying, Removing, Reaping

(* Every action keeps the shape of the variables, and never leaves         *)
(* anything in a directory that is not there, under every fault.           *)
LEMMA TypeStep == TypeOK /\ [Next]_vars => TypeOK'
<1> SUFFICES ASSUME TypeOK, [Next]_vars PROVE TypeOK'
  OBVIOUS
<1> USE CallerAssumption DEF TypeOK, Goto, At, dirVars, DirExists, Empty
<1>1. ASSUME NEW c \in Caller, Begin(c) PROVE TypeOK'
  BY <1>1 DEF Begin
<1>2. ASSUME NEW c \in Caller, Scan(c) \/ Rescan(c) PROVE TypeOK'
  BY <1>2 DEF Scan, Rescan, ScanFences
<1>3. ASSUME NEW c \in Caller, MakeLock(c) \/ LockThere(c) PROVE TypeOK'
  BY <1>3 DEF MakeLock, LockThere
<1>4. ASSUME NEW c \in Caller, WriteTemp(c) \/ WriteTempFails(c) PROVE TypeOK'
  BY <1>4 DEF WriteTemp, WriteTempFails
<1>5. ASSUME NEW c \in Caller, LinkOwner(c) \/ LinkRefused(c) PROVE TypeOK'
  BY <1>5 DEF LinkOwner, LinkRefused
<1>6. ASSUME NEW c \in Caller, Tidy(c) PROVE TypeOK'
  BY <1>6 DEF Tidy
<1>7. ASSUME NEW c \in Caller, Abandon(c) PROVE TypeOK'
  BY <1>7 DEF Abandon, ClearDir, RemoveDir, RemoveEmptyDir
<1>8. ASSUME NEW c \in Caller, Reap(c) PROVE TypeOK'
  BY <1>8 DEF Reap, ClearDir, RemoveDir, RemoveEmptyDir
<1>9. ASSUME NEW c \in Caller, Release(c) PROVE TypeOK'
  BY <1>9 DEF Release, ClearDir, RemoveDir, RemoveEmptyDir
<1>10. ASSUME NEW c \in Caller, RaiseFence(c) \/ LowerFence(c) PROVE TypeOK'
  BY <1>10 DEF RaiseFence, LowerFence
<1>11. ASSUME NEW c \in Caller,
              ReadOwner(c) \/ ReadPending(c) \/ ReadAge(c) \/ Retry(c) \/ BeginRelease(c)
       PROVE TypeOK'
  BY <1>11 DEF ReadOwner, ReadPending, ReadAge, Retry, BeginRelease
<1>12. ASSUME NEW p \in Pid, Crash(p) PROVE TypeOK'
  BY <1>12 DEF Crash
<1>13. CASE Age
  BY <1>13 DEF Age
<1>14. CASE UNCHANGED vars
  BY <1>14 DEF vars
<1> QED
  BY <1>1, <1>2, <1>3, <1>4, <1>5, <1>6, <1>7, <1>8, <1>9, <1>10, <1>11, <1>12,
     <1>13, <1>14
     DEF Next, Step, Acquire, Recover

(* The variables keep their types and a directory that is not there is     *)
(* empty, whatever crashes, stalls and leftovers there are.                *)
THEOREM TypeCorrect == Spec => []TypeOK
<1>1. Init => TypeOK
  BY CallerAssumption DEF Init, TypeOK, DirExists
<1> QED
  BY <1>1, TypeStep, PTL DEF Spec

-----------------------------------------------------------------------------
(* The grace period, with deaths and leftovers.                            *)

LEMMA GraceInit == Init => GraceInv
  BY CallerAssumption DEF Init, GraceInv, TypeOK, DirExists, Untouched

(* Whatever changes the directory makes it young, and it does not grow old *)
(* while a contender is between its reads of it or a maker has yet to put  *)
(* its temporary there.                                                    *)
LEMMA GraceStep == ASSUME ~MayStall PROVE GraceInv /\ [Next]_vars => GraceInv'
<1> SUFFICES ASSUME GraceInv, [Next]_vars PROVE GraceInv'
  OBVIOUS
<1>0. TypeOK /\ TypeOK'
  BY TypeStep DEF GraceInv
<1> SUFFICES ASSUME NEW d \in Caller PROVE Untouched(d)'
  BY <1>0 DEF GraceInv
<1> USE <1>0, CallerAssumption
    DEF GraceInv, Untouched, Goto, At, Live, dirVars, DirExists, Empty
<1>1. ASSUME NEW c \in Caller, Begin(c) \/ Scan(c) \/ Rescan(c) PROVE Untouched(d)'
  BY <1>1 DEF TypeOK, Begin, Scan, Rescan, ScanFences
<1>2. ASSUME NEW c \in Caller, MakeLock(c) \/ LockThere(c) PROVE Untouched(d)'
  BY <1>2 DEF TypeOK, MakeLock, LockThere
<1>3. ASSUME NEW c \in Caller, WriteTemp(c) \/ WriteTempFails(c) PROVE Untouched(d)'
  BY <1>3 DEF TypeOK, WriteTemp, WriteTempFails
<1>4. ASSUME NEW c \in Caller, LinkOwner(c) \/ LinkRefused(c) PROVE Untouched(d)'
  BY <1>4 DEF TypeOK, LinkOwner, LinkRefused
<1>5. ASSUME NEW c \in Caller, Tidy(c) PROVE Untouched(d)'
  BY <1>5 DEF TypeOK, Tidy
<1>6. ASSUME NEW c \in Caller, Abandon(c) PROVE Untouched(d)'
  BY <1>6 DEF TypeOK, Abandon, ClearDir, RemoveDir, RemoveEmptyDir
<1>7. ASSUME NEW c \in Caller, Reap(c) PROVE Untouched(d)'
  BY <1>7 DEF TypeOK, Reap, ClearDir, RemoveDir, RemoveEmptyDir
<1>8. ASSUME NEW c \in Caller, Release(c) PROVE Untouched(d)'
  BY <1>8 DEF TypeOK, Release, ClearDir, RemoveDir, RemoveEmptyDir
<1>9. ASSUME NEW c \in Caller, RaiseFence(c) \/ LowerFence(c) PROVE Untouched(d)'
  BY <1>9 DEF TypeOK, RaiseFence, LowerFence
<1>10. ASSUME NEW c \in Caller, ReadOwner(c) PROVE Untouched(d)'
  BY <1>10 DEF TypeOK, ReadOwner
<1>11. ASSUME NEW c \in Caller, ReadPending(c) \/ ReadAge(c) PROVE Untouched(d)'
  BY <1>11 DEF TypeOK, ReadPending, ReadAge
<1>12. ASSUME NEW c \in Caller, Retry(c) \/ BeginRelease(c) PROVE Untouched(d)'
  BY <1>12 DEF TypeOK, Retry, BeginRelease
<1>13. ASSUME NEW p \in Pid, Crash(p) PROVE Untouched(d)'
  BY <1>13 DEF TypeOK, Crash
<1>14. CASE Age
  BY <1>14 DEF TypeOK, Age, Hurried
<1>15. CASE UNCHANGED vars
  BY <1>15 DEF vars, TypeOK
<1> QED
  BY <1>1, <1>2, <1>3, <1>4, <1>5, <1>6, <1>7, <1>8, <1>9, <1>10, <1>11, <1>12,
     <1>13, <1>14, <1>15
     DEF Next, Step, Acquire, Recover

(* A contender decides to remove the directory of a dead process only, or  *)
(* one without a record in which nobody alive is about to publish one:     *)
(* with any number of callers, deaths and leftovers, as long as no live    *)
(* caller stalls for the grace period.                                     *)
THEOREM GracePeriodProtects == ASSUME ~MayStall PROVE Spec => ReapsOnlyDead
<1> DEFINE Dead == IF owner \in Caller
                   THEN ~Live(owner)
                   ELSE /\ \A t \in temps : ~Live(t)
                        /\ \A m \in Caller : pc[m] \notin {"rescan", "write"}
<1>1. GraceInv /\ [Next]_vars =>
        [\A r \in Caller : pc[r] # "reapClear" /\ pc'[r] = "reapClear" => Dead]_vars
  <2> SUFFICES ASSUME GraceInv, Next, NEW r \in Caller,
                      pc[r] # "reapClear", pc'[r] = "reapClear"
               PROVE  Dead
    OBVIOUS
  <2> USE DEF GraceInv, TypeOK, Goto, At
  <2>1. ReadOwner(r) \/ ReadAge(r)
    <3>1. ASSUME NEW c \in Caller, Acquire(c) PROVE FALSE
      BY <3>1
         DEF Acquire, Begin, Scan, Rescan, ScanFences, MakeLock, LockThere, WriteTemp,
             WriteTempFails, LinkOwner, LinkRefused, Tidy
    <3>2. ASSUME NEW c \in Caller, Recover(c) PROVE c = r /\ (ReadOwner(c) \/ ReadAge(c))
      BY <3>2
         DEF Recover, Abandon, Reap, ClearDir, RemoveDir, RaiseFence, ReadOwner,
             ReadPending, ReadAge, LowerFence, Retry
    <3>3. ASSUME NEW c \in Caller, BeginRelease(c) \/ Release(c) PROVE FALSE
      BY <3>3 DEF BeginRelease, Release, ClearDir, RemoveDir
    <3>4. ASSUME NEW p \in Pid, Crash(p) PROVE FALSE
      BY <3>4 DEF Crash
    <3>5. ~Age
      BY DEF Age
    <3> QED
      BY <3>1, <3>2, <3>3, <3>4, <3>5 DEF Next, Step
  <2>2. CASE ReadOwner(r)
    BY <2>2 DEF ReadOwner
  <2>3. CASE ReadAge(r)
    BY <2>3 DEF ReadAge, Untouched
  <2> QED
    BY <2>1, <2>2, <2>3
<1> QED
  BY <1>1, GraceInit, GraceStep, PTL DEF Spec, ReapsOnlyDead

-----------------------------------------------------------------------------
(* Mutual exclusion, while no process dies that has the directory.         *)

LEMMA InvInit == ASSUME Prompt PROVE Init => Inv
  BY CallerAssumption
     DEF Prompt, Init, Inv, TypeOK, DirExists, Empty, Maker, Fresh, Published,
         Faulty, MakerInv, WatcherInv

LEMMA InvStep == ASSUME Prompt PROVE Inv /\ [Next]_vars /\ [NoMakerDies]_vars => Inv'
<1> SUFFICES ASSUME Inv, [Next]_vars, [NoMakerDies]_vars PROVE Inv'
  OBVIOUS
<1>0. TypeOK /\ TypeOK'
  BY TypeStep DEF Inv
<1> USE <1>0, CallerAssumption, Prompt
    DEF Inv, Goto, At, Live, dirVars, DirExists, Empty, Maker, Fresh, Published,
        Faulty, MakerInv, WatcherInv
<1>1. ASSUME NEW c \in Caller, Begin(c) PROVE Inv'
  BY <1>1 DEF TypeOK, Begin
<1>2. ASSUME NEW c \in Caller, Scan(c) PROVE Inv'
  BY <1>2 DEF TypeOK, Scan, ScanFences
<1>3. ASSUME NEW c \in Caller, Rescan(c) PROVE Inv'
  BY <1>3 DEF TypeOK, Rescan, ScanFences
<1>4. ASSUME NEW c \in Caller, MakeLock(c) PROVE Inv'
  BY <1>4 DEF TypeOK, MakeLock
<1>5. ASSUME NEW c \in Caller, LockThere(c) PROVE Inv'
  BY <1>5 DEF TypeOK, LockThere
<1>6. ASSUME NEW c \in Caller, WriteTemp(c) PROVE Inv'
  BY <1>6 DEF TypeOK, WriteTemp
<1>7. ASSUME NEW c \in Caller, WriteTempFails(c) PROVE Inv'
  BY <1>7 DEF TypeOK, WriteTempFails
<1>8. ASSUME NEW c \in Caller, LinkOwner(c) PROVE Inv'
  BY <1>8 DEF TypeOK, LinkOwner
<1>9. ASSUME NEW c \in Caller, LinkRefused(c) PROVE Inv'
  BY <1>9 DEF TypeOK, LinkRefused
<1>10. ASSUME NEW c \in Caller, Tidy(c) PROVE Inv'
  BY <1>10 DEF TypeOK, Tidy
<1>11. ASSUME NEW c \in Caller, Abandon(c) PROVE Inv'
  BY <1>11 DEF TypeOK, Abandon, ClearDir, RemoveDir, RemoveEmptyDir
<1>12. ASSUME NEW c \in Caller, RaiseFence(c) \/ LowerFence(c) PROVE Inv'
  BY <1>12 DEF TypeOK, RaiseFence, LowerFence
<1>13. ASSUME NEW c \in Caller, ReadOwner(c) PROVE Inv'
  BY <1>13 DEF TypeOK, ReadOwner
<1>14. ASSUME NEW c \in Caller, ReadPending(c) PROVE Inv'
  BY <1>14 DEF TypeOK, ReadPending
<1>15. ASSUME NEW c \in Caller, ReadAge(c) PROVE Inv'
  BY <1>15 DEF TypeOK, ReadAge
<1>16. ASSUME NEW c \in Caller, Reap(c) PROVE Inv'
  BY <1>16 DEF Reap, ClearDir, RemoveDir
<1>17. ASSUME NEW c \in Caller, Retry(c) \/ BeginRelease(c) PROVE Inv'
  BY <1>17 DEF TypeOK, Retry, BeginRelease
<1>18. ASSUME NEW c \in Caller, Release(c) PROVE Inv'
  BY <1>18 DEF TypeOK, Release, ClearDir, RemoveDir, RemoveEmptyDir
<1>19. ASSUME NEW p \in Pid, Crash(p) PROVE Inv'
  BY <1>19 DEF TypeOK, NoMakerDies, Crash, vars
<1>20. CASE Age
  BY <1>20 DEF TypeOK, Prompt, Age, Hurried
<1>21. CASE UNCHANGED vars
  BY <1>21 DEF vars, TypeOK
<1> QED
  BY <1>1, <1>2, <1>3, <1>4, <1>5, <1>6, <1>7, <1>8, <1>9, <1>10, <1>11, <1>12,
     <1>13, <1>14, <1>15, <1>16, <1>17, <1>18, <1>19, <1>20, <1>21
     DEF Next, Step, Acquire, Recover

LEMMA InvHolds == ASSUME Prompt PROVE Spec /\ MakersSurvive => []Inv
  BY InvInit, InvStep, PTL DEF Spec, MakersSurvive

(* Two operations never run under the lock at once, however many callers   *)
(* in however many processes compete for it and die while they do, as long *)
(* as nobody dies who has the directory or stalls for the grace period and *)
(* no lock was left behind.  Each of these is needed: TLC finds a          *)
(* counterexample without it.                                              *)
THEOREM Exclusive == ASSUME Prompt PROVE Spec /\ MakersSurvive => []MutualExclusion
<1>1. Inv => MutualExclusion
  BY DEF Inv, MutualExclusion, Maker, Published
<1> QED
  BY <1>1, InvHolds, PTL

(* While an operation runs under the lock nobody removes or replaces the   *)
(* lock directory and its record.                                          *)
THEOREM Recorded == ASSUME Prompt PROVE Spec /\ MakersSurvive => []HeldIsRecorded
<1>1. Inv => HeldIsRecorded
  BY DEF Inv, HeldIsRecorded, MakerInv, Maker, Published
<1> QED
  BY <1>1, InvHolds, PTL

(* The lock implements the abstract mutex: an acquisition that returns is  *)
(* an Enter, the first step of a release is a Leave, and every other       *)
(* file-system call of any caller is invisible.                            *)
THEOREM Refinement == ASSUME Prompt PROVE Spec /\ MakersSurvive => ImplementsMutex
<1> DEFINE Inside == {c \in Caller : pc[c] = "held"}
<1>1. Init => Inside = {}
  BY DEF Init
<1>2. Inv /\ Inv' /\ [Next]_vars /\ [NoMakerDies]_vars => [Abstract!Next]_Inside
  <2> SUFFICES ASSUME Inv, Inv', [Next]_vars, [NoMakerDies]_vars
               PROVE  [Abstract!Next]_Inside
    OBVIOUS
  <2> USE DEF Inv, TypeOK, Goto, At
  <2>1. ASSUME NEW c \in Caller, pc' = [pc EXCEPT ![c] = "held"] PROVE [Abstract!Next]_Inside
    <3>1. MutualExclusion'
      BY DEF MutualExclusion, Maker, Published
    <3>2. Inside' = {c} /\ Inside \subseteq {c}
      BY <2>1, <3>1 DEF MutualExclusion
    <3> QED
      BY <2>1, <3>2 DEF Abstract!Next, Abstract!Enter
  <2>2. ASSUME NEW c \in Caller, NEW to \in PCs, to # "held", pc' = [pc EXCEPT ![c] = to]
        PROVE  [Abstract!Next]_Inside
    <3>1. Inside' = Inside \ {c}
      BY <2>2
    <3> QED
      BY <2>2, <3>1 DEF Abstract!Next, Abstract!Leave
  <2>3. ASSUME pc' = pc PROVE [Abstract!Next]_Inside
    BY <2>3
  <2>4. ASSUME NEW c \in Caller, Acquire(c) PROVE [Abstract!Next]_Inside
    BY <2>1, <2>2, <2>4
       DEF Acquire, Begin, Scan, Rescan, ScanFences, MakeLock, LockThere, WriteTemp,
           WriteTempFails, LinkOwner, LinkRefused, Tidy
  <2>5. ASSUME NEW c \in Caller, Recover(c) PROVE [Abstract!Next]_Inside
    BY <2>2, <2>5
       DEF Recover, Abandon, Reap, ClearDir, RemoveDir, RaiseFence, ReadOwner,
           ReadPending, ReadAge, LowerFence, Retry
  <2>6. ASSUME NEW c \in Caller, BeginRelease(c) \/ Release(c) PROVE [Abstract!Next]_Inside
    BY <2>2, <2>6 DEF BeginRelease, Release, ClearDir, RemoveDir
  <2>7. ASSUME NEW p \in Pid, Crash(p) PROVE [Abstract!Next]_Inside
    <3>1. \A c \in Caller : pc'[c] = "held" <=> pc[c] = "held"
      BY <2>7 DEF Crash, NoMakerDies, Maker, Published, vars
    <3> QED
      BY <3>1
  <2> QED
    BY <2>3, <2>4, <2>5, <2>6, <2>7 DEF Next, Step, Age, vars
<1> QED
  BY <1>1, <1>2, InvHolds, PTL DEF Spec, MakersSurvive, ImplementsMutex, Abstract!Spec, Abstract!Init
=============================================================================
