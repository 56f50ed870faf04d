------------------------------ MODULE Attribution ------------------------------
(***************************************************************************)
(* Usage attribution: what the plugin records of each billable step.       *)
(*                                                                         *)
(* A hook instance of the plugin captures a step before it is dispatched   *)
(* and completes it when the host tells of the finished reply.  Both only  *)
(* put work into a bounded queue (attribution-queue.js); one runner per    *)
(* queue does it, on a ledger file that all processes share under the      *)
(* state lock (usage-attribution-store.js).  When the runner has emptied   *)
(* its queue it adds the queue's failures and drops to those of the ledger.*)
(*                                                                         *)
(* Abstractions.  An operation on the ledger is one step, at its rename,   *)
(* because the state lock is held (FileLock).  A row is its key: the       *)
(* message for a pending row, the step for an observation.  The bound on   *)
(* the bytes of the ledger and those on the number of queues that are      *)
(* remembered (1000) are left out.                                         *)
(***************************************************************************)
EXTENDS Integers, Sequences, FiniteSets, FiniteSetsExt, SequencesExt

CONSTANTS
  Queue,       (* the hook instances, each with its queue                  *)
  Message,     (* user messages of routed sessions                         *)
  QueueOf,     (* the instance that routes a message                       *)
  None,
  MaxStep,     (* bounds on the assistant steps of each message            *)
  Deliveries,  (* bound on the completions of a step that are heard        *)
  Limit,       (* of outstanding work in a queue (1000)                    *)
  MaxRecords,  (* of observations in the ledger (10000)                    *)
  MaxPending,  (* of pending rows in the ledger (1000)                     *)
  MaxFailures, (* bound on the failures of a queue's operations            *)
  MayLeave,    (* bound: the instances whose session may be left           *)
  MayEnd       (* bound: the instances that may be closed, or whose process*)
               (* may end without waiting for its queue                    *)

Step == UNION {{m} \X (1..MaxStep[m]) : m \in Message}

ASSUME AttributionAssumption ==
  /\ IsFiniteSet(Queue) /\ QueueOf \in [Message -> Queue] /\ None \notin Message
  /\ MaxStep \in [Message -> Nat] /\ Deliveries \in Nat
  /\ Limit \in Nat \ {0} /\ MaxRecords \in Nat \ {0} /\ MaxPending \in Nat \ {0}
  /\ MaxFailures \in Nat /\ MayLeave \subseteq Queue /\ MayEnd \subseteq Queue

VARIABLES
  current,     (* the message each instance routes now                     *)
  dispatched,  (* the steps dispatched of each message                     *)
  heard,       (* how often a step's completion was put to the queue       *)
  settled,     (* the steps dispatched of each message when a completion   *)
               (* of it was last put to the queue                          *)
  queue,       (* tasks and state of each queue, and where its runner is   *)
  ledger,      (* usage-attribution.json                                   *)
  owed         (* rows that entered the ledger and were not yet completed  *)

host == <<current, dispatched, heard, settled>>
vars == <<host, queue, ledger, owed>>

-----------------------------------------------------------------------------

Counts == [failed : Nat, dropped : Nat]
Zero == [failed |-> 0, dropped |-> 0]
Work == [step : Step, done : BOOLEAN]
NoWork == [step |-> <<None, 0>>, done |-> FALSE]
MessageOf(work) == work.step[1]

NewQueue == [tasks |-> <<>>, pc |-> "idle", work |-> NoWork, ok |-> TRUE, closed |-> FALSE,
             pendingCount |-> 0, failed |-> 0, dropped |-> 0, saved |-> Zero]

Alive(q) == queue[q].pc # "dead"
CountsOf(q) == [failed |-> queue[q].failed, dropped |-> queue[q].dropped]

TypeOK ==
  /\ current \in [Queue -> Message \cup {None}]
  /\ \A m \in Message : dispatched[m] \in 0..MaxStep[m]
  /\ heard \in [Step -> 0..Deliveries]
  /\ \A m \in Message : settled[m] \in 0..dispatched[m]
  /\ DOMAIN queue = Queue
  /\ \A q \in Queue :
       /\ queue[q].pc \in {"idle", "start", "work", "settle", "persist", "ended", "dead"}
       /\ queue[q].tasks \in Seq(Work) /\ queue[q].work \in Work \cup {NoWork}
       /\ queue[q].ok \in BOOLEAN /\ queue[q].closed \in BOOLEAN
       /\ queue[q].pendingCount \in Nat /\ CountsOf(q) \in Counts
       /\ queue[q].saved \in Counts
  /\ ledger.observations \in Seq(Step) /\ ledger.pending \in Seq(Message)
  /\ ledger.old \subseteq Step \cup Message
  /\ ledger.failed \in Nat /\ ledger.dropped \in Nat /\ ledger.truncated \in BOOLEAN
  /\ ledger.sessions \in [Queue -> Counts]
  /\ owed \in Nat

Init ==
  /\ current = [q \in Queue |-> None]
  /\ dispatched = [m \in Message |-> 0]
  /\ heard = [s \in Step |-> 0] /\ settled = [m \in Message |-> 0]
  /\ queue = [q \in Queue |-> NewQueue]
  /\ ledger = [observations |-> <<>>, pending |-> <<>>, old |-> {}, failed |-> 0,
               dropped |-> 0, truncated |-> FALSE, sessions |-> [q \in Queue |-> Zero]]
  /\ owed = 0

-----------------------------------------------------------------------------
(* The queue.                                                              *)

(* enqueue: drop the work, or append it and wake the runner.               *)
Enqueued(state, work) ==
  IF state.closed \/ state.pendingCount >= Limit
  THEN [state EXCEPT !.dropped = @ + 1]
  ELSE [state EXCEPT !.tasks = Append(@, work), !.pendingCount = @ + 1,
                     !.pc = IF @ = "idle" THEN "start" ELSE @]

(* The head of the runner's loop: the next task, or the end of it, where   *)
(* persist is called with a copy of the state.                             *)
Looping(state) ==
  IF state.tasks # <<>>
  THEN [state EXCEPT !.pc = "work", !.work = Head(state.tasks), !.tasks = Tail(@)]
  ELSE [state EXCEPT !.pc = "persist", !.work = NoWork,
                     !.saved = [failed |-> state.failed, dropped |-> state.dropped]]

Become(q, state) == queue' = [queue EXCEPT ![q] = state]

Start(q) ==
  /\ queue[q].pc = "start"
  /\ Become(q, Looping(queue[q]))
  /\ UNCHANGED <<host, ledger, owed>>

-----------------------------------------------------------------------------
(* The ledger.                                                             *)

Newest(rows, max) ==
  IF Len(rows) > max THEN SubSeq(rows, Len(rows) - max + 1, Len(rows)) ELSE rows

(* The rows that are not among those that go, in their order.              *)
Without(rows, gone) ==
  LET kept == {i \in DOMAIN rows : rows[i] \notin gone}
      Rank(i) == Cardinality({j \in kept : j <= i})
  IN [n \in 1..Cardinality(kept) |-> rows[CHOOSE i \in kept : Rank(i) = n]]

(* Mutant: pending rows go without being counted.                          *)
PrunedUncounted(store) ==
  LET observations == Newest(Without(store.observations, store.old), MaxRecords)
      pending == Newest(Without(store.pending, store.old), MaxPending)
      lost == Len(store.observations) - Len(observations)
  IN [store EXCEPT !.observations = observations, !.pending = pending, !.old = {},
                   !.dropped = @ + lost, !.truncated = @ \/ lost > 0]

(* prune: what is too old goes, then the oldest of what is too much; every *)
(* row that goes is counted.                                               *)
Pruned(store) ==
  LET observations == Newest(Without(store.observations, store.old), MaxRecords)
      pending == Newest(Without(store.pending, store.old), MaxPending)
      lost == Len(store.observations) + Len(store.pending)
                - Len(observations) - Len(pending)
  IN [store EXCEPT !.observations = observations, !.pending = pending, !.old = {},
                   !.dropped = @ + lost, !.truncated = @ \/ lost > 0]

(* Mutant: a message that has an observation gets no pending row again.    *)
IsNewMessage(store, work) ==
  IF work.done THEN work.step \notin ToSet(store.observations)
               ELSE MessageOf(work) \notin ToSet(store.pending)
                                             \cup {s[1] : s \in ToSet(store.observations)}

IsNew(store, work) ==
  IF work.done THEN work.step \notin ToSet(store.observations)
               ELSE MessageOf(work) \notin ToSet(store.pending)

(* upsertUsageObservation, between the two prunings.                       *)
Upserted(store, work) ==
  LET m == MessageOf(work)
      new == IsNew(store, work)
  IN IF work.done
     THEN [store EXCEPT !.observations = IF new THEN Append(@, work.step) ELSE @,
                        !.pending = Without(@, {m})]
     ELSE [store EXCEPT !.pending = IF new THEN Append(@, m) ELSE @]

(* An operation fails before its rename, after it, or not at all.          *)
Outcome(q, done, ok) == (ok => done) /\ (ok \/ queue[q].failed < MaxFailures)

(* captureAttribution or completeAttribution.                              *)
Record(q) ==
  /\ queue[q].pc = "work"
  /\ \E done, ok \in BOOLEAN :
       /\ Outcome(q, done, ok)
       /\ Become(q, [queue[q] EXCEPT !.pc = "settle", !.ok = ok])
       /\ LET store == Pruned(ledger)
              work == queue[q].work
              completes == work.done /\ MessageOf(work) \in ToSet(store.pending)
          IN IF done
             THEN /\ ledger' = Pruned(Upserted(store, work))
                  /\ owed' = owed + (IF IsNew(store, work) THEN 1 ELSE 0)
                                  - (IF completes THEN 1 ELSE 0)
             ELSE UNCHANGED <<ledger, owed>>
  /\ UNCHANGED host

(* Mutant: the catch of the runner counts nothing.                         *)
SettleSwallowing(q) ==
  /\ queue[q].pc = "settle"
  /\ Become(q, Looping([queue[q] EXCEPT !.pendingCount = @ - 1, !.ok = TRUE]))
  /\ UNCHANGED <<host, ledger, owed>>

(* The catch of the runner, its counters and the head of the loop.         *)
Settle(q) ==
  /\ queue[q].pc = "settle"
  /\ Become(q, Looping([queue[q] EXCEPT !.pendingCount = @ - 1, !.ok = TRUE,
                                        !.failed = IF queue[q].ok THEN @ ELSE @ + 1]))
  /\ UNCHANGED <<host, ledger, owed>>

(* What a queue counts now and did not count before.                       *)
More(before, now) == Max({0, now - before})

(* Mutant: all of the queue's counters are added each time.                *)
PersistWhole(q) ==
  /\ queue[q].pc = "persist"
  /\ \E done, ok \in BOOLEAN :
       /\ Outcome(q, done, ok)
       /\ Become(q, [queue[q] EXCEPT !.pc = "ended", !.ok = ok])
       /\ LET store == Pruned(ledger)
              saved == queue[q].saved
          IN ledger' = IF ~done THEN ledger
                       ELSE [store EXCEPT
                              !.failed = @ + saved.failed, !.dropped = @ + saved.dropped,
                              !.truncated = @ \/ saved.dropped > 0,
                              !.sessions[q] = saved]
  /\ UNCHANGED <<host, owed>>

(* persistAttributionDiagnostics adds what was not yet added.              *)
Persist(q) ==
  /\ queue[q].pc = "persist"
  /\ \E done, ok \in BOOLEAN :
       /\ Outcome(q, done, ok)
       /\ Become(q, [queue[q] EXCEPT !.pc = "ended", !.ok = ok])
       /\ LET store == Pruned(ledger)
              saved == queue[q].saved
          IN ledger' = IF ~done THEN ledger
                       ELSE [store EXCEPT
                              !.failed = @ + More(store.sessions[q].failed, saved.failed),
                              !.dropped = @ + More(store.sessions[q].dropped, saved.dropped),
                              !.truncated = @ \/ saved.dropped > 0,
                              !.sessions[q] = saved]
  /\ UNCHANGED <<host, owed>>

(* Mutant: work that came meanwhile waits for the next enqueue.            *)
FinishWithoutRestart(q) ==
  /\ queue[q].pc = "ended"
  /\ Become(q, [queue[q] EXCEPT !.failed = IF queue[q].ok THEN @ ELSE @ + 1,
                                !.ok = TRUE, !.saved = Zero, !.pc = "idle"])
  /\ UNCHANGED <<host, ledger, owed>>

(* Mutant: a failure to save is settled like a failure of work.            *)
FinishDecrementing(q) ==
  /\ queue[q].pc = "ended"
  /\ Become(q, [queue[q] EXCEPT !.failed = IF queue[q].ok THEN @ ELSE @ + 1,
                                !.pendingCount = IF queue[q].ok THEN @ ELSE @ - 1,
                                !.ok = TRUE, !.saved = Zero,
                                !.pc = IF queue[q].tasks = <<>> THEN "idle" ELSE "start"])
  /\ UNCHANGED <<host, ledger, owed>>

(* The finally of the runner: work that came while it saved its state      *)
(* starts another.                                                         *)
Finish(q) ==
  /\ queue[q].pc = "ended"
  /\ Become(q, [queue[q] EXCEPT !.failed = IF queue[q].ok THEN @ ELSE @ + 1,
                                !.ok = TRUE, !.saved = Zero,
                                !.pc = IF queue[q].tasks = <<>> THEN "idle" ELSE "start"])
  /\ UNCHANGED <<host, ledger, owed>>

-----------------------------------------------------------------------------
(* The hooks and the host.                                                 *)

(* chat.message: the session has a new message, with a new route.          *)
Route(m) ==
  LET q == QueueOf[m] IN
  /\ Alive(q) /\ dispatched[m] = 0 /\ current[q] # m
  /\ current' = [current EXCEPT ![q] = m]
  /\ UNCHANGED <<dispatched, heard, settled, queue, ledger, owed>>

(* session.deleted, or a message for an agent that is not routed.          *)
Leave(q) ==
  /\ q \in MayLeave /\ Alive(q) /\ current[q] # None
  /\ current' = [current EXCEPT ![q] = None]
  /\ UNCHANGED <<dispatched, heard, settled, queue, ledger, owed>>

(* chat.params: capture before dispatch.                                   *)
Dispatch(m) ==
  LET q == QueueOf[m] IN
  /\ Alive(q) /\ current[q] = m /\ dispatched[m] < MaxStep[m]
  /\ dispatched' = [dispatched EXCEPT ![m] = @ + 1]
  /\ Become(q, Enqueued(queue[q], [step |-> <<m, dispatched'[m]>>, done |-> FALSE]))
  /\ UNCHANGED <<current, heard, settled, ledger, owed>>

(* event: message.updated of a completed step, perhaps after the next step *)
(* was dispatched, and perhaps not for the first time.  When the session   *)
(* has another route by then, or none, it changes nothing.                 *)
Hear(s) ==
  LET q == QueueOf[s[1]] IN
  /\ Alive(q) /\ current[q] = s[1] /\ s[2] <= dispatched[s[1]] /\ heard[s] < Deliveries
  /\ heard' = [heard EXCEPT ![s] = @ + 1]
  /\ settled' = [settled EXCEPT ![s[1]] = dispatched[s[1]]]
  /\ Become(q, Enqueued(queue[q], [step |-> s, done |-> TRUE]))
  /\ UNCHANGED <<current, dispatched, ledger, owed>>

(* flush with close, by dispose or on server.instance.disposed: it waits   *)
(* at most two seconds for the runner, and nothing is accepted any more.   *)
Close(q) ==
  /\ q \in MayEnd /\ Alive(q) /\ ~queue[q].closed
  /\ Become(q, [queue[q] EXCEPT !.closed = TRUE])
  /\ UNCHANGED <<host, ledger, owed>>

Crash(q) ==
  /\ q \in MayEnd /\ Alive(q)
  /\ Become(q, [NewQueue EXCEPT !.pc = "dead"])
  /\ UNCHANGED <<host, ledger, owed>>

(* Ninety days pass for the rows that are there; no runner takes so long.  *)
Age ==
  LET rows == ToSet(ledger.observations) \cup ToSet(ledger.pending) IN
  /\ \A q \in Queue : queue[q].pc \in {"idle", "dead"}
  /\ rows # ledger.old
  /\ ledger' = [ledger EXCEPT !.old = rows]
  /\ UNCHANGED <<host, queue, owed>>

Run(q) == Start(q) \/ Record(q) \/ Settle(q) \/ Persist(q) \/ Finish(q)

Next ==
  \/ \E q \in Queue : Run(q) \/ Close(q) \/ Crash(q) \/ Leave(q)
  \/ \E m \in Message : Route(m) \/ Dispatch(m)
  \/ \E s \in Step : Hear(s)
  \/ Age

Spec == Init /\ [][Next]_vars

-----------------------------------------------------------------------------
(* Properties.                                                             *)

(* The sum of the counts n of the queues in S: how many units they are.    *)
Total(S, n) == Cardinality(UNION {{q} \X (1..n[q]) : q \in S})

(* readUsageAttribution in a process whose own queues are Own: the failures *)
(* it reports, which a prune leaves alone, and whether it calls the record *)
(* partial.                                                                *)
FailedCount(Own) ==
  ledger.failed
    + Total(Own, [q \in Own |-> More(ledger.sessions[q].failed, queue[q].failed)])

Partial(Own) ==
  \/ Total(Own, [q \in Own |-> queue[q].pendingCount]) > 0
  \/ Total(Own, [q \in Own |-> More(ledger.sessions[q].dropped, queue[q].dropped)]) > 0
  \/ FailedCount(Own) > 0
  \/ LET store == Pruned(ledger) IN store.truncated \/ store.pending # <<>>

(* Whoever reads, and whatever was saved, retried or lost in between, each *)
(* failure of a queue the reader can see is counted once, and of other     *)
(* queues once what was saved.                                             *)
FailuresAreCountedOnce ==
  \A Own \in SUBSET {q \in Queue : Alive(q)} :
    FailedCount(Own) =
      Total(Queue, [q \in Queue |-> IF q \in Own THEN queue[q].failed
                                    ELSE ledger.sessions[q].failed])

(* A ledger that does not call itself partial has an observation of every  *)
(* step that the reader's instance dispatched, whether its completion was  *)
(* told, told too late or never told.  The one exception is a step that    *)
(* was not heard of and that was dispatched before a completion of its     *)
(* message was: that completion takes the message's one pending row.       *)
CompleteMeansRecorded ==
  \A q \in Queue : Alive(q) /\ ~Partial({q}) =>
    \A m \in Message : QueueOf[m] = q =>
      \A n \in 1..dispatched[m] :
        heard[<<m, n>>] > 0 \/ n > settled[m] => <<m, n>> \in ToSet(ledger.observations)

(* A row that entered the ledger is in it, was replaced by the completion  *)
(* it was waiting for, or is counted as dropped.                           *)
RowsAreAccountedFor ==
  owed = Len(ledger.observations) + Len(ledger.pending)
           + ledger.dropped - Total(Queue, [q \in Queue |-> ledger.sessions[q].dropped])

(* What flush reports as complete: nothing is outstanding, and what was    *)
(* dropped is saved, unless saving failed or the work came after the close.*)
IdleIsSaved ==
  \A q \in Queue : queue[q].pc = "idle" =>
    /\ queue[q].tasks = <<>> /\ queue[q].pendingCount = 0
    /\ ~queue[q].closed /\ ledger.sessions[q].failed = queue[q].failed =>
         ledger.sessions[q].dropped = queue[q].dropped
=============================================================================
