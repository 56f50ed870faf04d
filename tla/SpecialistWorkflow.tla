------------------------- MODULE SpecialistWorkflow -------------------------
(***************************************************************************)
(* The plugin's bookkeeping of delegated work in one router session        *)
(* (createMediaRoutingHooks in src/opencode/plugin-runtime.js): which child *)
(* session did the work, whether it was reviewed, and which message may    *)
(* use the one-shot authority to repair it on its original route.          *)
(*                                                                         *)
(* OpenCode is the environment.  It runs the router's task calls, prompts  *)
(* their child sessions, tells of finished replies by events that nobody   *)
(* waits for, and acknowledges a background task at any time after it was  *)
(* accepted, also before its child was prompted.  A session runs one       *)
(* prompt at a time.  One action is what a hook does between two awaits.   *)
(*                                                                         *)
(* Abstractions.  A task call prompts its child once, so the call's name   *)
(* stands for the child's message, for the operation of the call, and for  *)
(* the identity of the repair and of the assignment objects that it makes. *)
(* A workflow object is the number of the router's turn.  A model stands   *)
(* for a model with its connection binding; that policy or inventory do    *)
(* not allow it is one of the ways to fail.  Outside this module: media    *)
(* turns, slash commands, usage attribution.                               *)
(***************************************************************************)
EXTENDS Naturals, FiniteSets

CONSTANTS
  Calls,         (* bound on the task calls of the router                  *)
  Other,         (* messages to child sessions that are no calls of it     *)
  Child,         (* child sessions                                         *)
  Model,         (* routes a code worker can be given                      *)
  None,
  Limit,         (* maxFallbacksPerAssignment                              *)
  MaxTurn,       (* bound on the router's user turns                       *)
  Host           (* what the host may do, one record for each kind of host:*)
                 (* calls, turns: bounds on the task calls that the router *)
                 (*   issues, and on its further user turns;               *)
                 (* parallel: it issues a call before the last one has     *)
                 (*   returned, or resumes a child that is still at work;  *)
                 (* background: a task call may run in the background,     *)
                 (* resume: also one that resumes a child session;         *)
                 (* others: the messages Other come; pins: the pin changes;*)
                 (* deletes: sessions are deleted                          *)

Call == 1..Calls    (* in the order in which the router issues them *)
Message == Call \cup Other

ASSUME WorkflowAssumption ==
  /\ Calls \in Nat /\ Call \cap Other = {} /\ None \notin Message \cup Child \cup Model
  /\ Limit \in {0, 1} /\ MaxTurn \in Nat
  /\ Host \subseteq [calls : 0..Calls, turns : 0..MaxTurn, parallel : BOOLEAN,
                     background : BOOLEAN, resume : BOOLEAN, others : BOOLEAN,
                     pins : BOOLEAN, deletes : BOOLEAN]

Gone == MaxTurn + 1    (* the turn of a router whose session was deleted *)

VARIABLES
  host,       (* the kind of host, chosen once                             *)
  turn,       (* the workflow object of the router session, or Gone        *)
  deleted,    (* child sessions that were deleted                          *)
  workflow,   (* its worker, reviewed and repairs                          *)
  routes,     (* child -> the message that is bound to a route there       *)
  children,   (* child -> the assignment it last completed                 *)
  retained,   (* child -> the repair that its next message may take        *)
  repair,     (* the repair objects, by the call they were granted to      *)
  pending,    (* calls accepted and not acknowledged                       *)
  background, (* child -> the call acknowledged before it was complete     *)
  completed,  (* child -> the message whose completion was heard of        *)
  msg,        (* the calls and messages, as the host and the hooks see them*)
  events,     (* messages whose completion event is under way              *)
  pin         (* the saved assignment of the code worker                   *)

plugin == <<workflow, routes, children, retained, repair, pending, background, completed>>
vars == <<host, turn, deleted, plugin, msg, events, pin>>

-----------------------------------------------------------------------------

Agent == {"worker", "reviewer", "none"}
Assignment == [by : Call, message : Message, child : Child, model : Model]
RouteOf == [message : Message, agent : Agent, repair : Call \cup {None}, model : Model]
Repair == [child : Child, turn : 0..MaxTurn, active : BOOLEAN, message : Message \cup {None},
           model : Model, worked : Message]
Unused == [pc |-> "new", agent |-> "none", child |-> None, resume |-> FALSE,
           background |-> FALSE, turn |-> 0, target |-> None, grant |-> None,
           model |-> None]

ASSUME NoneAssumption == None \notin Assignment \cup RouteOf \cup Repair

Goto(m, pc) == msg' = [msg EXCEPT ![m].pc = pc]
InSession == {"route", "run", "reply"}
InFlight(k) == msg[k].pc \in {"before", "grant"} \/ (k \in pending /\ msg[k].pc # "failed")

TypeOK ==
  /\ host \in Host
  /\ turn \in 0..Gone /\ deleted \subseteq Child
  /\ workflow \in [worker : Assignment \cup {None}, reviewed : Assignment \cup {None},
                   repairs : Nat]
  /\ routes \in [Child -> RouteOf \cup {None}]
  /\ children \in [Child -> Assignment \cup {None}]
  /\ retained \in [Child -> Call \cup {None}]
  /\ repair \in [Call -> Repair \cup {None}]
  /\ pending \subseteq Call /\ background \in [Child -> Call \cup {None}]
  /\ completed \in [Child -> Message \cup {None}] /\ events \subseteq Message
  /\ msg \in [Message ->
       [pc : {"new", "before", "grant", "prompt", "route", "run", "reply", "replied",
              "done", "failed"},
        agent : Agent, child : Child \cup {None}, resume : BOOLEAN, background : BOOLEAN,
        turn : 0..Gone, target : Assignment \cup {None}, grant : Call \cup {None},
        model : Model \cup {None}]]
  /\ pin \in Model
  /\ \A c \in Child : retained[c] # None => repair[retained[c]] # None
  /\ \A m \in Message : msg[m].grant # None => repair[msg[m].grant] # None

Init ==
  /\ host \in Host
  /\ turn = 0 /\ deleted = {}
  /\ workflow = [worker |-> None, reviewed |-> None, repairs |-> 0]
  /\ routes = [c \in Child |-> None] /\ children = [c \in Child |-> None]
  /\ retained = [c \in Child |-> None] /\ repair = [k \in Call |-> None]
  /\ pending = {} /\ background = [c \in Child |-> None]
  /\ completed = [c \in Child |-> None]
  /\ msg = [m \in Message |-> Unused] /\ events = {}
  /\ pin \in Model

-----------------------------------------------------------------------------
(* Completion of a child's work.                                           *)

Deactivated(granted, k) ==
  IF k = None \/ granted[k] = None THEN granted ELSE [granted EXCEPT ![k].active = FALSE]

(* completeChild: `done` is the call whose child has finished; `granted`   *)
(* is what has become of the repair objects before.                        *)
CompleteChild(done, c, granted) ==
  LET route == routes[c]
      op == msg[done]
      valid == route # None /\ route.agent = op.agent /\ op.turn = turn /\ turn # Gone
      assignment == [by |-> done, message |-> route.message, child |-> c,
                     model |-> route.model]
  IN IF ~valid THEN repair' = granted /\ UNCHANGED <<workflow, children, retained>>
     ELSE
       /\ repair' = Deactivated(granted, done)
       /\ retained' = IF repair[done] # None /\ retained[c] = done
                      THEN [retained EXCEPT ![c] = None] ELSE retained
       /\ children' = IF op.agent = "worker"
                      THEN [children EXCEPT ![c] = assignment] ELSE children
       /\ workflow' =
            CASE op.agent = "worker" ->
                   [workflow EXCEPT !.worker = assignment, !.reviewed = None]
              [] op.agent = "reviewer" /\ op.target # None /\ op.target = workflow.worker ->
                   [workflow EXCEPT !.reviewed = op.target]
              [] OTHER -> workflow

-----------------------------------------------------------------------------
(* tool.execute.before of a task call of the router.                       *)

Fresh(c) == \A m \in Message : msg[m].child # c
Settled(c) == \A m \in Message : msg[m].child = c => msg[m].pc \notin {"prompt"} \cup InSession
Known(c) == c \notin deleted /\ \E k \in Call : msg[k].child = c /\ msg[k].pc # "failed" /\ ~InFlight(k)

(* Up to the await of the policy.  The task_id of a resumed child is known *)
(* from an acknowledged call; other calls get a child session of their own.*)
Begin(k) ==
  /\ turn # Gone
  /\ msg[k].pc = "new" /\ \A j \in 1..(k - 1) : msg[j].pc # "new"
  /\ k <= host.calls /\ (~host.parallel => \A j \in Call : ~InFlight(j))
  /\ \E agent \in Agent \ {"none"}, bg \in BOOLEAN, c \in {x \in Child : Fresh(x) \/ Known(x)} :
       /\ ~host.parallel => Settled(c)
       /\ bg => host.background /\ (Known(c) => host.resume)
       /\ msg' = [msg EXCEPT ![k] = [Unused EXCEPT !.pc = "before", !.agent = agent,
                    !.child = c, !.resume = Known(c), !.background = bg]]
       /\ retained' = IF Known(c) THEN [retained EXCEPT ![c] = None] ELSE retained
  /\ UNCHANGED <<host, turn, deleted, workflow, routes, children, repair, pending, background,
                 completed, events, pin>>

(* Is the call a return to the worker whose work was just reviewed?        *)
Repairable(k) ==
  LET child == children[msg[k].child] IN
  /\ msg[k].agent = "worker" /\ msg[k].resume
  /\ workflow.reviewed # None /\ workflow.reviewed = workflow.worker
  /\ workflow.worker = child

(* Mutant: the limit is compared one too late.                             *)
AcceptBeyondLimit(k) ==
  /\ msg[k].pc = "before"
  /\ LET target == IF msg[k].agent = "reviewer" \/ Repairable(k)
                   THEN workflow.worker ELSE None
         pc == CASE turn # Gone /\ ~Repairable(k) -> "prompt"
                 [] turn # Gone /\ Repairable(k) /\ workflow.repairs <= Limit -> "grant"
                 [] OTHER -> "failed"
     IN /\ msg' = [msg EXCEPT ![k].pc = pc, ![k].turn = turn, ![k].target = target]
        /\ pending' = IF pc = "prompt" THEN pending \cup {k} ELSE pending
  /\ UNCHANGED <<host, turn, deleted, workflow, routes, children, retained, repair, background,
                 completed, events, pin>>

(* Up to the await of the inventory, or to the end.  The target of a call  *)
(* is the assignment it reviews, or is to repair.                          *)
Accept(k) ==
  /\ msg[k].pc = "before"
  /\ LET target == IF msg[k].agent = "reviewer" \/ Repairable(k)
                   THEN workflow.worker ELSE None
         pc == CASE turn # Gone /\ ~Repairable(k) -> "prompt"
                 [] turn # Gone /\ Repairable(k) /\ workflow.repairs < Limit -> "grant"
                 [] OTHER -> "failed"
     IN /\ msg' = [msg EXCEPT ![k].pc = pc, ![k].turn = turn, ![k].target = target]
        /\ pending' = IF pc = "prompt" THEN pending \cup {k} ELSE pending
  /\ UNCHANGED <<host, turn, deleted, workflow, routes, children, retained, repair, background,
                 completed, events, pin>>

(* After it: the repair is granted to the next message of the child.  It   *)
(* counts in the workflow that the call began in.                          *)
Grant(k) ==
  LET c == msg[k].child
      child == msg[k].target
  IN
  /\ msg[k].pc = "grant"
  /\ repair' = [repair EXCEPT ![k] =
       [child |-> c, turn |-> msg[k].turn, active |-> TRUE, message |-> None,
        model |-> child.model, worked |-> child.message]]
  /\ retained' = [retained EXCEPT ![c] = k]
  /\ workflow' = IF msg[k].turn # turn THEN workflow
                 ELSE [workflow EXCEPT !.repairs = @ + 1, !.reviewed = None]
  /\ pending' = pending \cup {k}
  /\ Goto(k, "prompt")
  /\ UNCHANGED <<host, turn, deleted, routes, children, background, completed, events, pin>>

(* The policy cannot be read or switches delegation off, or the route of   *)
(* that assignment is not there any more.                                  *)
TaskBlocked(k) ==
  /\ msg[k].pc \in {"before", "grant"}
  /\ Goto(k, "failed")
  /\ UNCHANGED <<host, turn, deleted, plugin, events, pin>>

-----------------------------------------------------------------------------
(* tool.execute.after: the task returned, or was sent to the background.   *)

(* Mutant: an acknowledgement from the background counts as completion.    *)
AcknowledgeAsDone(k) ==
  /\ k \in pending
  /\ msg[k].background \/ msg[k].pc = "replied"
  /\ pending' = pending \ {k}
  /\ CompleteChild(k, msg[k].child, repair)
  /\ IF msg[k].pc = "replied" THEN Goto(k, "done") ELSE UNCHANGED msg
  /\ UNCHANGED <<host, turn, deleted, routes, background, completed, events, pin>>

Acknowledge(k) ==
  LET c == msg[k].child
      later == msg[k].background
                 /\ (completed[c] = None \/ routes[c] = None
                      \/ completed[c] # routes[c].message)
  IN
  /\ k \in pending
  /\ msg[k].background \/ msg[k].pc = "replied"
  /\ pending' = pending \ {k}
  /\ IF later
     THEN /\ background' = [background EXCEPT ![c] = k]
          /\ UNCHANGED <<workflow, children, retained, repair>>
     ELSE CompleteChild(k, c, repair) /\ UNCHANGED background
  /\ IF msg[k].pc = "replied" THEN Goto(k, "done") ELSE UNCHANGED msg
  /\ UNCHANGED <<host, turn, deleted, routes, completed, events, pin>>

-----------------------------------------------------------------------------
(* chat.message and chat.params of a child session.                        *)

(* A message to a child that is no task call of this router: the user      *)
(* writes there, or a task of another session resumes it, whose before     *)
(* hook drops a grant.                                                     *)
Intrude(m) ==
  /\ host.others /\ msg[m].pc = "new"
  /\ \E c \in {x \in Child : Known(x)}, agent \in {"worker", "none"} :
       /\ msg' = [msg EXCEPT ![m] = [Unused EXCEPT !.pc = "prompt", !.agent = agent,
                                                  !.child = c, !.resume = TRUE]]
       /\ retained' \in {retained, [retained EXCEPT ![c] = None]}
  /\ UNCHANGED <<host, turn, deleted, workflow, routes, children, repair, pending, background,
                 completed, events, pin>>

(* Mutant: the grant stays for the next message, too.                      *)
PromptPeeking(m) ==
  LET c == msg[m].child
      g == retained[c]
      authorized == /\ g # None /\ msg[m].agent = "worker"
                    /\ repair[g].active /\ repair[g].turn = turn
  IN
  /\ msg[m].pc = "prompt" /\ c \notin deleted
  /\ \A x \in Message : msg[x].child = c => msg[x].pc \notin InSession
  /\ msg' = [msg EXCEPT ![m].pc = "route", ![m].grant = IF authorized THEN g ELSE None]
  /\ UNCHANGED <<host, turn, deleted, workflow, routes, children, retained, repair, pending, background,
                 completed, events, pin>>

(* Up to the first await: the message takes the grant, if there is one.    *)
Prompt(m) ==
  LET c == msg[m].child
      g == retained[c]
      authorized == /\ g # None /\ msg[m].agent = "worker"
                    /\ repair[g].active /\ repair[g].turn = turn
  IN
  /\ msg[m].pc = "prompt" /\ c \notin deleted
  /\ \A x \in Message : msg[x].child = c => msg[x].pc \notin InSession
  /\ retained' = [retained EXCEPT ![c] = None]
  /\ IF msg[m].agent = "none"
     THEN /\ routes' = [routes EXCEPT ![c] = None]
          /\ Goto(m, "done")
     ELSE /\ msg' = [msg EXCEPT ![m].pc = "route",
                                ![m].grant = IF authorized THEN g ELSE None]
          /\ UNCHANGED routes
  /\ UNCHANGED <<host, turn, deleted, workflow, children, repair, pending, background, completed,
                 events, pin>>

(* Mutant: a repair, too, runs on the model that is pinned now.            *)
RouteByPin(m) ==
  LET c == msg[m].child
      g == msg[m].grant
  IN
  /\ msg[m].pc = "route"
  /\ routes' = [routes EXCEPT ![c] =
       [message |-> m, agent |-> msg[m].agent, repair |-> g, model |-> pin]]
  /\ completed' = [completed EXCEPT ![c] = None]
  /\ repair' = IF g = None THEN repair ELSE [repair EXCEPT ![g].message = m]
  /\ msg' = [msg EXCEPT ![m].pc = "run", ![m].model = pin]
  /\ UNCHANGED <<host, turn, deleted, workflow, children, retained, pending, background, events, pin>>

(* After the awaits of policy and inventory: the message gets its route.   *)
Route(m) ==
  LET c == msg[m].child
      g == msg[m].grant
      model == IF g = None THEN pin ELSE repair[g].model
  IN
  /\ msg[m].pc = "route"
  /\ routes' = [routes EXCEPT ![c] =
       [message |-> m, agent |-> msg[m].agent, repair |-> g, model |-> model]]
  /\ completed' = [completed EXCEPT ![c] = None]
  /\ repair' = IF g = None THEN repair ELSE [repair EXCEPT ![g].message = m]
  /\ msg' = [msg EXCEPT ![m].pc = "run", ![m].model = model]
  /\ UNCHANGED <<host, turn, deleted, workflow, children, retained, pending, background, events,
                 pin>>

(* Mutant: what was granted in an earlier turn is still in force.          *)
InForceAnyTurn(m, route) ==
  LET g == route.repair IN
  g # None /\ repair[g].active /\ repair[g].message = m

(* chat.params: the route is checked against the policy of this moment,    *)
(* or against the repair while that is in force.                           *)
InForce(m, route) ==
  LET g == route.repair IN
  g # None /\ repair[g].active /\ repair[g].message = m /\ repair[g].turn = turn

Infer(m) ==
  LET route == routes[msg[m].child] IN
  /\ msg[m].pc = "run"
  /\ route # None /\ route.message = m /\ route.agent = msg[m].agent
  /\ route.model = IF InForce(m, route) THEN repair[route.repair].model ELSE pin
  /\ Goto(m, "reply")
  /\ UNCHANGED <<host, turn, deleted, plugin, events, pin>>

(* A hook refuses the route or the inference, the model fails, the task is *)
(* aborted: there is no completion to hear of.                             *)
ChildFails(m) ==
  /\ msg[m].pc \in InSession
  /\ Goto(m, "failed")
  /\ UNCHANGED <<host, turn, deleted, plugin, events, pin>>

Reply(m) ==
  /\ msg[m].pc = "reply"
  /\ events' = events \cup {m}
  /\ Goto(m, IF m \in Other \/ (msg[m].background /\ m \notin pending)
             THEN "done" ELSE "replied")
  /\ UNCHANGED <<host, turn, deleted, plugin, pin>>

-----------------------------------------------------------------------------
(* event: message.updated of a completed reply.                            *)

Hear(m) ==
  LET c == msg[m].child
      route == routes[c]
      current == route # None /\ route.message = m
      op == background[c]
      ended == Deactivated(repair, route.repair)
  IN
  /\ m \in events /\ events' = events \ {m}
  /\ IF ~current THEN UNCHANGED plugin
     ELSE
       /\ completed' = [completed EXCEPT ![c] = m]
       /\ background' = [background EXCEPT ![c] = None]
       /\ IF op = None
          THEN repair' = ended /\ UNCHANGED <<workflow, children, retained>>
          ELSE CompleteChild(op, c, ended)
       /\ UNCHANGED <<routes, pending>>
  /\ UNCHANGED <<host, turn, deleted, msg, pin>>

-----------------------------------------------------------------------------
(* The router's user and the settings.                                     *)

(* Mutant: a new turn drops the repairs and forgets that they are retained.*)
UserTurnForgetful ==
  /\ turn < host.turns
  /\ turn' = turn + 1
  /\ workflow' = [worker |-> None, reviewed |-> None, repairs |-> 0]
  /\ repair' = [k \in Call |-> None]
  /\ UNCHANGED <<host, deleted, routes, children, retained, pending, background, completed, msg,
                 events, pin>>

(* chat.message of the router.                                             *)
UserTurn ==
  /\ turn < host.turns
  /\ turn' = turn + 1
  /\ workflow' = [worker |-> None, reviewed |-> None, repairs |-> 0]
  /\ retained' = [c \in Child |-> IF children[c] # None THEN None ELSE retained[c]]
  /\ UNCHANGED <<host, deleted, routes, children, repair, pending, background, completed, msg,
                 events, pin>>

(* session.deleted of a child.  What its prompt was doing goes on, or      *)
(* fails (ChildFails); nobody prompts it again, and a call that has yet to *)
(* gets a session of its own.                                              *)
DeleteChild(c) ==
  /\ host.deletes /\ c \notin deleted /\ ~Fresh(c)
  /\ deleted' = deleted \cup {c}
  /\ routes' = [routes EXCEPT ![c] = None] /\ children' = [children EXCEPT ![c] = None]
  /\ retained' = [retained EXCEPT ![c] = None]
  /\ background' = [background EXCEPT ![c] = None]
  /\ completed' = [completed EXCEPT ![c] = None]
  /\ UNCHANGED <<host, turn, workflow, repair, pending, msg, events, pin>>

Reopen(k) ==
  /\ msg[k].pc = "prompt" /\ msg[k].child \in deleted
  /\ \/ \E c \in {x \in Child : Fresh(x)} : msg' = [msg EXCEPT ![k].child = c]
     \/ Goto(k, "failed")
  /\ UNCHANGED <<host, turn, deleted, plugin, events, pin>>

(* session.deleted of the router: its children and their repairs go with   *)
(* it, unless they never completed anything.                               *)
DeleteRouter ==
  /\ host.deletes /\ turn # Gone /\ turn' = Gone
  /\ workflow' = [worker |-> None, reviewed |-> None, repairs |-> 0]
  /\ pending' = {}
  /\ children' = [c \in Child |-> None]
  /\ retained' = [c \in Child |-> IF children[c] # None THEN None ELSE retained[c]]
  /\ UNCHANGED <<host, deleted, routes, repair, background, completed, msg, events, pin>>

PinChanges ==
  /\ host.pins
  /\ pin' \in Model \ {pin}
  /\ UNCHANGED <<host, turn, deleted, plugin, msg, events>>

Delegate(k) == Begin(k) \/ Accept(k) \/ Grant(k) \/ TaskBlocked(k) \/ Acknowledge(k)
Converse(m) == Prompt(m) \/ Route(m) \/ Infer(m) \/ ChildFails(m) \/ Reply(m) \/ Hear(m)

Next ==
  \/ \E k \in Call : Delegate(k)
  \/ \E m \in Other : Intrude(m)
  \/ \E m \in Message : Converse(m)
  \/ \E k \in Call : Reopen(k)
  \/ \E c \in Child : DeleteChild(c)
  \/ UserTurn \/ DeleteRouter \/ PinChanges

Spec == Init /\ [][Next]_vars

-----------------------------------------------------------------------------
(* Properties.                                                             *)

Finished(m) == msg[m].pc \in {"replied", "done"}

(* A turn of a router that waits for its task calls goes through the loop  *)
(* of ReviewLoop: work, review of that work, at most Limit repairs.        *)
Loop == INSTANCE ReviewLoop WITH
  worker <- workflow.worker, reviewed <- workflow.reviewed, repairs <- workflow.repairs
Waits == ~host.parallel /\ ~host.background
RepairsFollowReviews == Loop!Init /\ [][Waits => Loop!Next]_(Loop!vars)

(* What counts as reviewed was the target of a reviewer that has finished, *)
(* and what counts as the worker's assignment is finished work             *)
(* ("background acknowledgment alone cannot authorize it"), as long as     *)
(* the child has no other message: none of the user or of another session, *)
(* and no call that is sent to the background resumes it.                  *)
Alone == ~host.others /\ ~host.parallel /\ ~host.resume
ReviewIsReal ==
  Alone =>
  /\ workflow.worker # None => Finished(workflow.worker.message)
  /\ workflow.reviewed # None => \E k \in Call :
       msg[k].agent = "reviewer" /\ msg[k].target = workflow.reviewed /\ Finished(k)

(* The authority of a repair is consumed once, whoever consumes it.        *)
GrantIsOneShot ==
  \A m, n \in Message : msg[m].grant # None /\ msg[m].grant = msg[n].grant => m = n

(* A model is called off the saved assignment only for a repair that this  *)
(* turn counts, and a repair runs on the model that did the work, whatever *)
(* is pinned, deleted or asked meanwhile (chat.params).                    *)
RepairKeepsRoute ==
  [][\A m \in Message :
       LET g == msg[m].grant IN
       msg[m].pc = "run" /\ msg'[m].pc = "reply" =>
         /\ g # None => msg[m].model = msg[repair[g].worked].model
         /\ msg[m].model # pin => g # None /\ workflow.repairs > 0]_vars

-----------------------------------------------------------------------------
(* The invariant of the proofs.                                            *)

(* What is pending or was told of has a child.                             *)
CallInv ==
  \A m \in Message :
    /\ msg[m].turn <= turn
    /\ m \in pending \cup events => msg[m].pc # "new"
    /\ msg[m].pc # "new" => msg[m].child # None

(* A call that waits for the inventory was accepted in a workflow that is, *)
(* and has no repair yet; no message takes a grant that is retained.       *)
GrantInv ==
  /\ \A k \in Call : msg[k].pc = "grant" => msg[k].target # None /\ msg[k].turn # Gone
  /\ \A k \in Call : repair[k] # None => msg[k].pc \notin {"new", "before", "grant"}
  /\ \A c \in Child : retained[c] # None => repair[retained[c]].child = c
  /\ \A c \in Child, m \in Message : retained[c] # None => msg[m].grant # retained[c]

(* The model of a message is set once, and whatever names the message has  *)
(* that model.                                                             *)
Keeps(what, message) == what # None => msg[message].model = what.model

RouteInv ==
  /\ \A m \in Message : msg[m].model # None =>
       msg[m].pc \notin {"new", "before", "grant", "prompt", "route"}
  /\ \A c \in Child :
       /\ Keeps(routes[c], routes[c].message)
       /\ routes[c] # None => msg[routes[c].message].grant = routes[c].repair
       /\ Keeps(children[c], children[c].message)
  /\ Keeps(workflow.worker, workflow.worker.message)
  /\ \A m \in Message : Keeps(msg[m].target, msg[m].target.message)

RepairInv ==
  /\ \A k \in Call :
       /\ Keeps(repair[k], repair[k].worked)
       /\ repair[k] # None =>
            repair[k].turn <= turn /\ (repair[k].turn = turn => workflow.repairs > 0)
  /\ \A m \in Message : msg[m].grant # None /\ msg[m].model # None =>
       msg[m].model = repair[msg[m].grant].model

Inv == TypeOK /\ CallInv /\ GrantInv /\ GrantIsOneShot /\ RouteInv /\ RepairInv

(* A router that waits has one call under way; its workflow is changed by  *)
(* that call only, and by a new turn.                                      *)
WaitInv ==
  Waits =>
    /\ \A c \in Child : background[c] = None
    /\ \A k \in Call : ~msg[k].background
    /\ \A j, k \in Call : InFlight(j) /\ InFlight(k) => j = k
    /\ \A k \in Call : msg[k].pc = "grant" /\ msg[k].turn = turn =>
         /\ workflow.worker # None /\ workflow.reviewed = workflow.worker
         /\ workflow.repairs < Limit
    /\ workflow.worker # None =>
         /\ workflow.worker.by \notin pending
         /\ msg[workflow.worker.by].pc \notin {"new", "before", "grant"}

(* Behind ReviewIsReal.  A child session has one message under way at a    *)
(* time, a call in the background has its child for itself until it is     *)
(* done, and a reply that somebody waits for is that of a pending call.    *)
Busy(m) ==
  msg[m].pc \in {"before", "grant", "prompt"} \cup InSession
    \/ (m \in pending /\ msg[m].pc # "failed")
Awaited(k) ==
  \/ msg[k].pc = "replied"
  \/ msg[k].pc \in {"prompt"} \cup InSession /\ ~msg[k].background

OneAtATime ==
  /\ \A m \in Message : msg[m].pc = "new" => msg[m].child = None /\ ~msg[m].background
  /\ \A m \in Other : msg[m].pc = "new"
  /\ \A k \in Call : msg[k].pc # "new" => msg[k].agent # "none"
  /\ \A j, k \in Call :
       msg[k].background /\ msg[k].pc # "done" /\ msg[j].child = msg[k].child => j = k
  /\ \A j, k \in Call : Busy(j) /\ Busy(k) /\ msg[j].child = msg[k].child => j = k
  /\ \A k \in Call : turn # Gone /\ Awaited(k) => k \in pending

(* What the plugin knows of a child is about a message of that child: its  *)
(* route about the last one that was routed, which is the pending call's   *)
(* once that is under way, its completion about one that has finished.     *)
(* What is left of a deleted child is about messages that are past it.     *)
OnItsChild ==
  /\ \A c \in Child : routes[c] # None =>
       /\ routes[c].message \in Call /\ msg[routes[c].message].child = c
       /\ msg[routes[c].message].pc \in {"run", "reply", "replied", "done", "failed"}
  /\ \A k \in pending :
       msg[k].pc \in {"run", "reply", "replied"} /\ routes[msg[k].child] # None =>
         routes[msg[k].child].message = k
  /\ \A m \in events : Finished(m)
  /\ \A c \in Child : completed[c] # None => Finished(completed[c])
  /\ \A c \in Child : background[c] # None =>
       /\ msg[background[c]].background
       /\ \/ msg[background[c]].child = c
          \/ /\ c \in deleted /\ routes[c] = None
             /\ \A k \in Call : msg[k].child = c => msg[k].pc # "route"
  /\ \A c \in deleted : routes[c] # None =>
       \A k \in Call : msg[k].child = c => msg[k].pc \notin {"before", "grant", "prompt"}

ReviewInv == Alone => OneAtATime /\ OnItsChild /\ ReviewIsReal
=============================================================================
