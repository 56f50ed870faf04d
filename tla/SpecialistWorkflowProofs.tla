----------------------- MODULE SpecialistWorkflowProofs -----------------------
(***************************************************************************)
(* Proofs about SpecialistWorkflow, for any calls, messages, child         *)
(* sessions, models and hosts.                                             *)
(***************************************************************************)
EXTENDS SpecialistWorkflow, TLAPS

Pc == {"new", "before", "grant", "prompt", "route", "run", "reply", "replied", "done", "failed"}
Entry == [pc : Pc, agent : Agent, child : Child \cup {None}, resume : BOOLEAN,
          background : BOOLEAN, turn : 0..Gone, target : Assignment \cup {None},
          grant : Call \cup {None}, model : Model \cup {None}]

LEMMA MessageFacts ==
  /\ Call \subseteq Message /\ None \notin Message /\ None \notin Call
  /\ None \notin Child /\ None \notin Model /\ Gone \in Nat /\ 0..MaxTurn \subseteq 0..Gone
  /\ Gone \notin 0..MaxTurn
  /\ None \notin Assignment /\ None \notin RouteOf /\ None \notin Repair
BY WorkflowAssumption, NoneAssumption DEF Message, Gone

LEMMA InvInit == Init => Inv
<1> SUFFICES ASSUME Init PROVE Inv
  OBVIOUS
<1> USE MessageFacts, WorkflowAssumption DEF Init, Unused
<1>1. msg \in [Message -> Entry]
  BY DEF Entry, Pc, Agent
<1>2. TypeOK
  BY <1>1 DEF TypeOK, Entry, Pc
<1> QED
  BY <1>2 DEF Inv, CallInv, GrantInv, GrantIsOneShot, RouteInv, RepairInv, Keeps

(* Repair objects are only deactivated.                                    *)
Alike(granted) ==
  /\ granted \in [Call -> Repair \cup {None}]
  /\ \A k \in Call :
       /\ (granted[k] = None) = (repair[k] = None)
       /\ repair[k] # None =>
            /\ granted[k].child = repair[k].child /\ granted[k].turn = repair[k].turn
            /\ granted[k].model = repair[k].model /\ granted[k].worked = repair[k].worked

LEMMA DeactivatedAlike ==
  ASSUME Inv, NEW granted, Alike(granted), NEW k \in Call \cup {None}
  PROVE  Alike(Deactivated(granted, k))
<1>1. CASE k = None \/ granted[k] = None
  BY <1>1 DEF Deactivated
<1>2. CASE k \in Call /\ granted[k] # None
  <2> DEFINE ended == [granted[k] EXCEPT !.active = FALSE]
  <2>1. granted[k] \in Repair
    BY <1>2 DEF Alike
  <2>2. /\ ended \in Repair
        /\ ended.child = granted[k].child /\ ended.turn = granted[k].turn
        /\ ended.model = granted[k].model /\ ended.worked = granted[k].worked
    BY <2>1 DEF Repair
  <2>3. Deactivated(granted, k) = [granted EXCEPT ![k] = ended]
    BY <1>2, MessageFacts DEF Deactivated
  <2> HIDE DEF ended
  <2> QED
    BY <1>2, <2>1, <2>2, <2>3, MessageFacts DEF Alike
<1> QED
  BY <1>1, <1>2

(* What completing a child's work does.                                    *)
LEMMA CompleteFacts ==
  ASSUME Inv, NEW k \in Call, NEW c \in Child, NEW granted, Alike(granted),
         CompleteChild(k, c, granted)
  PROVE  /\ Alike(repair')
         /\ workflow' \in [worker : Assignment \cup {None}, reviewed : Assignment \cup {None},
                          repairs : Nat]
         /\ children' \in [Child -> Assignment \cup {None}]
         /\ workflow'.repairs = workflow.repairs
         /\ \A d \in Child : retained'[d] \in {retained[d], None}
         /\ retained' \in [Child -> Call \cup {None}]
         /\ Keeps(workflow'.worker, workflow'.worker.message)
         /\ \A d \in Child : Keeps(children'[d], children'[d].message)
<1> USE MessageFacts
<1> DEFINE route == routes[c]
           op == msg[k]
           valid == route # None /\ route.agent = op.agent /\ op.turn = turn /\ turn # Gone
           assignment == [by |-> k, message |-> route.message, child |-> c,
                          model |-> route.model]
<1>1. CASE ~valid
  BY <1>1 DEF CompleteChild, Inv, TypeOK, RouteInv, Keeps
<1>2. CASE valid
  <2>1. route \in RouteOf /\ msg[route.message].model = route.model
    BY <1>2 DEF Inv, TypeOK, RouteInv, Keeps
  <2>2. assignment \in Assignment /\ msg[assignment.message].model = assignment.model
    BY <2>1 DEF RouteOf, Assignment
  <2>3. /\ repair' = Deactivated(granted, k)
        /\ retained' = IF repair[k] # None /\ retained[c] = k
                       THEN [retained EXCEPT ![c] = None] ELSE retained
        /\ children' = IF op.agent = "worker"
                       THEN [children EXCEPT ![c] = assignment] ELSE children
        /\ workflow' =
            CASE op.agent = "worker" ->
                   [workflow EXCEPT !.worker = assignment, !.reviewed = None]
              [] op.agent = "reviewer" /\ op.target # None /\ op.target = workflow.worker ->
                   [workflow EXCEPT !.reviewed = op.target]
              [] OTHER -> workflow
    BY <1>2, Zenon DEF CompleteChild
  <2> HIDE DEF assignment, route, valid
  <2>4. Alike(repair')
    BY <2>3, DeactivatedAlike
  <2>5. CASE op.agent = "worker"
    BY <2>2, <2>3, <2>4, <2>5 DEF Inv, TypeOK, RouteInv, Keeps
  <2>6. CASE op.agent # "worker"
    BY <2>2, <2>3, <2>4, <2>6 DEF Inv, TypeOK, RouteInv, Keeps
  <2> QED
    BY <2>5, <2>6
<1> QED
  BY <1>1, <1>2

(* A step that gives no message a grant, a route or a model.               *)
LEMMA KeepStep ==
  ASSUME Inv, TypeOK', Alike(repair'), turn <= turn',
         \A c \in Child :
           /\ retained'[c] \in {retained[c], None} /\ routes'[c] \in {routes[c], None}
           /\ Keeps(children'[c], children'[c].message),
         Keeps(workflow'.worker, workflow'.worker.message),
         \A n \in Message :
           /\ msg'[n].target = msg[n].target /\ msg'[n].grant = msg[n].grant
           /\ msg'[n].model = msg[n].model /\ msg'[n].turn = msg[n].turn
           /\ msg'[n].pc # msg[n].pc =>
                /\ msg[n].pc # "new"
                /\ msg'[n].pc \notin {"new", "before", "grant", "prompt", "route"}
           /\ msg'[n].child = msg[n].child
           /\ n \in pending' \cup events' => msg'[n].pc # "new",
         \A k \in Call : repair[k] # None /\ repair[k].turn = turn' => workflow'.repairs > 0
  PROVE  Inv'
<1> USE MessageFacts
<1>0. CallInv'
  <2>1. turn \in Nat /\ turn' \in Nat /\ \A n \in Message : msg[n].turn \in Nat
    BY DEF Inv, TypeOK, Entry
  <2>2. ASSUME NEW n \in Message PROVE msg'[n].turn <= turn'
    <3>1. msg[n].turn <= turn /\ msg'[n].turn = msg[n].turn
      BY DEF Inv, CallInv
    <3> QED
      BY <2>1, <3>1
  <2>3. ASSUME NEW n \in Message, msg'[n].pc # "new" PROVE msg'[n].child # None
    <3>1. msg[n].pc # "new"
      BY <2>3
    <3> QED
      BY <3>1 DEF Inv, CallInv
  <2> QED
    BY <2>2, <2>3 DEF CallInv
<1>1. GrantInv'
  BY DEF Inv, TypeOK, GrantInv, Alike
<1>2. GrantIsOneShot'
  BY DEF Inv, GrantIsOneShot
<1>3. RouteInv'
  BY DEF Inv, TypeOK, RouteInv, Keeps, RouteOf, Assignment
<1>4. RepairInv'
  <2>1. ASSUME NEW k \in Call, repair'[k] # None
        PROVE  /\ msg'[repair'[k].worked].model = repair'[k].model
               /\ repair'[k].turn <= turn'
               /\ repair'[k].turn = turn' => workflow'.repairs > 0
    <3>1. /\ repair[k] # None /\ repair[k] \in Repair
          /\ repair'[k].turn = repair[k].turn /\ repair'[k].model = repair[k].model
          /\ repair'[k].worked = repair[k].worked
      BY <2>1 DEF Alike, Inv, TypeOK
    <3>2. /\ repair[k].turn \in Nat /\ turn \in Nat /\ turn' \in Nat
          /\ repair[k].worked \in Message
      BY <3>1 DEF Repair, Inv, TypeOK
    <3>3. repair[k].turn <= turn /\ msg[repair[k].worked].model = repair[k].model
      BY <3>1 DEF Inv, RepairInv, Keeps
    <3> QED
      BY <3>1, <3>2, <3>3
  <2>2. ASSUME NEW m \in Message, msg'[m].grant # None, msg'[m].model # None
        PROVE  msg'[m].model = repair'[msg'[m].grant].model
    BY <2>2 DEF Inv, TypeOK, RepairInv, Alike
  <2> QED
    BY <2>1, <2>2 DEF RepairInv, Keeps
<1> QED
  BY <1>0, <1>1, <1>2, <1>3, <1>4 DEF Inv

(* A step that only takes a message further on its way.                    *)
LEMMA GotoStep ==
  ASSUME Inv, NEW m \in Message, NEW pc \in Pc \ {"new", "before", "grant", "prompt", "route"},
         Goto(m, pc), msg[m].pc # "new", events' \subseteq events \cup {m},
         UNCHANGED <<host, turn, deleted, plugin, pin>>
  PROVE  Inv'
<1> USE MessageFacts DEF Goto, plugin
<1>1. msg' \in [Message -> Entry]
  <2>1. msg \in [Message -> Entry]
    BY DEF Inv, TypeOK, Entry, Pc
  <2> QED
    BY <2>1 DEF Entry
<1>2. \A n \in Message :
        /\ msg'[n].target = msg[n].target /\ msg'[n].grant = msg[n].grant
        /\ msg'[n].model = msg[n].model /\ msg'[n].turn = msg[n].turn
        /\ msg'[n].child = msg[n].child
        /\ msg'[n].pc = IF n = m THEN pc ELSE msg[n].pc
  BY DEF Inv, TypeOK, Entry
<1>3. TypeOK'
  BY <1>1, <1>2 DEF Inv, TypeOK, Entry, Pc
<1>4. Alike(repair')
  BY DEF Inv, TypeOK, Alike
<1>5. turn \in Nat /\ turn <= turn'
  BY DEF Inv, TypeOK
<1>6. ASSUME NEW c \in Child
      PROVE  /\ retained'[c] \in {retained[c], None} /\ routes'[c] \in {routes[c], None}
             /\ Keeps(children'[c], children'[c].message)
  BY DEF Inv, RouteInv
<1>7. Keeps(workflow'.worker, workflow'.worker.message)
  BY DEF Inv, RouteInv
<1>8. \A n \in Message : n \in pending' \cup events' => msg'[n].pc # "new"
  BY <1>2 DEF Inv, CallInv
<1>9. \A k \in Call : repair[k] # None /\ repair[k].turn = turn' => workflow'.repairs > 0
  BY DEF Inv, RepairInv
<1> HIDE DEF Goto, plugin
<1> QED
  BY <1>2, <1>3, <1>4, <1>5, <1>6, <1>7, <1>8, <1>9, KeepStep DEF Pc

LEMMA BlockedStep == ASSUME Inv, NEW k \in Call, TaskBlocked(k) PROVE Inv'
BY MessageFacts, GotoStep DEF TaskBlocked, Pc, Inv, TypeOK

LEMMA InferStep == ASSUME Inv, NEW m \in Message, Infer(m) PROVE Inv'
BY GotoStep DEF Infer, Pc, Inv, TypeOK

LEMMA FailStep == ASSUME Inv, NEW m \in Message, ChildFails(m) PROVE Inv'
BY GotoStep DEF ChildFails, InSession, Pc, Inv, TypeOK

LEMMA ReplyStep == ASSUME Inv, NEW m \in Message, Reply(m) PROVE Inv'
<1>1. events' \subseteq events \cup {m}
  BY DEF Reply
<1>2. CASE m \in Other \/ (msg[m].background /\ m \notin pending)
  BY <1>1, <1>2, GotoStep DEF Reply, Pc
<1>3. CASE ~(m \in Other \/ (msg[m].background /\ m \notin pending))
  BY <1>1, <1>3, GotoStep DEF Reply, Pc
<1> QED
  BY <1>2, <1>3

LEMMA AcknowledgeStep == ASSUME Inv, NEW k \in Call, Acknowledge(k) PROVE Inv'
<1> USE MessageFacts
<1> DEFINE c == msg[k].child
<1>1. /\ UNCHANGED <<host, turn, deleted, routes, completed, events, pin>>
      /\ pending' = pending \ {k}
      /\ \/ /\ background' = [background EXCEPT ![c] = k]
            /\ UNCHANGED <<workflow, children, retained, repair>>
         \/ CompleteChild(k, c, repair) /\ UNCHANGED background
      /\ msg' = [msg EXCEPT ![k].pc = "done"] \/ msg' = msg
  BY DEF Acknowledge, Goto
<1>2. /\ msg' \in [Message -> Entry]
      /\ \A n \in Message :
           /\ msg'[n].target = msg[n].target /\ msg'[n].grant = msg[n].grant
           /\ msg'[n].model = msg[n].model /\ msg'[n].turn = msg[n].turn
           /\ msg'[n].child = msg[n].child
           /\ msg'[n].pc = msg[n].pc \/ (n = k /\ msg'[n].pc = "done")
  <2>1. msg \in [Message -> Entry]
    BY DEF Inv, TypeOK, Entry, Pc
  <2>2. CASE msg' = [msg EXCEPT ![k].pc = "done"]
    BY <2>1, <2>2 DEF Entry, Pc
  <2> QED
    BY <1>1, <2>1, <2>2
<1>3. Alike(repair)
  BY DEF Inv, TypeOK, Alike
<1>4. k \in pending /\ c \in Child
  BY DEF Acknowledge, Inv, TypeOK, CallInv
<1>5. /\ Alike(repair') /\ workflow'.repairs = workflow.repairs
      /\ workflow' \in [worker : Assignment \cup {None}, reviewed : Assignment \cup {None},
                       repairs : Nat]
      /\ children' \in [Child -> Assignment \cup {None}]
      /\ retained' \in [Child -> Call \cup {None}]
      /\ \A d \in Child : /\ retained'[d] \in {retained[d], None}
                          /\ Keeps(children'[d], children'[d].message)
      /\ Keeps(workflow'.worker, workflow'.worker.message)
  <2>1. CASE CompleteChild(k, c, repair) /\ c \in Child
    BY <1>3, <2>1, CompleteFacts
  <2>2. CASE UNCHANGED <<workflow, children, retained, repair>>
    BY <1>3, <2>2 DEF Inv, TypeOK, RouteInv
  <2> QED
    BY <1>1, <1>4, <2>1, <2>2
<1>6. TypeOK'
  BY <1>1, <1>2, <1>5 DEF Inv, TypeOK, Entry, Pc, GrantInv, Alike
<1>7. \A n \in Message :
        /\ msg'[n].pc # msg[n].pc =>
             /\ msg[n].pc # "new"
             /\ msg'[n].pc \notin {"new", "before", "grant", "prompt", "route"}
        /\ n \in pending' \cup events' => msg'[n].pc # "new"
  BY <1>1, <1>2, <1>4 DEF Inv, CallInv
<1>8. turn <= turn' /\ \A k2 \in Call :
        repair[k2] # None /\ repair[k2].turn = turn' => workflow'.repairs > 0
  BY <1>1, <1>5 DEF Inv, TypeOK, RepairInv
<1> QED
  BY <1>1, <1>2, <1>5, <1>6, <1>7, <1>8, KeepStep

LEMMA HearStep == ASSUME Inv, NEW m \in Message, Hear(m) PROVE Inv'
<1> USE MessageFacts
<1> DEFINE c == msg[m].child
           route == routes[c]
           op == background[c]
           ended == Deactivated(repair, route.repair)
<1>1. /\ UNCHANGED <<host, turn, deleted, msg, pin>> /\ events' = events \ {m}
      /\ c \in Child
  BY DEF Hear, Inv, TypeOK, CallInv
<1>2. Alike(repair)
  BY DEF Inv, TypeOK, Alike
<1>3. CASE ~(route # None /\ route.message = m)
  <2>1. UNCHANGED plugin
    BY <1>3 DEF Hear
  <2>2. TypeOK'
    BY <1>1, <2>1 DEF plugin, Inv, TypeOK
  <2>3. /\ turn \in Nat /\ turn' = turn /\ msg' = msg /\ repair' = repair
        /\ children' = children /\ routes' = routes /\ retained' = retained
        /\ workflow' = workflow /\ pending' = pending /\ events' \subseteq events
    BY <1>1, <2>1 DEF plugin, Inv, TypeOK
  <2>4. /\ \A d \in Child : Keeps(children[d], children[d].message)
        /\ Keeps(workflow.worker, workflow.worker.message)
    BY DEF Inv, RouteInv
  <2>5. \A n \in Message : n \in pending' \cup events' => msg'[n].pc # "new"
    BY <2>3 DEF Inv, CallInv
  <2>6. \A k \in Call : repair[k] # None /\ repair[k].turn = turn' => workflow'.repairs > 0
    BY <2>3 DEF Inv, RepairInv
  <2> QED
    BY <1>2, <2>2, <2>3, <2>4, <2>5, <2>6, KeepStep
<1>4. CASE route # None /\ route.message = m
  <2>1. /\ completed' = [completed EXCEPT ![c] = m]
        /\ background' = [background EXCEPT ![c] = None]
        /\ IF op = None
           THEN repair' = ended /\ UNCHANGED <<workflow, children, retained>>
           ELSE CompleteChild(op, c, ended)
        /\ UNCHANGED <<routes, pending>>
    BY <1>4 DEF Hear
  <2>2. route.repair \in Call \cup {None} /\ op \in Call \cup {None}
    BY <1>1, <1>4 DEF Inv, TypeOK, RouteOf
  <2>3. Alike(ended)
    BY <1>2, <2>2, DeactivatedAlike
  <2> HIDE DEF ended, op, route
  <2>4. /\ Alike(repair') /\ workflow'.repairs = workflow.repairs
        /\ workflow' \in [worker : Assignment \cup {None}, reviewed : Assignment \cup {None},
                         repairs : Nat]
        /\ children' \in [Child -> Assignment \cup {None}]
        /\ retained' \in [Child -> Call \cup {None}]
        /\ \A d \in Child : /\ retained'[d] \in {retained[d], None}
                            /\ Keeps(children'[d], children'[d].message)
        /\ Keeps(workflow'.worker, workflow'.worker.message)
    <3>1. CASE op = None
      BY <2>1, <2>3, <3>1 DEF Inv, TypeOK, RouteInv
    <3>2. CASE op # None
      BY <1>1, <2>1, <2>2, <2>3, <3>2, CompleteFacts
    <3> QED
      BY <3>1, <3>2
  <2>5. TypeOK'
    <3>1. completed' \in [Child -> Message \cup {None}] /\ background' \in [Child -> Call \cup {None}]
      BY <1>1, <2>1 DEF Inv, TypeOK
    <3>2. /\ \A d \in Child : retained'[d] # None => repair'[retained'[d]] # None
          /\ \A n \in Message : msg'[n].grant # None => repair'[msg'[n].grant] # None
      BY <1>1, <2>4 DEF Inv, TypeOK, Alike
    <3> QED
      BY <1>1, <2>1, <2>4, <3>1, <3>2 DEF Inv, TypeOK, Alike
  <2> QED
    BY <1>1, <2>1, <2>4, <2>5, KeepStep DEF Inv, TypeOK, CallInv, RepairInv
<1> QED
  BY <1>3, <1>4

LEMMA UserTurnStep == ASSUME Inv, UserTurn PROVE Inv'
<1> USE MessageFacts
<1>1. turn \in 0..MaxTurn /\ turn' = turn + 1 /\ turn' \in 0..Gone /\ turn < turn'
  BY WorkflowAssumption DEF UserTurn, Inv, TypeOK, Gone
<1>2. Alike(repair')
  BY DEF UserTurn, Inv, TypeOK, Alike
<1>3. \A k \in Call : repair[k] # None => repair[k].turn # turn'
  <2>1. \A k \in Call : repair[k] # None => repair[k].turn \in Nat /\ repair[k].turn <= turn
    BY DEF Inv, TypeOK, Repair, RepairInv
  <2> QED
    BY <1>1, <2>1
<1>4. TypeOK'
  BY <1>1 DEF UserTurn, Inv, TypeOK
<1>5. \A c \in Child : retained'[c] \in {retained[c], None}
  BY DEF UserTurn
<1>6. turn <= turn'
  BY <1>1
<1> QED
  BY <1>2, <1>3, <1>4, <1>5, <1>6, KeepStep DEF UserTurn, Inv, TypeOK, CallInv, RouteInv, Keeps

LEMMA DeleteRouterStep == ASSUME Inv, DeleteRouter PROVE Inv'
<1> USE MessageFacts
<1>1. turn' = Gone /\ turn <= turn'
  BY DEF DeleteRouter, Inv, TypeOK
<1>2. Alike(repair')
  BY DEF DeleteRouter, Inv, TypeOK, Alike
<1>3. \A k \in Call : repair[k] # None => repair[k].turn # turn'
  BY <1>1 DEF Inv, TypeOK, Repair
<1>4. TypeOK'
  BY <1>1 DEF DeleteRouter, Inv, TypeOK
<1>5. \A c \in Child : retained'[c] \in {retained[c], None}
  BY DEF DeleteRouter
<1> QED
  BY <1>1, <1>2, <1>3, <1>4, <1>5, KeepStep DEF DeleteRouter, Inv, TypeOK, CallInv, RouteInv, Keeps

LEMMA DeleteChildStep == ASSUME Inv, NEW c \in Child, DeleteChild(c) PROVE Inv'
<1> USE MessageFacts
<1>1. Alike(repair')
  BY DEF DeleteChild, Inv, TypeOK, Alike
<1>2. TypeOK'
  BY DEF DeleteChild, Inv, TypeOK
<1>3. \A d \in Child :
        /\ retained'[d] \in {retained[d], None} /\ routes'[d] \in {routes[d], None}
        /\ Keeps(children'[d], children'[d].message)
  BY DEF DeleteChild, Inv, TypeOK, RouteInv, Keeps
<1>4. turn <= turn' /\ UNCHANGED <<turn, workflow, msg, events, pending>>
  BY DEF DeleteChild, Inv, TypeOK
<1> QED
  BY <1>1, <1>2, <1>3, <1>4, KeepStep DEF Inv, CallInv, RouteInv, RepairInv

LEMMA PinStep == ASSUME Inv, PinChanges PROVE Inv'
<1>1. Alike(repair')
  BY DEF PinChanges, plugin, Inv, TypeOK, Alike
<1>2. TypeOK'
  BY DEF PinChanges, plugin, Inv, TypeOK
<1>3. turn <= turn' /\ UNCHANGED <<turn, plugin, msg, events>>
  BY MessageFacts DEF PinChanges, Inv, TypeOK
<1> QED
  BY <1>1, <1>2, <1>3, KeepStep DEF plugin, Inv, CallInv, RouteInv, RepairInv

(* What names a message names one that has a model.                        *)
LEMMA NamedFacts ==
  ASSUME Inv
  PROVE  /\ \A c \in Child :
              /\ routes[c] # None =>
                   routes[c].message \in Message /\ msg[routes[c].message].model # None
              /\ children[c] # None =>
                   children[c].message \in Message /\ msg[children[c].message].model # None
         /\ workflow.worker # None =>
              /\ workflow.worker.message \in Message
              /\ msg[workflow.worker.message].model # None
         /\ \A m \in Message : msg[m].target # None =>
              /\ msg[m].target.message \in Message
              /\ msg[msg[m].target.message].model # None
         /\ \A k \in Call : repair[k] # None =>
              repair[k].worked \in Message /\ msg[repair[k].worked].model # None
<1> USE MessageFacts
<1>1. \A c \in Child : routes[c] # None =>
        routes[c].message \in Message /\ msg[routes[c].message].model # None
  BY DEF Inv, TypeOK, RouteOf, RouteInv, Keeps
<1>2. \A c \in Child : children[c] # None =>
        children[c].message \in Message /\ msg[children[c].message].model # None
  BY DEF Inv, TypeOK, Assignment, RouteInv, Keeps
<1>3. workflow.worker # None =>
        /\ workflow.worker.message \in Message
        /\ msg[workflow.worker.message].model # None
  BY DEF Inv, TypeOK, Assignment, RouteInv, Keeps
<1>4. \A m \in Message : msg[m].target # None =>
        /\ msg[m].target.message \in Message /\ msg[msg[m].target.message].model # None
  BY DEF Inv, TypeOK, Assignment, RouteInv, Keeps
<1>5. \A k \in Call : repair[k] # None =>
        repair[k].worked \in Message /\ msg[repair[k].worked].model # None
  BY DEF Inv, TypeOK, Repair, RepairInv, Keeps
<1> QED
  BY <1>1, <1>2, <1>3, <1>4, <1>5

(* A step that changes one message, which has no model.                    *)
LEMMA FreshStep ==
  ASSUME Inv, NEW m \in Message, msg[m].model = None, msg'[m].model = None,
         \A n \in Message \ {m} : msg'[n] = msg[n],
         msg'[m].target \in {None, msg[m].target, workflow.worker},
         UNCHANGED children, workflow'.worker = workflow.worker,
         \A c \in Child : routes'[c] \in {routes[c], None}
  PROVE  RouteInv'
<1>1. \A n \in Message : msg[n].model # None => n # m /\ msg'[n] = msg[n]
  OBVIOUS
<1>2. \A n \in Message : msg'[n].model # None =>
        msg'[n].pc \notin {"new", "before", "grant", "prompt", "route"}
  <2> TAKE n \in Message
  <2>1. CASE n = m
    BY <2>1
  <2>2. CASE n # m
    BY <2>2 DEF Inv, RouteInv
  <2> QED
    BY <2>1, <2>2
<1>3. ASSUME NEW c \in Child
      PROVE  /\ (routes'[c] # None => msg'[routes'[c].message].model = routes'[c].model)
             /\ routes'[c] # None => msg'[routes'[c].message].grant = routes'[c].repair
             /\ (children'[c] # None => msg'[children'[c].message].model = children'[c].model)
  BY <1>1, NamedFacts DEF Inv, RouteInv, Keeps
<1>4. workflow'.worker # None =>
        msg'[workflow'.worker.message].model = workflow'.worker.model
  BY <1>1, NamedFacts DEF Inv, RouteInv, Keeps
<1>5. ASSUME NEW n \in Message 
      PROVE  msg'[n].target # None => msg'[msg'[n].target.message].model = msg'[n].target.model
  BY <1>1, NamedFacts DEF Inv, RouteInv, Keeps
<1> QED
  BY <1>2, <1>3, <1>4, <1>5 DEF RouteInv, Keeps

LEMMA FreshRepair ==
  ASSUME Inv, NEW m \in Message, msg[m].model = None, msg'[m].model = None,
         \A n \in Message \ {m} : msg'[n] = msg[n],
         UNCHANGED <<repair, turn>>, workflow'.repairs = workflow.repairs
  PROVE  RepairInv'
<1>1. \A n \in Message : msg[n].model # None => msg'[n] = msg[n]
  OBVIOUS
<1>2. ASSUME NEW k \in Call
      PROVE  /\ repair'[k] # None => msg'[repair'[k].worked].model = repair'[k].model
             /\ repair'[k] # None =>
                  /\ repair'[k].turn <= turn'
                  /\ repair'[k].turn = turn' => workflow'.repairs > 0
  BY <1>1, NamedFacts DEF Inv, RepairInv, Keeps
<1>3. ASSUME NEW n \in Message, msg'[n].grant # None, msg'[n].model # None
      PROVE  msg'[n].model = repair'[msg'[n].grant].model
  <2>1. n # m /\ msg'[n] = msg[n]
    BY <1>3
  <2> QED
    BY <1>3, <2>1 DEF Inv, RepairInv
<1> QED
  BY <1>2, <1>3 DEF RepairInv, Keeps

LEMMA BeginStep == ASSUME Inv, NEW k \in Call, Begin(k) PROVE Inv'
<1> USE MessageFacts
<1>1. PICK agent \in Agent, bg \in BOOLEAN, c \in Child, resume \in BOOLEAN :
        /\ msg' = [msg EXCEPT ![k] = [Unused EXCEPT !.pc = "before", !.agent = agent,
                     !.child = c, !.resume = resume, !.background = bg]]
        /\ retained' = [retained EXCEPT ![c] = None] \/ retained' = retained
  <2>1. PICK agent \in Agent, bg \in BOOLEAN, c \in Child :
          /\ msg' = [msg EXCEPT ![k] = [Unused EXCEPT !.pc = "before", !.agent = agent,
                       !.child = c, !.resume = Known(c), !.background = bg]]
          /\ retained' = IF Known(c) THEN [retained EXCEPT ![c] = None] ELSE retained
    BY DEF Begin
  <2>2. Known(c) \in BOOLEAN
    BY DEF Known
  <2>3. retained' = [retained EXCEPT ![c] = None] \/ retained' = retained
    BY <2>1
  <2> QED
    BY <2>1, <2>2, <2>3, Zenon
<1>3. /\ msg[k].pc = "new" /\ msg[k].model = None /\ k \notin pending /\ k \notin events
      /\ repair[k] = None
  <2>1. msg[k].pc = "new"
    BY DEF Begin
  <2> QED
    BY <2>1 DEF Inv, CallInv, RouteInv, GrantInv
<1>4. UNCHANGED <<host, turn, deleted, workflow, routes, children, repair, pending, background,
                 completed, events, pin>>
  BY DEF Begin
<1>5. msg' \in [Message -> Entry]
  <2>1. msg \in [Message -> Entry]
    BY DEF Inv, TypeOK, Entry, Pc
  <2>2. Unused \in Entry
    BY DEF Unused, Entry, Pc, Agent
  <2>3. [Unused EXCEPT !.pc = "before", !.agent = agent, !.child = c, !.resume = resume,
                       !.background = bg] \in Entry
    BY <2>2 DEF Entry, Pc
  <2> QED
    BY <1>1, <2>1, <2>3
<1>6. /\ msg'[k].pc = "before" /\ msg'[k].child = c /\ msg'[k].turn = 0
      /\ msg'[k].grant = None /\ msg'[k].model = None /\ msg'[k].target = None
      /\ \A n \in Message \ {k} : msg'[n] = msg[n]
  <2>1. msg \in [Message -> Entry]
    BY DEF Inv, TypeOK, Entry, Pc
  <2> QED
    BY <1>1, <2>1 DEF Unused, Entry
<1>7. /\ retained' \in [Child -> Call \cup {None}]
      /\ \A d \in Child : retained'[d] \in {retained[d], None}
  BY <1>1 DEF Inv, TypeOK
<1>8. TypeOK'
  BY <1>4, <1>5, <1>6, <1>7 DEF Inv, TypeOK, Entry, Pc
<1>9. CallInv'
  BY <1>3, <1>4, <1>6 DEF Inv, TypeOK, CallInv
<1>10. GrantInv'
  <2>1. \A d \in Child, m \in Message : retained'[d] # None => msg'[m].grant # retained'[d]
    <3>1. ASSUME NEW d \in Child, NEW m \in Message, retained'[d] # None
          PROVE  msg'[m].grant # retained'[d]
      <4>1. retained'[d] = retained[d] /\ msg[m].grant # retained[d]
        BY <1>7, <3>1 DEF Inv, GrantInv
      <4> QED
        BY <1>6, <3>1, <4>1
    <3> QED
      BY <3>1
  <2>2. \A d \in Child : retained'[d] # None => repair'[retained'[d]].child = d
    BY <1>4, <1>7 DEF Inv, GrantInv
  <2>3. \A j \in Call :
          /\ msg'[j].pc = "grant" => msg'[j].target # None /\ msg'[j].turn # Gone
          /\ repair'[j] # None => msg'[j].pc \notin {"new", "before", "grant"}
    BY <1>3, <1>4, <1>6 DEF Inv, GrantInv
  <2> QED
    BY <2>1, <2>2, <2>3 DEF GrantInv
<1>11. GrantIsOneShot'
  BY <1>6 DEF Inv, GrantIsOneShot
<1>12. RouteInv'
  BY <1>3, <1>4, <1>6, FreshStep DEF Inv
<1>13. RepairInv'
  BY <1>3, <1>4, <1>6, FreshRepair
<1> QED
  BY <1>8, <1>9, <1>10, <1>11, <1>12, <1>13 DEF Inv
LEMMA EntryFacts == ASSUME Inv PROVE msg \in [Message -> Entry]
BY DEF Inv, TypeOK, Entry, Pc

LEMMA IntrudeStep == ASSUME Inv, NEW m \in Other, Intrude(m) PROVE Inv'
<1> USE MessageFacts
<1>1. PICK c \in Child, agent \in {"worker", "none"} :
        /\ msg' = [msg EXCEPT ![m] = [Unused EXCEPT !.pc = "prompt", !.agent = agent,
                                                   !.child = c, !.resume = TRUE]]
        /\ retained' \in {retained, [retained EXCEPT ![c] = None]}
  BY DEF Intrude
<1>2. /\ m \in Message /\ m \notin Call
      /\ msg[m].pc = "new" /\ msg[m].model = None /\ m \notin pending /\ m \notin events
  <2>1. m \in Message /\ m \notin Call /\ msg[m].pc = "new"
    BY WorkflowAssumption DEF Intrude, Message
  <2> QED
    BY <2>1 DEF Inv, CallInv, RouteInv
<1>3. UNCHANGED <<host, turn, deleted, workflow, routes, children, repair, pending, background,
                 completed, events, pin>>
  BY DEF Intrude
<1>4. msg' \in [Message -> Entry]
  <2>1. Unused \in Entry
    BY DEF Unused, Entry, Pc, Agent
  <2>2. [Unused EXCEPT !.pc = "prompt", !.agent = agent, !.child = c, !.resume = TRUE] \in Entry
    BY <2>1 DEF Entry, Pc, Agent
  <2> QED
    BY <1>1, <1>2, <2>2, EntryFacts
<1>5. /\ msg'[m].pc = "prompt" /\ msg'[m].child = c /\ msg'[m].turn = 0
      /\ msg'[m].grant = None /\ msg'[m].model = None /\ msg'[m].target = None
      /\ \A n \in Message \ {m} : msg'[n] = msg[n]
  BY <1>1, <1>2, EntryFacts DEF Unused, Entry
<1>6. /\ retained' \in [Child -> Call \cup {None}]
      /\ \A d \in Child : retained'[d] \in {retained[d], None}
  BY <1>1 DEF Inv, TypeOK
<1>7. TypeOK'
  BY <1>3, <1>4, <1>5, <1>6 DEF Inv, TypeOK, Entry, Pc
<1>8. CallInv'
  BY <1>2, <1>3, <1>5 DEF Inv, TypeOK, CallInv
<1>9. GrantInv'
  <2>1. ASSUME NEW d \in Child, NEW n \in Message, retained'[d] # None
        PROVE  msg'[n].grant # retained'[d]
    <3>1. retained'[d] = retained[d] /\ msg[n].grant # retained[d]
      BY <1>6, <2>1 DEF Inv, GrantInv
    <3> QED
      BY <1>5, <2>1, <3>1
  <2>2. \A d \in Child : retained'[d] # None => repair'[retained'[d]].child = d
    BY <1>3, <1>6 DEF Inv, GrantInv
  <2>3. \A k \in Call : msg'[k] = msg[k]
    BY <1>2, <1>5
  <2> QED
    BY <1>3, <2>1, <2>2, <2>3 DEF Inv, GrantInv
<1>10. GrantIsOneShot'
  BY <1>5 DEF Inv, GrantIsOneShot
<1>11. RouteInv'
  BY <1>2, <1>3, <1>5, FreshStep DEF Inv
<1>12. RepairInv'
  BY <1>2, <1>3, <1>5, FreshRepair
<1> QED
  BY <1>7, <1>8, <1>9, <1>10, <1>11, <1>12 DEF Inv

LEMMA AcceptStep == ASSUME Inv, NEW k \in Call, Accept(k) PROVE Inv'
<1> USE MessageFacts
<1>1. PICK target \in {None, workflow.worker}, pc \in {"prompt", "grant", "failed"} :
        /\ msg' = [msg EXCEPT ![k].pc = pc, ![k].turn = turn, ![k].target = target]
        /\ pc = "grant" => turn # Gone /\ target # None
        /\ pending' \in {pending, pending \cup {k}}
  <2> DEFINE target == IF msg[k].agent = "reviewer" \/ Repairable(k)
                       THEN workflow.worker ELSE None
             pc == CASE turn # Gone /\ ~Repairable(k) -> "prompt"
                     [] turn # Gone /\ Repairable(k) /\ workflow.repairs < Limit -> "grant"
                     [] OTHER -> "failed"
  <2>1. /\ msg' = [msg EXCEPT ![k].pc = pc, ![k].turn = turn, ![k].target = target]
        /\ pending' = IF pc = "prompt" THEN pending \cup {k} ELSE pending
    BY Zenon DEF Accept
  <2>2. pc \in {"prompt", "grant", "failed"} /\ target \in {None, workflow.worker}
    OBVIOUS
  <2>3. CASE turn = Gone
    <3>1. pc = "failed"
      BY <2>3, Zenon
    <3> QED
      BY <2>1, <2>2, <3>1
  <2>4. CASE turn # Gone /\ ~Repairable(k)
    <3>1. pc = "prompt"
      BY <2>4, Zenon
    <3> QED
      BY <2>1, <2>2, <3>1
  <2>5. CASE turn # Gone /\ Repairable(k)
    <3>1. target # None
      BY <2>5 DEF Repairable
    <3> QED
      BY <2>1, <2>2, <2>5, <3>1
  <2> QED
    BY <2>3, <2>4, <2>5
<1>2. /\ msg[k].pc = "before" /\ msg[k].model = None /\ repair[k] = None
  <2>1. msg[k].pc = "before"
    BY DEF Accept
  <2> QED
    BY <2>1 DEF Inv, RouteInv, GrantInv
<1>3. UNCHANGED <<host, turn, deleted, workflow, routes, children, retained, repair, background,
                 completed, events, pin>>
  BY DEF Accept
<1>4. /\ msg' \in [Message -> Entry]
      /\ msg'[k].pc = pc /\ msg'[k].turn = turn /\ msg'[k].target = target
      /\ msg'[k].child = msg[k].child /\ msg'[k].grant = msg[k].grant
      /\ msg'[k].model = msg[k].model /\ \A n \in Message \ {k} : msg'[n] = msg[n]
  <2>1. pc \in Pc /\ turn \in 0..Gone /\ target \in Assignment \cup {None}
    BY DEF Inv, TypeOK, Pc
  <2> QED
    BY <1>1, <2>1, EntryFacts DEF Entry
<1>5. TypeOK'
  BY <1>1, <1>3, <1>4 DEF Inv, TypeOK, Entry, Pc
<1>6. CallInv'
  BY <1>1, <1>2, <1>3, <1>4 DEF Inv, TypeOK, CallInv
<1>7. \A n \in Message : msg'[n].grant = msg[n].grant
  BY <1>4
<1>8. GrantInv'
  BY <1>1, <1>2, <1>3, <1>4, <1>7 DEF Inv, GrantInv
<1>9. GrantIsOneShot'
  BY <1>7 DEF Inv, GrantIsOneShot
<1>10. RouteInv'
  BY <1>2, <1>3, <1>4, FreshStep DEF Inv
<1>11. RepairInv'
  BY <1>2, <1>3, <1>4, FreshRepair
<1> QED
  BY <1>5, <1>6, <1>8, <1>9, <1>10, <1>11 DEF Inv

LEMMA ReopenStep == ASSUME Inv, NEW k \in Call, Reopen(k) PROVE Inv'
<1> USE MessageFacts
<1>1. msg[k].pc = "prompt" /\ msg[k].model = None
  BY DEF Reopen, Inv, RouteInv
<1>2. UNCHANGED <<host, turn, deleted, plugin, events, pin>>
  BY DEF Reopen
<1>3. CASE Goto(k, "failed")
  BY <1>1, <1>2, <1>3, GotoStep DEF Pc
<1>4. ASSUME NEW c \in Child, msg' = [msg EXCEPT ![k].child = c] PROVE Inv'
  <2>1. /\ msg' \in [Message -> Entry] /\ msg'[k].child = c
        /\ \A n \in Message :
             /\ msg'[n].pc = msg[n].pc /\ msg'[n].turn = msg[n].turn
             /\ msg'[n].target = msg[n].target /\ msg'[n].grant = msg[n].grant
             /\ msg'[n].model = msg[n].model /\ (n # k => msg'[n] = msg[n])
    BY <1>4, EntryFacts DEF Entry
  <2>2. TypeOK'
    BY <1>2, <2>1 DEF plugin, Inv, TypeOK, Entry, Pc
  <2>3. CallInv'
    BY <1>2, <2>1 DEF plugin, Inv, CallInv
  <2>4. GrantInv'
    BY <1>2, <2>1 DEF plugin, Inv, GrantInv
  <2>5. GrantIsOneShot'
    BY <2>1 DEF Inv, GrantIsOneShot
  <2>6. RouteInv'
    BY <1>1, <1>2, <2>1, FreshStep DEF plugin, Inv
  <2>7. RepairInv'
    BY <1>1, <1>2, <2>1, FreshRepair DEF plugin
  <2> QED
    BY <2>2, <2>3, <2>4, <2>5, <2>6, <2>7 DEF Inv
<1> QED
  BY <1>3, <1>4 DEF Reopen

LEMMA GrantStep == ASSUME Inv, NEW k \in Call, Grant(k) PROVE Inv'
<1> USE MessageFacts
<1> DEFINE c == msg[k].child
           child == msg[k].target
           new == [child |-> c, turn |-> msg[k].turn, active |-> TRUE, message |-> None,
                   model |-> child.model, worked |-> child.message]
<1>1. /\ msg[k].pc = "grant" /\ msg[k].model = None /\ repair[k] = None
      /\ child \in Assignment /\ c \in Child /\ msg[k].turn \in 0..MaxTurn
      /\ msg[k].turn <= turn
  <2>1. msg[k].pc = "grant"
    BY DEF Grant
  <2>2. msg[k].turn \in 0..Gone /\ msg[k].turn # Gone
    BY <2>1, EntryFacts DEF Inv, GrantInv, Entry
  <2>3. msg[k].turn \in 0..MaxTurn
    BY <2>2, WorkflowAssumption DEF Gone
  <2> QED
    BY <2>1, <2>3, EntryFacts DEF Inv, CallInv, RouteInv, GrantInv, Entry
<1>2. /\ repair' = [repair EXCEPT ![k] = new] /\ retained' = [retained EXCEPT ![c] = k]
      /\ pending' = pending \cup {k} /\ msg' = [msg EXCEPT ![k].pc = "prompt"]
      /\ UNCHANGED <<host, turn, deleted, routes, children, background, completed, events, pin>>
  BY DEF Grant, Goto
<1>3. /\ new \in Repair /\ new # None
      /\ new.child = c /\ new.turn = msg[k].turn /\ new.model = child.model
      /\ new.worked = child.message
  <2>1. child.model \in Model /\ child.message \in Message
    BY <1>1 DEF Assignment
  <2>2. new \in Repair
    BY <1>1, <2>1 DEF Repair
  <2> QED
    BY <2>2
<1>4. /\ workflow' \in [worker : Assignment \cup {None}, reviewed : Assignment \cup {None},
                       repairs : Nat]
      /\ workflow'.worker = workflow.worker /\ workflow'.repairs >= workflow.repairs
      /\ msg[k].turn = turn => workflow'.repairs > 0
  <2>1. /\ workflow \in [worker : Assignment \cup {None}, reviewed : Assignment \cup {None},
                        repairs : Nat]
        /\ workflow.repairs \in Nat
    BY DEF Inv, TypeOK
  <2>2. CASE msg[k].turn = turn
    <3>1. workflow' = [workflow EXCEPT !.repairs = @ + 1, !.reviewed = None]
      BY <2>2 DEF Grant
    <3> DEFINE repairs == workflow.repairs + 1
    <3>2. /\ workflow' = [workflow EXCEPT !.repairs = repairs, !.reviewed = None]
          /\ repairs \in Nat /\ repairs >= workflow.repairs /\ repairs > 0
      BY <2>1, <3>1
    <3> HIDE DEF repairs
    <3>3. /\ workflow'.worker = workflow.worker /\ workflow'.repairs = repairs
          /\ workflow' \in [worker : Assignment \cup {None},
                            reviewed : Assignment \cup {None}, repairs : Nat]
      BY <2>1, <3>2
    <3> QED
      BY <3>2, <3>3
  <2>3. CASE msg[k].turn # turn
    BY <2>1, <2>3 DEF Grant
  <2> QED
    BY <2>2, <2>3
<1>5. /\ msg' \in [Message -> Entry] /\ msg'[k].pc = "prompt"
      /\ \A n \in Message :
           /\ msg'[n].child = msg[n].child /\ msg'[n].turn = msg[n].turn
           /\ msg'[n].target = msg[n].target /\ msg'[n].grant = msg[n].grant
           /\ msg'[n].model = msg[n].model /\ (n # k => msg'[n] = msg[n])
  BY <1>2, EntryFacts DEF Entry, Pc
<1> HIDE DEF new, c
<1>6. /\ repair' \in [Call -> Repair \cup {None}] /\ repair'[k] = new
      /\ retained' \in [Child -> Call \cup {None}] /\ retained'[c] = k
      /\ \A j \in Call \ {k} : repair'[j] = repair[j]
      /\ \A d \in Child \ {c} : retained'[d] = retained[d]
  BY <1>1, <1>2, <1>3 DEF Inv, TypeOK
<1>7. /\ \A d \in Child : retained[d] # k
      /\ \A n \in Message : msg[n].grant # k
  BY <1>1 DEF Inv, TypeOK
<1>8. TypeOK'
  <2>1. /\ \A d \in Child : retained'[d] # None => repair'[retained'[d]] # None
        /\ \A n \in Message : msg'[n].grant # None => repair'[msg'[n].grant] # None
    BY <1>3, <1>5, <1>6, <1>7 DEF Inv, TypeOK
  <2> QED
    BY <1>2, <1>4, <1>5, <1>6, <2>1 DEF Inv, TypeOK, Entry, Pc
<1>9. CallInv'
  BY <1>1, <1>2, <1>5 DEF Inv, CallInv
<1>10. GrantInv'
  <2>1. \A d \in Child : retained'[d] # None => repair'[retained'[d]].child = d
    BY <1>3, <1>6, <1>7 DEF Inv, TypeOK, GrantInv
  <2>2. \A d \in Child, n \in Message : retained'[d] # None => msg'[n].grant # retained'[d]
    BY <1>5, <1>6, <1>7 DEF Inv, GrantInv
  <2>3. \A j \in Call :
          /\ msg'[j].pc = "grant" => msg'[j].target # None /\ msg'[j].turn # Gone
          /\ repair'[j] # None => msg'[j].pc \notin {"new", "before", "grant"}
    BY <1>5, <1>6 DEF Inv, GrantInv
  <2> QED
    BY <2>1, <2>2, <2>3 DEF GrantInv
<1>11. GrantIsOneShot'
  BY <1>5 DEF Inv, GrantIsOneShot
<1>12. RouteInv'
  BY <1>1, <1>2, <1>4, <1>5, FreshStep DEF Inv
<1>13. RepairInv'
  <2>1. ASSUME NEW j \in Call, repair'[j] # None
        PROVE  /\ msg'[repair'[j].worked].model = repair'[j].model
               /\ repair'[j].turn <= turn'
               /\ repair'[j].turn = turn' => workflow'.repairs > 0
    <3>1. CASE j = k
      <4>1. child.message \in Message /\ msg[child.message].model = child.model
        BY <1>1 DEF Inv, RouteInv, Keeps, Assignment
      <4> QED
        BY <1>1, <1>2, <1>3, <1>4, <1>5, <1>6, <3>1, <4>1
    <3>2. CASE j # k
      <4>1. /\ repair'[j] = repair[j] /\ repair[j] # None /\ repair[j].worked \in Message
            /\ workflow.repairs \in Nat /\ workflow'.repairs \in Nat
        BY <1>4, <1>6, <2>1, <3>2, NamedFacts DEF Inv, TypeOK
      <4> QED
        BY <1>2, <1>4, <1>5, <4>1 DEF Inv, RepairInv, Keeps
    <3> QED
      BY <3>1, <3>2
  <2>2. ASSUME NEW n \in Message, msg'[n].grant # None, msg'[n].model # None
        PROVE  msg'[n].model = repair'[msg'[n].grant].model
    <3>1. msg[n].grant \in Call \ {k}
      BY <1>5, <1>7, <2>2, EntryFacts DEF Entry
    <3> QED
      BY <1>5, <1>6, <2>2, <3>1 DEF Inv, RepairInv
  <2> QED
    BY <2>1, <2>2 DEF RepairInv, Keeps
<1> QED
  BY <1>8, <1>9, <1>10, <1>11, <1>12, <1>13 DEF Inv

(* The grant that a message takes is retained nowhere else, and was taken  *)
(* by nobody.                                                              *)
LEMMA PromptStep == ASSUME Inv, NEW m \in Message, Prompt(m) PROVE Inv'
<1> USE MessageFacts
<1> DEFINE c == msg[m].child
<1>1. msg[m].pc = "prompt" /\ msg[m].model = None /\ c \in Child
  <2>1. msg[m].pc = "prompt"
    BY DEF Prompt
  <2> QED
    BY <2>1, EntryFacts DEF Entry, Inv, CallInv, RouteInv
<1>2. PICK pc \in {"route", "done"}, grant \in {None, retained[c], msg[m].grant} :
        /\ msg' = [msg EXCEPT ![m].pc = pc, ![m].grant = grant]
        /\ routes' = routes \/ routes' = [routes EXCEPT ![c] = None]
  <2>1. CASE msg[m].agent = "none"
    <3>1. /\ msg' = [msg EXCEPT ![m].pc = "done"]
          /\ routes' = [routes EXCEPT ![c] = None]
      BY <2>1 DEF Prompt, Goto
    <3>2. msg' = [msg EXCEPT ![m].pc = "done", ![m].grant = msg[m].grant]
      BY <3>1, EntryFacts DEF Entry
    <3> QED
      BY <3>1, <3>2
  <2>2. CASE msg[m].agent # "none"
    BY <2>2 DEF Prompt
  <2> QED
    BY <2>1, <2>2
<1>3. /\ retained' = [retained EXCEPT ![c] = None]
      /\ UNCHANGED <<host, turn, deleted, workflow, children, repair, pending, background,
                     completed, events, pin>>
  BY DEF Prompt
<1>4. /\ msg' \in [Message -> Entry] /\ msg'[m].pc = pc /\ msg'[m].grant = grant
      /\ \A n \in Message :
           /\ msg'[n].child = msg[n].child /\ msg'[n].turn = msg[n].turn
           /\ msg'[n].target = msg[n].target /\ msg'[n].model = msg[n].model
           /\ n # m => msg'[n] = msg[n]
  <2>1. pc \in Pc /\ grant \in Call \cup {None}
    BY <1>1, EntryFacts DEF Entry, Inv, TypeOK, Pc
  <2>2. msg' = [msg EXCEPT ![m].pc = pc, ![m].grant = grant]
    BY <1>2
  <2> HIDE DEF c
  <2> DEFINE new == [msg[m] EXCEPT !.pc = pc, !.grant = grant]
  <2>3. msg' \in [Message -> Entry]
    <3>1. msg[m] \in Entry
      BY EntryFacts
    <3>2. new \in Entry
      BY <2>1, <3>1 DEF Entry
    <3>3. msg' = [msg EXCEPT ![m] = new]
      BY <2>2
    <3> HIDE DEF new
    <3> QED
      BY <3>2, <3>3, EntryFacts
  <2> QED
    BY <2>1, <2>2, <2>3, EntryFacts DEF Entry
<1>5. /\ retained' \in [Child -> Call \cup {None}] /\ retained'[c] = None
      /\ \A d \in Child \ {c} : retained'[d] = retained[d]
      /\ routes' \in [Child -> RouteOf \cup {None}]
      /\ \A d \in Child : routes'[d] \in {routes[d], None}
  BY <1>1, <1>2, <1>3 DEF Inv, TypeOK
<1>6. TypeOK'
  <2>1. /\ \A d \in Child : retained'[d] # None => repair'[retained'[d]] # None
        /\ \A n \in Message : msg'[n].grant # None => repair'[msg'[n].grant] # None
    BY <1>1, <1>3, <1>4, <1>5 DEF Inv, TypeOK
  <2> QED
    BY <1>3, <1>4, <1>5, <2>1 DEF Inv, TypeOK, Entry, Pc
<1>7. CallInv'
  BY <1>1, <1>3, <1>4 DEF Inv, CallInv
<1>8. GrantInv'
  <2>1. ASSUME NEW d \in Child, NEW n \in Message, retained'[d] # None
        PROVE  msg'[n].grant # retained'[d]
    <3>1. d # c /\ retained'[d] = retained[d]
      BY <1>5, <2>1
    <3>2. CASE n # m \/ grant = msg[m].grant
      BY <1>4, <2>1, <3>1, <3>2 DEF Inv, GrantInv
    <3>3. CASE n = m /\ grant = None
      BY <1>4, <2>1, <3>3
    <3>4. CASE n = m /\ grant = retained[c] /\ grant # None
      BY <1>1, <1>4, <2>1, <3>1, <3>4 DEF Inv, GrantInv
    <3> QED
      BY <3>2, <3>3, <3>4
  <2>2. \A d \in Child : retained'[d] # None => repair'[retained'[d]].child = d
    BY <1>3, <1>5 DEF Inv, GrantInv
  <2>3. \A j \in Call :
          /\ msg'[j].pc = "grant" => msg'[j].target # None /\ msg'[j].turn # Gone
          /\ repair'[j] # None => msg'[j].pc \notin {"new", "before", "grant"}
    BY <1>1, <1>3, <1>4 DEF Inv, GrantInv
  <2> QED
    BY <2>1, <2>2, <2>3 DEF GrantInv
<1>9. GrantIsOneShot'
  <2>1. ASSUME NEW n \in Message, n # m, msg'[m].grant # None
        PROVE  msg'[n].grant # msg'[m].grant
    <3>1. msg'[n] = msg[n] /\ msg'[m].grant = grant
      BY <1>4, <2>1
    <3>2. CASE grant = msg[m].grant
      BY <2>1, <3>1, <3>2 DEF Inv, GrantIsOneShot
    <3>3. CASE grant = retained[c]
      BY <1>1, <2>1, <3>1, <3>3 DEF Inv, GrantInv
    <3> QED
      BY <2>1, <3>1, <3>2, <3>3
  <2>2. ASSUME NEW n \in Message \ {m}, NEW o \in Message \ {m}, msg'[n].grant # None,
               msg'[n].grant = msg'[o].grant
        PROVE  n = o
    BY <1>4, <2>2 DEF Inv, GrantIsOneShot
  <2> QED
    BY <2>1, <2>2 DEF GrantIsOneShot
<1>10. RouteInv'
  BY <1>1, <1>3, <1>4, <1>5, FreshStep DEF Inv
<1>11. RepairInv'
  BY <1>1, <1>3, <1>4, FreshRepair
<1> QED
  BY <1>6, <1>7, <1>8, <1>9, <1>10, <1>11 DEF Inv

(* A message gets its model once, before anything names the message.       *)
LEMMA RouteStep == ASSUME Inv, NEW m \in Message, Route(m) PROVE Inv'
<1> USE MessageFacts
<1> DEFINE c == msg[m].child
           g == msg[m].grant
           model == IF g = None THEN pin ELSE repair[g].model
           route == [message |-> m, agent |-> msg[m].agent, repair |-> g, model |-> model]
<1>1. /\ msg[m].pc = "route" /\ msg[m].model = None /\ msg[m] \in Entry
      /\ c \in Child /\ g \in Call \cup {None} /\ (g # None => repair[g] \in Repair)
  <2>1. msg[m].pc = "route"
    BY DEF Route
  <2> QED
    BY <2>1, EntryFacts DEF Entry, Inv, TypeOK, CallInv, RouteInv
<1>2. /\ routes' = [routes EXCEPT ![c] = route] /\ completed' = [completed EXCEPT ![c] = None]
      /\ repair' = IF g = None THEN repair ELSE [repair EXCEPT ![g].message = m]
      /\ msg' = [msg EXCEPT ![m].pc = "run", ![m].model = model]
      /\ UNCHANGED <<host, turn, deleted, workflow, children, retained, pending, background,
                     events, pin>>
  BY DEF Route
<1>3. model \in Model /\ (g # None => model = repair[g].model)
  BY <1>1 DEF Inv, TypeOK, Repair
<1>4. /\ route \in RouteOf /\ route.message = m /\ route.repair = g /\ route.model = model
  <2>1. msg[m].agent \in Agent
    BY <1>1 DEF Entry
  <2> HIDE DEF model
  <2> QED
    BY <1>1, <1>3, <2>1 DEF RouteOf
<1> HIDE DEF route, model
<1>5. Alike(repair')
  <2>1. CASE g = None
    BY <1>2, <2>1 DEF Inv, TypeOK, Alike
  <2>2. CASE g # None
    <3> DEFINE taken == [repair[g] EXCEPT !.message = m]
    <3>1. repair' = [repair EXCEPT ![g] = taken]
      BY <1>2, <2>2
    <3>2. /\ taken \in Repair /\ taken # None
          /\ taken.child = repair[g].child /\ taken.turn = repair[g].turn
          /\ taken.model = repair[g].model /\ taken.worked = repair[g].worked
      BY <1>1, <2>2 DEF Repair
    <3> HIDE DEF taken
    <3> QED
      BY <1>1, <2>2, <3>1, <3>2 DEF Inv, TypeOK, Alike
  <2> QED
    BY <2>1, <2>2
<1>6. /\ msg' \in [Message -> Entry] /\ msg'[m].pc = "run" /\ msg'[m].model = model
      /\ \A n \in Message :
           /\ msg'[n].child = msg[n].child /\ msg'[n].turn = msg[n].turn
           /\ msg'[n].target = msg[n].target /\ msg'[n].grant = msg[n].grant
           /\ n # m => msg'[n] = msg[n]
  <2> DEFINE new == [msg[m] EXCEPT !.pc = "run", !.model = model]
  <2>1. /\ new \in Entry /\ new.pc = "run" /\ new.model = model
        /\ new.child = c /\ new.turn = msg[m].turn /\ new.target = msg[m].target
        /\ new.grant = g
    BY <1>1, <1>3 DEF Entry, Pc
  <2>2. msg' = [msg EXCEPT ![m] = new]
    BY <1>2
  <2> HIDE DEF new
  <2> QED
    BY <2>1, <2>2, EntryFacts
<1>7. /\ routes' \in [Child -> RouteOf \cup {None}] /\ routes'[c] = route
      /\ \A d \in Child \ {c} : routes'[d] = routes[d]
  BY <1>1, <1>2, <1>4 DEF Inv, TypeOK
<1>8. TypeOK'
  <2>1. completed' \in [Child -> Message \cup {None}]
    BY <1>2 DEF Inv, TypeOK
  <2>2. /\ \A d \in Child : retained'[d] # None => repair'[retained'[d]] # None
        /\ \A n \in Message : msg'[n].grant # None => repair'[msg'[n].grant] # None
    <3>1. /\ retained' = retained
          /\ \A j \in Call : (repair'[j] = None) = (repair[j] = None)
      BY <1>2, <1>5 DEF Alike
    <3>2. ASSUME NEW d \in Child, retained'[d] # None PROVE repair'[retained'[d]] # None
      <4>1. retained[d] \in Call /\ repair[retained[d]] # None
        BY <3>1, <3>2 DEF Inv, TypeOK
      <4> QED
        BY <3>1, <4>1
    <3>3. ASSUME NEW n \in Message, msg'[n].grant # None PROVE repair'[msg'[n].grant] # None
      <4>1. msg'[n].grant = msg[n].grant
        BY <1>6
      <4>2. msg[n].grant \in Call \cup {None}
        BY EntryFacts DEF Entry
      <4>3. repair[msg[n].grant] # None
        BY <3>3, <4>1 DEF Inv, TypeOK
      <4> QED
        BY <3>1, <3>3, <4>1, <4>2, <4>3
    <3> QED
      BY <3>2, <3>3
  <2>3. repair' \in [Call -> Repair \cup {None}]
    BY <1>5 DEF Alike
  <2> QED
    BY <1>2, <1>6, <1>7, <2>1, <2>2, <2>3 DEF Inv, TypeOK, Entry, Pc
<1>9. CallInv'
  BY <1>1, <1>2, <1>6 DEF Inv, CallInv
<1>10. GrantInv'
  <2>1. \A d \in Child : retained'[d] # None => repair'[retained'[d]].child = d
    BY <1>2, <1>5 DEF Inv, TypeOK, GrantInv, Alike
  <2>2. \A d \in Child, n \in Message : retained'[d] # None => msg'[n].grant # retained'[d]
    BY <1>2, <1>6 DEF Inv, GrantInv
  <2>3. \A j \in Call :
          /\ msg'[j].pc = "grant" => msg'[j].target # None /\ msg'[j].turn # Gone
          /\ repair'[j] # None => msg'[j].pc \notin {"new", "before", "grant"}
    BY <1>2, <1>5, <1>6 DEF Inv, GrantInv, Alike
  <2> QED
    BY <2>1, <2>2, <2>3 DEF GrantInv
<1>11. GrantIsOneShot'
  BY <1>6 DEF Inv, GrantIsOneShot
<1>12. \A n \in Message : msg[n].model # None => n # m /\ msg'[n] = msg[n]
  BY <1>1, <1>6
<1>13. RouteInv'
  <2>1. \A n \in Message : msg'[n].model # None =>
          msg'[n].pc \notin {"new", "before", "grant", "prompt", "route"}
    <3> TAKE n \in Message
    <3>1. CASE n = m
      BY <1>6, <3>1
    <3>2. CASE n # m
      BY <1>6, <3>2 DEF Inv, RouteInv
    <3> QED
      BY <3>1, <3>2
  <2>2. ASSUME NEW d \in Child
        PROVE  /\ routes'[d] # None =>
                    /\ msg'[routes'[d].message].model = routes'[d].model
                    /\ msg'[routes'[d].message].grant = routes'[d].repair
               /\ children'[d] # None =>
                    msg'[children'[d].message].model = children'[d].model
    <3>1. children'[d] # None => msg'[children'[d].message].model = children'[d].model
      <4>1. children' = children
        BY <1>2
      <4> QED
        BY <1>12, <4>1, NamedFacts DEF Inv, RouteInv, Keeps
    <3>2. CASE d = c
      BY <1>4, <1>6, <1>7, <3>1, <3>2 DEF Keeps
    <3>3. CASE d # c
      BY <1>7, <1>12, <3>1, <3>3, NamedFacts DEF Inv, RouteInv, Keeps
    <3> QED
      BY <3>2, <3>3
  <2>3. workflow'.worker # None =>
          msg'[workflow'.worker.message].model = workflow'.worker.model
    <3>1. workflow' = workflow
      BY <1>2
    <3> QED
      BY <1>12, <3>1, NamedFacts DEF Inv, RouteInv, Keeps
  <2>4. ASSUME NEW n \in Message
        PROVE  msg'[n].target # None =>
                 msg'[msg'[n].target.message].model = msg'[n].target.model
    BY <1>6, <1>12, NamedFacts DEF Inv, RouteInv, Keeps
  <2> QED
    BY <2>1, <2>2, <2>3, <2>4 DEF RouteInv, Keeps
<1>14. RepairInv'
  <2>1. ASSUME NEW j \in Call, repair'[j] # None
        PROVE  /\ msg'[repair'[j].worked].model = repair'[j].model
               /\ repair'[j].turn <= turn'
               /\ repair'[j].turn = turn' => workflow'.repairs > 0
    <3>1. /\ repair[j] # None /\ repair'[j].turn = repair[j].turn
          /\ repair'[j].model = repair[j].model /\ repair'[j].worked = repair[j].worked
      BY <1>5, <2>1 DEF Alike
    <3>2. msg'[repair[j].worked] = msg[repair[j].worked]
      BY <1>12, <3>1, NamedFacts
    <3> QED
      BY <1>2, <3>1, <3>2 DEF Inv, RepairInv, Keeps
  <2>2. ASSUME NEW n \in Message, msg'[n].grant # None, msg'[n].model # None
        PROVE  msg'[n].model = repair'[msg'[n].grant].model
    <3>1. msg[n].grant \in Call /\ repair[msg[n].grant] # None /\ msg'[n].grant = msg[n].grant
      BY <1>6, <2>2, EntryFacts DEF Entry, Inv, TypeOK
    <3>2. repair'[msg[n].grant].model = repair[msg[n].grant].model
      BY <1>5, <3>1 DEF Alike
    <3>3. CASE n = m
      BY <1>3, <1>6, <3>1, <3>2, <3>3
    <3>4. CASE n # m
      BY <1>6, <2>2, <3>1, <3>2, <3>4 DEF Inv, RepairInv
    <3> QED
      BY <3>3, <3>4
  <2> QED
    BY <2>1, <2>2 DEF RepairInv, Keeps
<1> QED
  BY <1>8, <1>9, <1>10, <1>11, <1>13, <1>14 DEF Inv

LEMMA InvStep == Inv /\ [Next]_vars => Inv'
<1> SUFFICES ASSUME Inv, [Next]_vars PROVE Inv'
  OBVIOUS
<1>1. CASE UNCHANGED vars
  BY <1>1 DEF vars, plugin, Inv, TypeOK, CallInv, GrantInv, GrantIsOneShot, RouteInv,
              RepairInv, Keeps
<1>2. ASSUME NEW k \in Call, Delegate(k) PROVE Inv'
  BY <1>2, BeginStep, AcceptStep, GrantStep, BlockedStep, AcknowledgeStep DEF Delegate
<1>3. ASSUME NEW m \in Message, Converse(m) PROVE Inv'
  BY <1>3, PromptStep, RouteStep, InferStep, FailStep, ReplyStep, HearStep DEF Converse
<1> QED
  BY <1>1, <1>2, <1>3, IntrudeStep, ReopenStep, DeleteChildStep, UserTurnStep,
     DeleteRouterStep, PinStep DEF Next

(* The state has the types that the plugin relies on: what a child session *)
(* retains and what a message has taken is a repair that was granted.      *)
THEOREM TypeCorrect == Spec => []TypeOK
<1>1. Inv => TypeOK
  BY DEF Inv
<1> QED
  BY <1>1, InvInit, InvStep, PTL DEF Spec

(* The authority of a repair is consumed once, for any calls, messages and *)
(* children and whatever the host does with them (chat.message).           *)
THEOREM GrantConsumedOnce == Spec => []GrantIsOneShot
<1>1. Inv => GrantIsOneShot
  BY DEF Inv
<1> QED
  BY <1>1, InvInit, InvStep, PTL DEF Spec

(* What RepairKeepsRoute says of one step.                                 *)
RepairKeepsRouteStep ==
  \A m \in Message :
    LET g == msg[m].grant IN
    msg[m].pc = "run" /\ msg'[m].pc = "reply" =>
      /\ g # None => msg[m].model = msg[repair[g].worked].model
      /\ msg[m].model # pin => g # None /\ workflow.repairs > 0

(* Only chat.params calls the model.                                       *)
LEMMA OnlyInfer ==
  ASSUME Inv, [Next]_vars, NEW m \in Message, msg[m].pc = "run", msg'[m].pc = "reply"
  PROVE  Infer(m)
<1> USE MessageFacts
<1>1. CASE UNCHANGED vars
  BY <1>1 DEF vars
<1>2. ASSUME NEW k \in Call, Delegate(k) PROVE FALSE
  <2>1. CASE Begin(k)
    BY <2>1, EntryFacts DEF Begin, Entry, Unused
  <2>2. CASE Accept(k)
    <3>1. msg[k].pc = "before" /\ \A n \in Message \ {k} : msg'[n] = msg[n]
      BY <2>2, EntryFacts DEF Accept
    <3> QED
      BY <3>1
  <2>3. CASE Grant(k) \/ TaskBlocked(k)
    BY <2>3, EntryFacts DEF Grant, TaskBlocked, Goto, Entry
  <2>4. CASE Acknowledge(k)
    BY <2>4, EntryFacts DEF Acknowledge, Goto, Entry
  <2> QED
    BY <1>2, <2>1, <2>2, <2>3, <2>4 DEF Delegate
<1>3. ASSUME NEW n \in Message, Converse(n) PROVE Infer(m)
  <2>1. CASE Prompt(n)
    BY <2>1, EntryFacts DEF Prompt, Goto, Entry
  <2>2. CASE Route(n)
    BY <2>2, EntryFacts DEF Route, Entry
  <2>3. CASE Infer(n)
    BY <2>3, EntryFacts DEF Infer, Goto, Entry
  <2>4. CASE ChildFails(n) \/ Reply(n)
    BY <2>4, EntryFacts DEF ChildFails, Reply, InSession, Goto, Entry
  <2>5. CASE Hear(n)
    BY <2>5 DEF Hear
  <2> QED
    BY <1>3, <2>1, <2>2, <2>3, <2>4, <2>5 DEF Converse
<1>4. ASSUME NEW n \in Other, Intrude(n) PROVE FALSE
  BY <1>4, EntryFacts DEF Intrude, Entry, Message
<1>5. ASSUME NEW k \in Call, Reopen(k) PROVE FALSE
  BY <1>5, EntryFacts DEF Reopen, Goto, Entry
<1>6. CASE UserTurn \/ DeleteRouter \/ PinChanges \/ \E c \in Child : DeleteChild(c)
  BY <1>6 DEF UserTurn, DeleteRouter, PinChanges, DeleteChild
<1> QED
  BY <1>1, <1>2, <1>3, <1>4, <1>5, <1>6 DEF Next

(* A model that is not the pinned one is called only for a repair that     *)
(* this turn counts, and a repair runs on the model that did the work: the *)
(* route of a message carries the repair that the message took, and that   *)
(* repair the model of the work it repairs.                                *)
THEOREM RepairRunsOnItsRoute == Spec => RepairKeepsRoute
<1>1. Inv /\ [Next]_vars => [RepairKeepsRouteStep]_vars
  <2> SUFFICES ASSUME Inv, [Next]_vars, NEW m \in Message,
                      msg[m].pc = "run", msg'[m].pc = "reply"
               PROVE  LET g == msg[m].grant IN
                      /\ g # None => msg[m].model = msg[repair[g].worked].model
                      /\ msg[m].model # pin => g # None /\ workflow.repairs > 0
    BY DEF RepairKeepsRouteStep
  <2> DEFINE g == msg[m].grant
             route == routes[msg[m].child]
  <2>1. /\ route # None /\ route.message = m
        /\ route.model = IF InForce(m, route) THEN repair[route.repair].model ELSE pin
    BY OnlyInfer DEF Infer
  <2>2. msg[m].child \in Child /\ g \in Call \cup {None} /\ (g # None => repair[g] # None)
    BY <2>1, MessageFacts, EntryFacts DEF Entry, Inv, TypeOK, CallInv
  <2>3. /\ msg[m].model = route.model /\ route.repair = g /\ route \in RouteOf
        /\ msg[m].model # None
    BY <2>1, <2>2, MessageFacts DEF Inv, TypeOK, RouteInv, Keeps, RouteOf
  <2>4. g # None => msg[m].model = msg[repair[g].worked].model
    BY <2>2, <2>3 DEF Inv, RepairInv, Keeps
  <2>5. ASSUME msg[m].model # pin PROVE g # None /\ workflow.repairs > 0
    <3>1. InForce(m, route)
      BY <2>1, <2>3, <2>5
    <3>2. g # None /\ repair[g].turn = turn
      BY <2>3, <3>1 DEF InForce
    <3> QED
      BY <2>2, <3>2 DEF Inv, RepairInv
  <2> QED
    BY <2>4, <2>5
<1>2. RepairKeepsRoute <=> [][RepairKeepsRouteStep]_vars
  BY DEF RepairKeepsRoute, RepairKeepsRouteStep
<1> QED
  BY <1>1, <1>2, InvInit, InvStep, PTL DEF Spec

-----------------------------------------------------------------------------
(* For a router that waits for its task calls, SpecialistWorkflow          *)
(* implements ReviewLoop.                                                  *)

LEMMA WaitInit == Init => WaitInv
<1> SUFFICES ASSUME Init PROVE WaitInv
  OBVIOUS
<1>1. \A k \in Call : msg[k] = Unused
  BY MessageFacts DEF Init
<1>2. \A k \in Call : msg[k].pc = "new" /\ ~msg[k].background
  BY <1>1 DEF Unused
<1>3. pending = {} /\ workflow.worker = None /\ \A c \in Child : background[c] = None
  BY DEF Init
<1> QED
  BY <1>2, <1>3 DEF WaitInv, InFlight

(* A step that leaves the workflow alone and accepts nothing.              *)
LEMMA QuietStep ==
  ASSUME Inv, WaitInv, UNCHANGED <<host, turn, workflow>>, pending' \subseteq pending,
         \A c \in Child : background'[c] \in {background[c], None},
         \A k \in Call :
           /\ msg'[k].background = msg[k].background /\ msg'[k].turn = msg[k].turn
           /\ msg'[k].pc # msg[k].pc =>
                msg[k].pc # "failed" /\ msg'[k].pc \notin {"new", "before", "grant"}
  PROVE  WaitInv'
<1> USE MessageFacts
<1> SUFFICES ASSUME Waits PROVE WaitInv'
  BY DEF WaitInv, Waits
<1>1. \A k \in Call : InFlight(k)' => InFlight(k)
  BY DEF InFlight
<1>2. workflow.worker # None => workflow.worker.by \in Call
  BY DEF Inv, TypeOK, Assignment
<1>3. workflow'.worker # None =>
        /\ workflow'.worker.by \notin pending'
        /\ msg'[workflow'.worker.by].pc \notin {"new", "before", "grant"}
  BY <1>2 DEF WaitInv
<1>4. \A k \in Call : msg'[k].pc = "grant" /\ msg'[k].turn = turn' =>
        /\ workflow'.worker # None /\ workflow'.reviewed = workflow'.worker
        /\ workflow'.repairs < Limit
  BY DEF WaitInv
<1>5. /\ \A c \in Child : background'[c] = None
      /\ \A k \in Call : ~msg'[k].background
  BY DEF WaitInv
<1>6. \A j, k \in Call : InFlight(j)' /\ InFlight(k)' => j = k
  BY <1>1 DEF WaitInv
<1> QED
  BY <1>3, <1>4, <1>5, <1>6 DEF WaitInv

(* A step that takes one message further on its way.                       *)
LEMMA QuietGoto ==
  ASSUME Inv, WaitInv, NEW m \in Message, msg[m].pc # "failed",
         NEW pc \in Pc \ {"new", "before", "grant"}, Goto(m, pc),
         UNCHANGED <<host, turn, plugin>>
  PROVE  WaitInv'
<1>1. \A n \in Message :
        /\ msg'[n].background = msg[n].background /\ msg'[n].turn = msg[n].turn
        /\ msg'[n].pc # msg[n].pc => n = m /\ msg'[n].pc = pc
  BY EntryFacts DEF Goto, Entry
<1> QED
  BY <1>1, MessageFacts, QuietStep DEF plugin

LEMMA WaitBegin == ASSUME Inv, WaitInv, NEW k \in Call, Begin(k) PROVE WaitInv'
<1> USE MessageFacts
<1>0. UNCHANGED <<host, turn, workflow, pending, background>> /\ msg[k].pc = "new"
  BY DEF Begin
<1> SUFFICES ASSUME Waits PROVE WaitInv'
  BY <1>0 DEF WaitInv, Waits
<1>1. \A j \in Call : ~InFlight(j)
  BY DEF Begin, Waits
<1>2. PICK agent \in Agent, c \in Child, resume \in BOOLEAN :
        msg' = [msg EXCEPT ![k] = [Unused EXCEPT !.pc = "before", !.agent = agent,
                                     !.child = c, !.resume = resume, !.background = FALSE]]
  <2>1. PICK agent \in Agent, bg \in BOOLEAN, c \in Child :
          /\ bg => host.background
          /\ msg' = [msg EXCEPT ![k] = [Unused EXCEPT !.pc = "before", !.agent = agent,
                       !.child = c, !.resume = Known(c), !.background = bg]]
    BY DEF Begin
  <2>2. Known(c) \in BOOLEAN
    BY DEF Known
  <2>3. bg = FALSE
    BY <2>1 DEF Waits
  <2> QED
    BY <2>1, <2>2, <2>3, Zenon
<1>3. /\ msg'[k].pc = "before" /\ ~msg'[k].background
      /\ \A j \in Call \ {k} : msg'[j] = msg[j]
  BY <1>2, EntryFacts DEF Unused
<1>4. \A j \in Call : InFlight(j)' => j = k
  BY <1>0, <1>1, <1>3 DEF InFlight
<1>5. workflow.worker # None => workflow.worker.by \in Call \ {k}
  BY <1>0 DEF Inv, TypeOK, Assignment, WaitInv
<1>6. workflow'.worker # None =>
        /\ workflow'.worker.by \notin pending'
        /\ msg'[workflow'.worker.by].pc \notin {"new", "before", "grant"}
  BY <1>0, <1>3, <1>5 DEF WaitInv
<1>7. \A j \in Call : msg'[j].pc # "grant"
  BY <1>1, <1>3 DEF InFlight
<1>8. /\ \A c2 \in Child : background'[c2] = None
      /\ \A j \in Call : ~msg'[j].background
  BY <1>0, <1>3 DEF WaitInv
<1> QED
  BY <1>4, <1>6, <1>7, <1>8 DEF WaitInv

LEMMA WaitAccept == ASSUME Inv, WaitInv, NEW k \in Call, Accept(k) PROVE WaitInv'
<1> USE MessageFacts
<1>0. /\ UNCHANGED <<host, turn, workflow, background>> /\ msg[k].pc = "before"
      /\ pending' \subseteq pending \cup {k}
  BY DEF Accept
<1> SUFFICES ASSUME Waits PROVE WaitInv'
  BY <1>0 DEF WaitInv, Waits
<1>1. \A j \in Call : InFlight(j) => j = k
  BY <1>0 DEF WaitInv, InFlight
<1>2. /\ msg'[k].background = msg[k].background /\ msg'[k].pc # "before"
      /\ \A j \in Call \ {k} : msg'[j] = msg[j]
      /\ msg'[k].pc = "grant" => Repairable(k) /\ workflow.repairs < Limit
  <2> DEFINE target == IF msg[k].agent = "reviewer" \/ Repairable(k)
                       THEN workflow.worker ELSE None
             pc == CASE turn # Gone /\ ~Repairable(k) -> "prompt"
                     [] turn # Gone /\ Repairable(k) /\ workflow.repairs < Limit -> "grant"
                     [] OTHER -> "failed"
  <2>1. msg' = [msg EXCEPT ![k].pc = pc, ![k].turn = turn, ![k].target = target]
    BY Zenon DEF Accept
  <2>2. pc # "before" /\ (pc = "grant" => Repairable(k) /\ workflow.repairs < Limit)
    <3>1. CASE turn # Gone /\ ~Repairable(k)
      <4>1. pc = "prompt"
        BY <3>1, Zenon
      <4> QED
        BY <4>1
    <3>2. CASE turn # Gone /\ Repairable(k) /\ workflow.repairs < Limit
      <4>1. pc = "grant"
        BY <3>2, Zenon
      <4> QED
        BY <3>2, <4>1
    <3>3. CASE ~(turn # Gone /\ ~Repairable(k))
               /\ ~(turn # Gone /\ Repairable(k) /\ workflow.repairs < Limit)
      <4>1. pc = "failed"
        BY <3>3, Zenon
      <4> QED
        BY <4>1
    <3> QED
      BY <3>1, <3>2, <3>3
  <2> HIDE DEF pc, target
  <2> QED
    BY <2>1, <2>2, EntryFacts DEF Entry
<1>3. \A j \in Call : InFlight(j)' => j = k
  BY <1>0, <1>1, <1>2 DEF InFlight
<1>4. workflow.worker # None => workflow.worker.by \in Call \ {k}
  BY <1>0 DEF Inv, TypeOK, Assignment, WaitInv
<1>5. workflow'.worker # None =>
        /\ workflow'.worker.by \notin pending'
        /\ msg'[workflow'.worker.by].pc \notin {"new", "before", "grant"}
  BY <1>0, <1>2, <1>4 DEF WaitInv
<1>6. \A j \in Call : msg'[j].pc = "grant" =>
        /\ workflow'.worker # None /\ workflow'.reviewed = workflow'.worker
        /\ workflow'.repairs < Limit
  <2>1. Repairable(k) => workflow.worker # None /\ workflow.reviewed = workflow.worker
    BY DEF Repairable
  <2>2. \A j \in Call \ {k} : msg'[j].pc # "grant"
    BY <1>1, <1>2 DEF InFlight
  <2> QED
    BY <1>0, <1>2, <2>1, <2>2
<1>7. /\ \A c \in Child : background'[c] = None
      /\ \A j \in Call : ~msg'[j].background
  BY <1>0, <1>2 DEF WaitInv
<1> QED
  BY <1>3, <1>5, <1>6, <1>7 DEF WaitInv

(* The repair that begins in the turn it was asked for is one that the     *)
(* loop allows.                                                            *)
LEMMA WaitGrant ==
  ASSUME Inv, WaitInv, NEW k \in Call, Grant(k)
  PROVE  WaitInv' /\ (Waits => [Loop!Next]_(Loop!vars))
<1> USE MessageFacts
<1>0. /\ UNCHANGED <<host, turn, background>> /\ msg[k].pc = "grant"
      /\ pending' = pending \cup {k} /\ msg' = [msg EXCEPT ![k].pc = "prompt"]
  BY DEF Grant, Goto
<1> SUFFICES ASSUME Waits PROVE WaitInv' /\ [Loop!Next]_(Loop!vars)
  BY <1>0 DEF WaitInv, Waits
<1>1. \A j \in Call : InFlight(j) => j = k
  BY <1>0 DEF WaitInv, InFlight
<1>2. /\ msg'[k].background = msg[k].background /\ msg'[k].pc = "prompt"
      /\ \A j \in Call \ {k} : msg'[j] = msg[j]
  BY <1>0, EntryFacts DEF Entry
<1>3. \/ UNCHANGED workflow
      \/ /\ msg[k].turn = turn
         /\ workflow' = [workflow EXCEPT !.repairs = @ + 1, !.reviewed = None]
  BY DEF Grant
<1>4. workflow'.worker = workflow.worker
  BY <1>3 DEF Inv, TypeOK
<1>5. \A j \in Call : InFlight(j)' => j = k
  BY <1>0, <1>1, <1>2 DEF InFlight
<1>6. workflow.worker # None => workflow.worker.by \in Call \ {k}
  BY <1>0 DEF Inv, TypeOK, Assignment, WaitInv
<1>7. workflow'.worker # None =>
        /\ workflow'.worker.by \notin pending'
        /\ msg'[workflow'.worker.by].pc \notin {"new", "before", "grant"}
  BY <1>0, <1>2, <1>4, <1>6 DEF WaitInv
<1>8. \A j \in Call : msg'[j].pc # "grant"
  BY <1>1, <1>2 DEF InFlight
<1>9. /\ \A c \in Child : background'[c] = None
      /\ \A j \in Call : ~msg'[j].background
  BY <1>0, <1>2 DEF WaitInv
<1>10. [Loop!Next]_(Loop!vars)
  <2>1. CASE UNCHANGED workflow
    BY <2>1 DEF Loop!vars
  <2>2. CASE msg[k].turn = turn
             /\ workflow' = [workflow EXCEPT !.repairs = @ + 1, !.reviewed = None]
    <3>1. /\ workflow.worker # None /\ workflow.reviewed = workflow.worker
          /\ workflow.repairs < Limit
      BY <1>0, <2>2 DEF WaitInv
    <3>2. /\ workflow'.worker = workflow.worker /\ workflow'.reviewed = None
          /\ workflow'.repairs = workflow.repairs + 1
      BY <2>2 DEF Inv, TypeOK
    <3> QED
      BY <3>1, <3>2 DEF Loop!Next, Loop!Repair
  <2> QED
    BY <1>3, <2>1, <2>2
<1> QED
  BY <1>5, <1>7, <1>8, <1>9, <1>10 DEF WaitInv

(* Completed work is another assignment than before: its call was pending. *)
LEMMA CompleteLoop ==
  ASSUME Inv, WaitInv, Waits, NEW k \in pending, NEW c \in Child, CompleteChild(k, c, repair)
  PROVE  /\ [Loop!Next]_(Loop!vars)
         /\ workflow'.worker = workflow.worker \/ workflow'.worker.by = k
<1> USE MessageFacts
<1> DEFINE route == routes[c]
           op == msg[k]
           valid == route # None /\ route.agent = op.agent /\ op.turn = turn /\ turn # Gone
           assignment == [by |-> k, message |-> route.message, child |-> c,
                          model |-> route.model]
<1>0. k \in Call
  BY DEF Inv, TypeOK
<1>1. CASE ~valid
  BY <1>1 DEF CompleteChild, Loop!vars
<1>2. CASE valid
  <2>1. assignment \in Assignment /\ assignment.by = k
    BY <1>0, <1>2 DEF Inv, TypeOK, RouteOf, Assignment
  <2>2. workflow' =
          CASE op.agent = "worker" ->
                 [workflow EXCEPT !.worker = assignment, !.reviewed = None]
            [] op.agent = "reviewer" /\ op.target # None /\ op.target = workflow.worker ->
                 [workflow EXCEPT !.reviewed = op.target]
            [] OTHER -> workflow
    BY <1>2, Zenon DEF CompleteChild
  <2>3. workflow.worker # assignment
    BY <2>1 DEF WaitInv
  <2> HIDE DEF assignment, route, valid
  <2>4. CASE op.agent = "worker"
    <3>1. workflow' = [workflow EXCEPT !.worker = assignment, !.reviewed = None]
      BY <2>2, <2>4
    <3>2. /\ workflow'.worker = assignment /\ workflow'.reviewed = None
          /\ workflow'.repairs = workflow.repairs
      BY <3>1 DEF Inv, TypeOK
    <3> QED
      BY <2>1, <2>3, <3>2 DEF Loop!Next, Loop!Work
  <2>5. CASE op.agent = "reviewer" /\ op.target # None /\ op.target = workflow.worker
    <3>1. workflow' = [workflow EXCEPT !.reviewed = op.target]
      BY <2>2, <2>5
    <3>2. /\ workflow'.worker = workflow.worker /\ workflow'.reviewed = workflow.worker
          /\ workflow'.repairs = workflow.repairs
      BY <2>5, <3>1 DEF Inv, TypeOK
    <3> QED
      BY <2>5, <3>2 DEF Loop!Next, Loop!Review
  <2>6. CASE op.agent # "worker"
             /\ ~(op.agent = "reviewer" /\ op.target # None /\ op.target = workflow.worker)
    <3>1. workflow' = workflow
      BY <2>2, <2>6
    <3> QED
      BY <3>1 DEF Loop!vars
  <2> QED
    BY <2>4, <2>5, <2>6
<1> QED
  BY <1>1, <1>2

LEMMA WaitAcknowledge ==
  ASSUME Inv, WaitInv, NEW k \in Call, Acknowledge(k)
  PROVE  WaitInv' /\ (Waits => [Loop!Next]_(Loop!vars))
<1> USE MessageFacts
<1>0. UNCHANGED <<host, turn>> /\ k \in pending /\ pending' = pending \ {k}
  BY DEF Acknowledge
<1> SUFFICES ASSUME Waits PROVE WaitInv' /\ [Loop!Next]_(Loop!vars)
  BY <1>0 DEF WaitInv, Waits
<1>1. /\ msg[k].pc = "replied" /\ UNCHANGED background
      /\ CompleteChild(k, msg[k].child, repair)
      /\ msg' = [msg EXCEPT ![k].pc = "done"]
  <2>1. ~msg[k].background
    BY DEF WaitInv
  <2> QED
    BY <2>1 DEF Acknowledge, Goto
<1>2. msg[k].child \in Child
  BY <1>1, EntryFacts DEF Entry, Inv, CallInv
<1>3. \A j \in Call : InFlight(j) => j = k
  BY <1>0, <1>1 DEF WaitInv, InFlight
<1>4. /\ msg'[k].pc = "done" /\ msg'[k].background = msg[k].background
      /\ \A j \in Call \ {k} : msg'[j] = msg[j]
  BY <1>1, EntryFacts DEF Entry
<1>5. \A j \in Call : ~InFlight(j)'
  BY <1>0, <1>3, <1>4 DEF InFlight
<1>6. /\ [Loop!Next]_(Loop!vars)
      /\ workflow'.worker = workflow.worker \/ workflow'.worker.by = k
  BY <1>0, <1>1, <1>2, CompleteLoop
<1>7. workflow.worker # None => workflow.worker.by \in Call
  BY DEF Inv, TypeOK, Assignment
<1>8. workflow'.worker # None =>
        /\ workflow'.worker.by \notin pending'
        /\ msg'[workflow'.worker.by].pc \notin {"new", "before", "grant"}
  <2>1. CASE workflow'.worker = workflow.worker
    BY <1>0, <1>4, <1>7, <2>1 DEF WaitInv
  <2>2. CASE workflow'.worker.by = k
    BY <1>0, <1>4, <2>2
  <2> QED
    BY <1>6, <2>1, <2>2
<1>9. \A j \in Call : msg'[j].pc # "grant"
  BY <1>5 DEF InFlight
<1>10. /\ \A c \in Child : background'[c] = None
       /\ \A j \in Call : ~msg'[j].background
  BY <1>1, <1>4 DEF WaitInv
<1> QED
  BY <1>5, <1>6, <1>8, <1>9, <1>10 DEF WaitInv

LEMMA WaitHear ==
  ASSUME Inv, WaitInv, NEW m \in Message, Hear(m)
  PROVE  WaitInv' /\ (Waits => [Loop!Next]_(Loop!vars))
<1> USE MessageFacts
<1>0. UNCHANGED <<host, turn, msg>> /\ msg[m].child \in Child
  BY DEF Hear, Inv, TypeOK, CallInv
<1> SUFFICES ASSUME Waits PROVE WaitInv' /\ [Loop!Next]_(Loop!vars)
  BY <1>0 DEF WaitInv, Waits
<1>1. background[msg[m].child] = None
  BY <1>0 DEF WaitInv
<1>2. /\ UNCHANGED <<workflow, pending>>
      /\ background' \in {background, [background EXCEPT ![msg[m].child] = None]}
  BY <1>1 DEF Hear, plugin
<1>3. \A c \in Child : background'[c] \in {background[c], None}
  BY <1>2 DEF Inv, TypeOK
<1>4. WaitInv'
  BY <1>0, <1>2, <1>3, QuietStep
<1>5. UNCHANGED Loop!vars
  BY <1>2 DEF Loop!vars
<1> QED
  BY <1>4, <1>5

(* A new turn, and the end of the router, leave no call waiting in it.     *)
LEMMA WaitTurn ==
  ASSUME Inv, WaitInv, UserTurn \/ DeleteRouter
  PROVE  WaitInv' /\ [Loop!Next]_(Loop!vars)
<1> USE MessageFacts
<1>1. /\ UNCHANGED <<host, background, msg>> /\ pending' \subseteq pending
      /\ workflow' = [worker |-> None, reviewed |-> None, repairs |-> 0]
  BY DEF UserTurn, DeleteRouter
<1>2. Loop!Next
  BY <1>1 DEF Loop!Next, Loop!NewTurn
<1> SUFFICES ASSUME Waits PROVE WaitInv'
  BY <1>1, <1>2 DEF WaitInv, Waits
<1>3. \A k \in Call : msg'[k].pc = "grant" => msg'[k].turn # turn'
  <2>1. turn \in Nat /\ \A k \in Call : msg[k].turn \in Nat /\ msg[k].turn <= turn
    BY EntryFacts DEF Entry, Inv, TypeOK, CallInv
  <2>2. CASE UserTurn
    BY <1>1, <2>1, <2>2 DEF UserTurn
  <2>3. CASE DeleteRouter
    BY <1>1, <2>3 DEF DeleteRouter, Inv, GrantInv
  <2> QED
    BY <2>2, <2>3
<1>4. \A k \in Call : InFlight(k)' => InFlight(k)
  BY <1>1 DEF InFlight
<1>5. workflow'.worker = None
  BY <1>1
<1> QED
  BY <1>1, <1>3, <1>4, <1>5 DEF WaitInv

LEMMA WaitStep ==
  Inv /\ WaitInv /\ [Next]_vars => WaitInv' /\ [Waits => Loop!Next]_(Loop!vars)
<1> SUFFICES ASSUME Inv, WaitInv, [Next]_vars
             PROVE  WaitInv' /\ [Waits => Loop!Next]_(Loop!vars)
  OBVIOUS
<1> USE MessageFacts
<1> DEFINE Quiet == WaitInv' /\ UNCHANGED workflow
<1>1. Quiet => WaitInv' /\ [Waits => Loop!Next]_(Loop!vars)
  BY DEF Loop!vars
<1>2. CASE UNCHANGED vars
  <2>1. Quiet
    BY <1>2, QuietStep DEF vars, plugin
  <2> QED
    BY <1>1, <2>1
<1>3. ASSUME NEW k \in Call, Delegate(k)
      PROVE  WaitInv' /\ [Waits => Loop!Next]_(Loop!vars)
  <2>1. CASE Begin(k)
    BY <1>1, <2>1, WaitBegin DEF Begin
  <2>2. CASE Accept(k)
    BY <1>1, <2>2, WaitAccept DEF Accept
  <2>3. CASE TaskBlocked(k)
    <3>1. Quiet
      BY <2>3, QuietGoto DEF TaskBlocked, plugin, Pc
    <3> QED
      BY <1>1, <3>1
  <2> QED
    BY <1>3, <2>1, <2>2, <2>3, WaitGrant, WaitAcknowledge DEF Delegate
<1>4. ASSUME NEW m \in Other, Intrude(m) PROVE Quiet
  <2>1. m \notin Call
    BY WorkflowAssumption
  <2>2. \A k \in Call : msg'[k] = msg[k]
    BY <1>4, <2>1, EntryFacts DEF Intrude, Message
  <2> QED
    BY <1>4, <2>2, QuietStep DEF Intrude
<1>5. ASSUME NEW m \in Message, Prompt(m) \/ Route(m) PROVE Quiet
  <2>1. \A k \in Call :
          /\ msg'[k].background = msg[k].background /\ msg'[k].turn = msg[k].turn
          /\ msg'[k].pc # msg[k].pc =>
               msg[k].pc # "failed" /\ msg'[k].pc \notin {"new", "before", "grant"}
    BY <1>5, EntryFacts DEF Prompt, Route, Goto, Entry
  <2> QED
    BY <1>5, <2>1, QuietStep DEF Prompt, Route
<1>6. ASSUME NEW m \in Message, Infer(m) \/ ChildFails(m) \/ Reply(m) PROVE Quiet
  <2>1. PICK pc \in {"reply", "failed", "done", "replied"} : Goto(m, pc)
    BY <1>6 DEF Infer, ChildFails, Reply
  <2>2. msg[m].pc # "failed" /\ UNCHANGED <<host, turn, plugin>>
    BY <1>6 DEF Infer, ChildFails, Reply, InSession
  <2> QED
    BY <2>1, <2>2, QuietGoto DEF plugin, Pc
<1>7. ASSUME NEW m \in Message, Converse(m)
      PROVE  WaitInv' /\ [Waits => Loop!Next]_(Loop!vars)
  BY <1>1, <1>5, <1>6, <1>7, WaitHear DEF Converse
<1>8. ASSUME NEW k \in Call, Reopen(k) PROVE Quiet
  <2>1. \A j \in Call :
          /\ msg'[j].background = msg[j].background /\ msg'[j].turn = msg[j].turn
          /\ msg'[j].pc # msg[j].pc =>
               msg[j].pc # "failed" /\ msg'[j].pc \notin {"new", "before", "grant"}
    BY <1>8, EntryFacts DEF Reopen, Goto, Entry
  <2> QED
    BY <1>8, <2>1, QuietStep DEF Reopen, plugin
<1>9. ASSUME NEW c \in Child, DeleteChild(c) PROVE Quiet
  BY <1>9, QuietStep DEF DeleteChild, Inv, TypeOK
<1>10. CASE PinChanges
  <2>1. Quiet
    BY <1>10, QuietStep DEF PinChanges, plugin
  <2> QED
    BY <1>1, <2>1
<1> QED
  BY <1>1, <1>2, <1>3, <1>4, <1>7, <1>8, <1>9, <1>10, WaitTurn DEF Next

(* However a router that waits for its task calls delegates, and whatever  *)
(* happens to its children meanwhile, its turns go through the loop of     *)
(* work, review of that very work, and at most Limit repairs.              *)
THEOREM WaitingFollowsLoop == Spec => RepairsFollowReviews
<1>1. Init => Loop!Init
  BY DEF Init, Loop!Init
<1>2. Spec => [](Inv /\ WaitInv)
  <2>1. Inv /\ WaitInv /\ [Next]_vars => (Inv /\ WaitInv)'
    BY InvStep, WaitStep
  <2> QED
    BY <2>1, InvInit, WaitInit, PTL DEF Spec
<1>3. Inv /\ WaitInv /\ [Next]_vars => [Waits => Loop!Next]_(Loop!vars)
  BY WaitStep
<1> QED
  BY <1>1, <1>2, <1>3, PTL DEF Spec, RepairsFollowReviews


(***************************************************************************)
(* What is reviewed is work that was done.                                 *)
(***************************************************************************)

(* Finished, after the step.                                               *)
Ended(m) == msg'[m].pc \in {"replied", "done"}

(* A step that begins no call and moves no message to another child:       *)
(* messages only go forward, and nobody but the end of the router takes a  *)
(* call that is awaited from those that are pending.                       *)
Early == {"before", "grant", "prompt"}
Under == {"run", "reply", "replied"}
Past == Under \cup {"done", "failed"}
Forward ==
  \A n \in Message :
    /\ msg'[n].child = msg[n].child /\ msg'[n].background = msg[n].background
    /\ msg'[n].agent = msg[n].agent
    /\ (msg'[n].pc = "new") = (msg[n].pc = "new")
    /\ msg[n].pc = "done" => msg'[n].pc = "done"
    /\ Finished(n) => Ended(n) /\ msg'[n].target = msg[n].target
    /\ msg[n].pc \in Past => msg'[n].pc \in Past
    /\ msg'[n].pc \in Early => msg[n].pc \in Early
    /\ Busy(n)' => Busy(n)
    /\ turn' # Gone /\ Awaited(n)' => n \in pending'

LEMMA ForwardOne ==
  ASSUME Inv, OneAtATime, Forward, Inv'
  PROVE  OneAtATime'
<1> USE MessageFacts
<1>1. ASSUME NEW m \in Message, msg'[m].pc = "new" PROVE msg'[m].child = None /\ ~msg'[m].background
  BY <1>1 DEF Forward, OneAtATime
<1>2. ASSUME NEW m \in Other PROVE msg'[m].pc = "new"
  BY DEF Forward, OneAtATime, Message
<1>3. ASSUME NEW k \in Call, msg'[k].pc # "new" PROVE msg'[k].agent # "none"
  BY <1>3 DEF Forward, OneAtATime
<1>4. ASSUME NEW j \in Call, NEW k \in Call, msg'[k].background, msg'[k].pc # "done",
             msg'[j].child = msg'[k].child
      PROVE  j = k
  <2>1. msg[k].background /\ msg[k].pc # "done" /\ msg[j].child = msg[k].child
    BY <1>4 DEF Forward
  <2> QED
    BY <2>1 DEF OneAtATime
<1>5. ASSUME NEW j \in Call, NEW k \in Call, Busy(j)', Busy(k)', msg'[j].child = msg'[k].child
      PROVE  j = k
  <2>1. Busy(j) /\ Busy(k) /\ msg[j].child = msg[k].child
    BY <1>5 DEF Forward
  <2> QED
    BY <2>1 DEF OneAtATime
<1>6. ASSUME NEW k \in Call, turn' # Gone, Awaited(k)' PROVE k \in pending'
  BY <1>6 DEF Forward
<1> QED
  BY <1>1, <1>2, <1>3, <1>4, <1>5, <1>6 DEF OneAtATime

(* A step that gives no child a route.                                     *)
LEMMA ForwardKnown ==
  ASSUME Inv, Inv', OneAtATime, OnItsChild, Forward,
         \A c \in Child :
           /\ routes'[c] \in {routes[c], None}
           /\ completed'[c] # completed[c] /\ completed'[c] # None => Ended(completed'[c])
           /\ background'[c] # background[c] /\ background'[c] # None =>
                msg[background'[c]].background /\ msg[background'[c]].child = c
           /\ c \in deleted => c \in deleted'
           /\ c \in deleted' \ deleted => routes'[c] = None,
         \A m \in events' \ events : Ended(m),
         \A m \in Message :
           /\ msg'[m].pc \in Under => msg[m].pc \in Under
           /\ m \in pending' \ pending => msg'[m].pc \notin Under
           /\ msg'[m].pc = "route" => msg[m].pc = "route" \/ msg[m].child \notin deleted
  PROVE  OnItsChild'
<1> USE MessageFacts
<1>1. ASSUME NEW c \in Child, routes'[c] # None
      PROVE  /\ routes'[c].message \in Call /\ msg'[routes'[c].message].child = c
             /\ msg'[routes'[c].message].pc \in Past
  <2>1. routes'[c] = routes[c] /\ routes[c] # None
    BY <1>1
  <2>2. /\ routes[c].message \in Call /\ msg[routes[c].message].child = c
        /\ msg[routes[c].message].pc \in Past
    BY <2>1 DEF OnItsChild, Past, Under
  <2> QED
    BY <2>1, <2>2 DEF Forward
<1>2. ASSUME NEW k \in pending', msg'[k].pc \in Under, routes'[msg'[k].child] # None
      PROVE  routes'[msg'[k].child].message = k
  <2>1. k \in Message /\ msg[k].pc \in Under /\ k \in pending /\ msg'[k].child = msg[k].child
    BY <1>2 DEF Forward, Inv, TypeOK
  <2>2. msg[k].child \in Child
    BY <2>1 DEF Inv, TypeOK, CallInv, Under
  <2>3. routes'[msg[k].child] = routes[msg[k].child]
    BY <1>2, <2>1, <2>2
  <2> QED
    BY <1>2, <2>1, <2>3 DEF OnItsChild, Under
<1>3. ASSUME NEW m \in events' PROVE Ended(m)
  <2>1. m \in Message
    BY DEF Inv, TypeOK
  <2>2. CASE m \in events
    BY <2>1, <2>2 DEF OnItsChild, Forward
  <2> QED
    BY <2>1, <2>2
<1>4. ASSUME NEW c \in Child, completed'[c] # None PROVE Ended(completed'[c])
  <2>1. CASE completed'[c] = completed[c]
    <3>1. completed[c] \in Message /\ Finished(completed[c])
      BY <1>4, <2>1 DEF OnItsChild, Inv, TypeOK
    <3>2. Ended(completed[c])
      BY <3>1 DEF Forward
    <3> QED
      BY <2>1, <3>2
  <2> QED
    BY <1>4, <2>1
<1>5. ASSUME NEW c \in Child, background'[c] # None
      PROVE  /\ msg'[background'[c]].background
             /\ \/ msg'[background'[c]].child = c
                \/ /\ c \in deleted' /\ routes'[c] = None
                   /\ \A k \in Call : msg'[k].child = c => msg'[k].pc # "route"
  <2>1. background'[c] \in Message
    BY <1>5 DEF Inv, TypeOK
  <2>2. CASE background'[c] # background[c]
    BY <1>5, <2>1, <2>2 DEF Forward
  <2>3. CASE background'[c] = background[c]
    <3>1. /\ msg[background[c]].background
          /\ \/ msg[background[c]].child = c
             \/ /\ c \in deleted /\ routes[c] = None
                /\ \A k \in Call : msg[k].child = c => msg[k].pc # "route"
      BY <1>5, <2>3 DEF OnItsChild
    <3>2. msg'[background'[c]].background /\ msg'[background'[c]].child = msg[background[c]].child
      BY <2>1, <2>3, <3>1 DEF Forward
    <3>3. ASSUME c \in deleted, routes[c] = None,
                 \A k \in Call : msg[k].child = c => msg[k].pc # "route"
          PROVE  /\ c \in deleted' /\ routes'[c] = None
                 /\ \A k \in Call : msg'[k].child = c => msg'[k].pc # "route"
      <4>1. c \in deleted' /\ routes'[c] = None
        BY <3>3
      <4>2. ASSUME NEW k \in Call, msg'[k].child = c PROVE msg'[k].pc # "route"
        <5>1. msg[k].child = c
          BY <4>2 DEF Forward
        <5> QED
          BY <3>3, <5>1
      <4> QED
        BY <4>1, <4>2
    <3> QED
      BY <3>1, <3>2, <3>3
  <2> QED
    BY <2>2, <2>3
<1>6. ASSUME NEW c \in deleted', routes'[c] # None, NEW k \in Call, msg'[k].child = c
      PROVE  msg'[k].pc \notin Early
  <2>1. c \in Child /\ c \in deleted /\ routes[c] # None
    BY <1>6 DEF Inv, TypeOK
  <2>2. msg[k].child = c
    BY <1>6 DEF Forward
  <2>3. msg[k].pc \notin Early
    BY <2>1, <2>2 DEF OnItsChild, Early
  <2> QED
    BY <2>3 DEF Forward
<1> QED
  BY <1>1, <1>2, <1>3, <1>4, <1>5, <1>6 DEF OnItsChild, Past, Under, Early, Ended, Finished

(* What is reviewed stays so, or is replaced by what is.                   *)
LEMMA RealStep ==
  ASSUME Inv, Inv', Alone, ReviewIsReal,
         \A n \in Message : Finished(n) =>
           Ended(n) /\ msg'[n].agent = msg[n].agent /\ msg'[n].target = msg[n].target,
         \/ workflow'.worker \in {workflow.worker, None}
         \/ workflow'.worker.message \in Message /\ Ended(workflow'.worker.message),
         \/ workflow'.reviewed \in {workflow.reviewed, None}
         \/ \E k \in Call : /\ msg'[k].agent = "reviewer" /\ msg'[k].target = workflow'.reviewed
                            /\ Ended(k)
  PROVE  ReviewIsReal'
<1> USE MessageFacts
<1>1. ASSUME workflow'.worker # None PROVE Ended(workflow'.worker.message)
  <2>1. CASE workflow'.worker = workflow.worker
    <3>1. workflow.worker.message \in Message
      BY <1>1, <2>1 DEF Inv, TypeOK, Assignment
    <3>2. Finished(workflow.worker.message)
      BY <1>1, <2>1 DEF ReviewIsReal
    <3>3. Ended(workflow.worker.message)
      BY <3>1, <3>2
    <3> QED
      BY <2>1, <3>3
  <2> QED
    BY <1>1, <2>1
<1>2. ASSUME workflow'.reviewed # None
      PROVE  \E k \in Call : /\ msg'[k].agent = "reviewer" /\ msg'[k].target = workflow'.reviewed
                             /\ Ended(k)
  <2>1. CASE workflow'.reviewed = workflow.reviewed
    <3>1. PICK k \in Call : msg[k].agent = "reviewer" /\ msg[k].target = workflow.reviewed
                              /\ Finished(k)
      BY <1>2, <2>1 DEF ReviewIsReal
    <3>2. /\ msg'[k].agent = "reviewer" /\ msg'[k].target = workflow'.reviewed
          /\ Ended(k)
      BY <2>1, <3>1
    <3> QED
      BY <3>2
  <2> QED
    BY <1>2, <2>1
<1> QED
  BY <1>1, <1>2 DEF ReviewIsReal, Ended, Finished

(* What a completion makes of the workflow.                                *)
LEMMA CompleteReal ==
  ASSUME Inv, NEW k \in Call, NEW c \in Child, NEW granted, CompleteChild(k, c, granted)
  PROVE  /\ \/ workflow'.worker = workflow.worker
            \/ routes[c] # None /\ workflow'.worker.message = routes[c].message
         /\ \/ workflow'.reviewed \in {workflow.reviewed, None}
            \/ /\ routes[c] # None
               /\ msg[k].agent = "reviewer" /\ msg[k].target = workflow'.reviewed
<1> DEFINE route == routes[c]
           op == msg[k]
           valid == route # None /\ route.agent = op.agent /\ op.turn = turn /\ turn # Gone
           assignment == [by |-> k, message |-> route.message, child |-> c,
                          model |-> route.model]
<1>1. CASE ~valid
  BY <1>1 DEF CompleteChild
<1>2. CASE valid
  <2>1. workflow' =
          CASE op.agent = "worker" ->
                 [workflow EXCEPT !.worker = assignment, !.reviewed = None]
            [] op.agent = "reviewer" /\ op.target # None /\ op.target = workflow.worker ->
                 [workflow EXCEPT !.reviewed = op.target]
            [] OTHER -> workflow
    BY <1>2, Zenon DEF CompleteChild
  <2>2. assignment.message = route.message
    OBVIOUS
  <2> HIDE DEF assignment, route, valid
  <2>3. CASE op.agent = "worker"
    <3>1. workflow' = [workflow EXCEPT !.worker = assignment, !.reviewed = None]
      BY <2>1, <2>3
    <3>2. workflow'.worker = assignment /\ workflow'.reviewed = None
      BY <3>1 DEF Inv, TypeOK
    <3> QED
      BY <1>2, <2>2, <3>2 DEF route, valid
  <2>4. CASE op.agent = "reviewer" /\ op.target # None /\ op.target = workflow.worker
    <3>1. workflow' = [workflow EXCEPT !.reviewed = op.target]
      BY <2>1, <2>4
    <3>2. workflow'.worker = workflow.worker /\ workflow'.reviewed = op.target
      BY <3>1 DEF Inv, TypeOK
    <3> QED
      BY <1>2, <2>4, <3>2 DEF route, valid
  <2>5. CASE op.agent # "worker"
             /\ ~(op.agent = "reviewer" /\ op.target # None /\ op.target = workflow.worker)
    BY <2>1, <2>5
  <2> QED
    BY <2>3, <2>4, <2>5
<1> QED
  BY <1>1, <1>2

Reviewable == Alone /\ OneAtATime /\ OnItsChild /\ ReviewIsReal

(* A step that adds nothing to what is known of the children.              *)
LEMMA ForwardStep ==
  ASSUME Inv, Inv', Reviewable, UNCHANGED host, Forward,
         \A c \in Child :
           /\ routes'[c] \in {routes[c], None} /\ completed'[c] \in {completed[c], None}
           /\ background'[c] \in {background[c], None}
           /\ c \in deleted => c \in deleted'
           /\ c \in deleted' \ deleted => routes'[c] = None,
         \A m \in events' \ events : Ended(m),
         \A m \in Message :
           /\ msg'[m].pc \in Under => msg[m].pc \in Under
           /\ m \in pending' \ pending => msg'[m].pc \notin Under
           /\ msg'[m].pc = "route" => msg[m].pc = "route" \/ msg[m].child \notin deleted,
         workflow'.worker \in {workflow.worker, None},
         workflow'.reviewed \in {workflow.reviewed, None}
  PROVE  Reviewable'
<1>1. OneAtATime'
  BY ForwardOne DEF Reviewable
<1>2. OnItsChild'
  BY ForwardKnown DEF Reviewable
<1>3. \A n \in Message : Finished(n) =>
        Ended(n) /\ msg'[n].agent = msg[n].agent /\ msg'[n].target = msg[n].target
  BY DEF Forward
<1>4. ReviewIsReal'
  BY <1>3, RealStep DEF Reviewable
<1> QED
  BY <1>1, <1>2, <1>4 DEF Reviewable, Alone

(* One call's message goes forward.                                        *)
LEMMA ForwardOf ==
  ASSUME Inv, NEW m \in Message,
         \A n \in Message \ {m} : msg'[n] = msg[n],
         msg'[m].child = msg[m].child, msg'[m].background = msg[m].background,
         msg'[m].agent = msg[m].agent,
         msg[m].pc \notin {"new", "done"}, msg'[m].pc # "new",
         Finished(m) => Ended(m) /\ msg'[m].target = msg[m].target,
         msg[m].pc \in Past => msg'[m].pc \in Past,
         msg'[m].pc \in Early => msg[m].pc \in Early,
         Busy(m)' => Busy(m),
         turn' # Gone /\ Awaited(m)' => m \in pending',
         turn' # Gone => turn # Gone /\ pending \ {m} \subseteq pending',
         pending' \subseteq pending \cup {m}, OneAtATime, m \in Call
  PROVE  Forward
<1> SUFFICES ASSUME NEW n \in Message
             PROVE  /\ msg'[n].child = msg[n].child /\ msg'[n].background = msg[n].background
                    /\ msg'[n].agent = msg[n].agent
                    /\ (msg'[n].pc = "new") = (msg[n].pc = "new")
                    /\ msg[n].pc = "done" => msg'[n].pc = "done"
                    /\ Finished(n) => Ended(n) /\ msg'[n].target = msg[n].target
                    /\ msg[n].pc \in Past => msg'[n].pc \in Past
                    /\ msg'[n].pc \in Early => msg[n].pc \in Early
                    /\ Busy(n)' => Busy(n)
                    /\ turn' # Gone /\ Awaited(n)' => n \in pending'
  BY DEF Forward
<1>1. CASE n = m
  BY <1>1
<1>2. CASE n # m
  <2>1. msg'[n] = msg[n] /\ (n \in pending' => n \in pending)
    BY <1>2
  <2>2. Busy(n)' => Busy(n)
    BY <2>1 DEF Busy
  <2>3. ASSUME turn' # Gone, Awaited(n)' PROVE n \in pending'
    <3>1. Awaited(n) /\ turn # Gone
      BY <2>1, <2>3 DEF Awaited
    <3>2. n \in Call
      BY <3>1 DEF OneAtATime, Awaited, Message, InSession
    <3>3. n \in pending
      BY <3>1, <3>2 DEF OneAtATime
    <3> QED
      BY <1>2, <2>3, <3>3
  <2> QED
    BY <2>1, <2>2, <2>3 DEF Ended, Finished
<1> QED
  BY <1>1, <1>2

(* No message moves at all.                                                *)
LEMMA ForwardStill ==
  ASSUME Inv, OneAtATime, UNCHANGED msg, pending' \subseteq pending,
         turn' # Gone => turn # Gone /\ pending \subseteq pending'
  PROVE  Forward
<1> SUFFICES ASSUME NEW n \in Message
             PROVE  /\ Finished(n) => Ended(n)
                    /\ Busy(n)' => Busy(n)
                    /\ turn' # Gone /\ Awaited(n)' => n \in pending'
  BY DEF Forward
<1>1. Finished(n) => Ended(n)
  BY DEF Finished, Ended
<1>2. Busy(n)' => Busy(n)
  BY DEF Busy
<1>3. ASSUME turn' # Gone, Awaited(n)' PROVE n \in pending'
  <2>1. Awaited(n) /\ turn # Gone
    BY <1>3 DEF Awaited
  <2>2. n \in Call
    BY <2>1 DEF OneAtATime, Awaited, Message, InSession
  <2> QED
    BY <1>3, <2>1, <2>2 DEF OneAtATime
<1> QED
  BY <1>1, <1>2, <1>3

LEMMA RealAccept == ASSUME Inv, Inv', Reviewable, NEW k \in Call, Accept(k) PROVE Reviewable'
<1> USE MessageFacts
<1>1. PICK pc \in {"prompt", "grant", "failed"}, target \in Assignment \cup {None} :
        /\ msg' = [msg EXCEPT ![k].pc = pc, ![k].turn = turn, ![k].target = target]
        /\ pending' = IF pc = "prompt" THEN pending \cup {k} ELSE pending
  <2>1. workflow.worker \in Assignment \cup {None}
    BY DEF Inv, TypeOK
  <2> QED
    BY <2>1 DEF Accept
<1>2. /\ \A n \in Message \ {k} : msg'[n] = msg[n]
      /\ msg'[k].pc = pc /\ msg'[k].child = msg[k].child /\ msg'[k].agent = msg[k].agent
      /\ msg'[k].background = msg[k].background
  BY <1>1, EntryFacts DEF Entry
<1>3. msg[k].pc = "before" /\ UNCHANGED <<host, turn, deleted, workflow, routes, background,
                                          completed, events>>
  BY DEF Accept
<1>4. OneAtATime
  BY DEF Reviewable
<1>5. Busy(k) /\ ~Finished(k)
  BY <1>3 DEF Busy, Finished
<1>6. Awaited(k)' => k \in pending'
  BY <1>1, <1>2 DEF Awaited, InSession
<1>7. Forward
  BY <1>1, <1>2, <1>3, <1>4, <1>5, <1>6, ForwardOf DEF Past, Under, Early
<1>8. \A m \in Message :
        /\ msg'[m].pc \in Under => msg[m].pc \in Under
        /\ m \in pending' \ pending => msg'[m].pc \notin Under
        /\ msg'[m].pc = "route" => msg[m].pc = "route" \/ msg[m].child \notin deleted
  BY <1>1, <1>2 DEF Under
<1> QED
  BY <1>3, <1>7, <1>8, ForwardStep

LEMMA RealGrant ==
  ASSUME Inv, Inv', Reviewable, NEW k \in Call, Grant(k) \/ TaskBlocked(k)
  PROVE  Reviewable'
<1> USE MessageFacts
<1>1. PICK pc \in {"prompt", "failed"} :
        /\ msg' = [msg EXCEPT ![k].pc = pc]
        /\ pending' \in {pending, pending \cup {k}} /\ (pc = "prompt" => k \in pending')
  BY DEF Grant, TaskBlocked, Goto, plugin
<1>2. /\ \A n \in Message \ {k} : msg'[n] = msg[n]
      /\ msg'[k].pc = pc /\ msg'[k].child = msg[k].child /\ msg'[k].agent = msg[k].agent
      /\ msg'[k].background = msg[k].background
  BY <1>1, EntryFacts DEF Entry
<1>3. /\ msg[k].pc \in {"before", "grant"}
      /\ UNCHANGED <<host, turn, deleted, routes, background, completed,
                       events>>
  BY DEF Grant, TaskBlocked, plugin
<1>4. workflow'.worker = workflow.worker /\ workflow'.reviewed \in {workflow.reviewed, None}
  <2>1. workflow' \in {workflow, [workflow EXCEPT !.repairs = @ + 1, !.reviewed = None]}
    BY DEF Grant, TaskBlocked, plugin
  <2>2. workflow \in [worker : Assignment \cup {None}, reviewed : Assignment \cup {None},
                     repairs : Nat]
    BY DEF Inv, TypeOK
  <2> QED
    BY <2>1, <2>2
<1>5. Busy(k) /\ ~Finished(k)
  BY <1>3 DEF Busy, Finished
<1>6. Awaited(k)' => k \in pending'
  BY <1>1, <1>2 DEF Awaited, InSession
<1>7. Forward
  <2>1. OneAtATime
    BY DEF Reviewable
  <2> QED
    BY <1>1, <1>2, <1>3, <1>5, <1>6, <2>1, ForwardOf DEF Past, Under, Early
<1>8. \A m \in Message :
        /\ msg'[m].pc \in Under => msg[m].pc \in Under
        /\ m \in pending' \ pending => msg'[m].pc \notin Under
        /\ msg'[m].pc = "route" => msg[m].pc = "route" \/ msg[m].child \notin deleted
  BY <1>1, <1>2 DEF Under
<1> QED
  BY <1>3, <1>4, <1>7, <1>8, ForwardStep

(* Prompted messages are calls of the router.                              *)
LEMMA OnlyCalls ==
  ASSUME OneAtATime, NEW m \in Message, msg[m].pc # "new"
  PROVE  m \in Call /\ msg[m].agent # "none"
BY DEF OneAtATime, Message

LEMMA RealConverse ==
  ASSUME Inv, Inv', Reviewable, NEW m \in Message,
         Prompt(m) \/ Infer(m) \/ ChildFails(m) \/ Reply(m)
  PROVE  Reviewable'
<1> USE MessageFacts
<1>1. OneAtATime /\ msg[m].pc \in {"prompt"} \cup InSession
  BY DEF Reviewable, Prompt, Infer, ChildFails, Reply, InSession
<1>2. m \in Call /\ msg[m].agent # "none"
  BY <1>1, OnlyCalls DEF InSession
<1>0. msg[m].child \in Child
  BY <1>1, EntryFacts DEF Inv, CallInv, Entry, InSession
<1>3. PICK pc \in {"route", "reply", "failed", "done", "replied"}, grant \in Call \cup {None} :
        /\ msg' = [msg EXCEPT ![m].pc = pc, ![m].grant = grant]
             \/ msg' = [msg EXCEPT ![m].pc = pc]
        /\ pc = "route" => msg[m].pc = "prompt" /\ msg[m].child \notin deleted
        /\ pc = "reply" => msg[m].pc = "run"
        /\ pc = "done" => msg[m].pc = "reply"
        /\ pc = "replied" => msg[m].pc = "reply" /\ ~(msg[m].background /\ m \notin pending)
        /\ events' = events \/ (events' = events \cup {m} /\ pc \in {"done", "replied"})
  <2>1. CASE Prompt(m)
    <3>1. retained[msg[m].child] \in Call \cup {None}
      BY <1>0 DEF Inv, TypeOK
    <3> QED
      BY <1>2, <2>1, <3>1 DEF Prompt
  <2>2. CASE Infer(m)
    BY <2>2 DEF Infer, Goto
  <2>3. CASE ChildFails(m)
    BY <2>3 DEF ChildFails, Goto
  <2>4. CASE Reply(m)
    BY <2>4 DEF Reply, Goto
  <2> QED
    BY <2>1, <2>2, <2>3, <2>4
<1>4. /\ \A n \in Message \ {m} : msg'[n] = msg[n]
      /\ msg'[m].pc = pc /\ msg'[m].child = msg[m].child /\ msg'[m].agent = msg[m].agent
      /\ msg'[m].background = msg[m].background
  BY <1>3, EntryFacts DEF Entry
<1>5. UNCHANGED <<host, turn, deleted, workflow, pending, background, completed>>
  BY DEF Prompt, Infer, ChildFails, Reply, plugin
<1>6. \A c \in Child : routes'[c] \in {routes[c], None}
  BY DEF Prompt, Infer, ChildFails, Reply, plugin, Inv, TypeOK
<1>7. Busy(m) /\ ~Finished(m)
  BY <1>1 DEF Busy, Finished, InSession
<1>8. ASSUME turn' # Gone, Awaited(m)' PROVE m \in pending'
  <2>1. CASE ~msg[m].background
    <3>1. Awaited(m)
      BY <1>1, <2>1 DEF Awaited
    <3> QED
      BY <1>2, <1>1, <1>5, <1>8, <3>1 DEF OneAtATime
  <2>2. CASE msg[m].background
    <3>1. pc = "replied"
      BY <1>4, <1>8, <2>2 DEF Awaited
    <3> QED
      BY <1>3, <1>5, <2>2, <3>1
  <2> QED
    BY <2>1, <2>2
<1>9. msg[m].pc \in Past => pc \in Past
  BY <1>3, <1>1 DEF Past, Under, InSession
<1>10. Forward
  BY <1>1, <1>2, <1>3, <1>4, <1>5, <1>7, <1>8, <1>9, ForwardOf DEF Early, InSession
<1>11. \A n \in Message :
        /\ msg'[n].pc \in Under => msg[n].pc \in Under
        /\ n \in pending' \ pending => msg'[n].pc \notin Under
        /\ msg'[n].pc = "route" => msg[n].pc = "route" \/ msg[n].child \notin deleted
  BY <1>3, <1>4, <1>5 DEF Under
<1>12. \A n \in events' \ events : Ended(n)
  BY <1>3, <1>4 DEF Ended
<1> QED
  BY <1>5, <1>6, <1>10, <1>11, <1>12, ForwardStep

LEMMA RealRest ==
  ASSUME Inv, Inv', Reviewable,
         UserTurn \/ DeleteRouter \/ PinChanges \/ \E c \in Child : DeleteChild(c)
  PROVE  Reviewable'
<1> USE MessageFacts
<1>1. UNCHANGED <<host, msg, events>> /\ pending' \subseteq pending
  BY DEF UserTurn, DeleteRouter, PinChanges, DeleteChild, plugin
<1>2. turn' # Gone => turn # Gone /\ pending \subseteq pending'
  <2>1. turn \in Nat /\ host.turns \in 0..MaxTurn /\ MaxTurn \in Nat
    BY WorkflowAssumption DEF Inv, TypeOK
  <2>2. turn < host.turns => turn # Gone
    BY <2>1 DEF Gone
  <2> QED
    BY <2>2 DEF UserTurn, DeleteRouter, PinChanges, DeleteChild, plugin
<1>3. Forward
  BY <1>1, <1>2, ForwardStill DEF Reviewable
<1>4. \A c \in Child :
           /\ routes'[c] \in {routes[c], None} /\ completed'[c] \in {completed[c], None}
           /\ background'[c] \in {background[c], None}
           /\ c \in deleted => c \in deleted'
           /\ c \in deleted' \ deleted => routes'[c] = None
  BY DEF UserTurn, DeleteRouter, PinChanges, DeleteChild, plugin, Inv, TypeOK
<1>5. workflow'.worker \in {workflow.worker, None} /\ workflow'.reviewed \in {workflow.reviewed, None}
  BY DEF UserTurn, DeleteRouter, PinChanges, DeleteChild, plugin
<1> QED
  BY <1>1, <1>3, <1>4, <1>5, ForwardStep

LEMMA RealAcknowledge ==
  ASSUME Inv, Inv', Reviewable, NEW k \in Call, Acknowledge(k)
  PROVE  Reviewable'
<1> USE MessageFacts
<1> DEFINE c == msg[k].child
<1>1. /\ OneAtATime /\ OnItsChild /\ ReviewIsReal /\ Alone
      /\ k \in pending /\ pending' = pending \ {k} /\ k \in Message
      /\ UNCHANGED <<host, turn, deleted, routes, completed, events>>
      /\ msg[k].background \/ msg[k].pc = "replied"
  BY DEF Reviewable, Acknowledge
<1>2. c \in Child /\ msg[k].pc # "new"
  BY <1>1, EntryFacts DEF Inv, CallInv, Entry
<1>3. /\ \A n \in Message \ {k} : msg'[n] = msg[n]
      /\ msg'[k].pc = IF msg[k].pc = "replied" THEN "done" ELSE msg[k].pc
      /\ msg'[k].child = msg[k].child /\ msg'[k].agent = msg[k].agent
      /\ msg'[k].background = msg[k].background /\ msg'[k].target = msg[k].target
  BY EntryFacts DEF Acknowledge, Goto, Entry
<1>4. Forward
  <2>1. SUFFICES ASSUME NEW n \in Message
                 PROVE  /\ msg'[n].child = msg[n].child /\ msg'[n].background = msg[n].background
                        /\ msg'[n].agent = msg[n].agent
                        /\ (msg'[n].pc = "new") = (msg[n].pc = "new")
                        /\ msg[n].pc = "done" => msg'[n].pc = "done"
                        /\ Finished(n) => Ended(n) /\ msg'[n].target = msg[n].target
                        /\ msg[n].pc \in Past => msg'[n].pc \in Past
                        /\ msg'[n].pc \in Early => msg[n].pc \in Early
                        /\ Busy(n)' => Busy(n)
                        /\ turn' # Gone /\ Awaited(n)' => n \in pending'
    BY DEF Forward
  <2>2. Busy(n)' => Busy(n)
    BY <1>1, <1>3 DEF Busy, InSession
  <2>3. ASSUME turn' # Gone, Awaited(n)' PROVE n \in pending'
    <3>1. n # k
      <4>1. CASE msg[k].pc = "replied"
        BY <1>3, <2>3, <4>1 DEF Awaited, InSession
      <4>2. CASE msg[k].pc # "replied"
        BY <1>1, <1>3, <2>3, <4>2 DEF Awaited
      <4> QED
        BY <4>1, <4>2
    <3>2. Awaited(n) /\ turn # Gone
      BY <1>1, <1>3, <2>3, <3>1 DEF Awaited
    <3>3. n \in Call
      BY <1>1, <3>2, OnlyCalls DEF Awaited, InSession
    <3> QED
      BY <1>1, <3>1, <3>2, <3>3 DEF OneAtATime
  <2>4. CASE n = k
    BY <1>3, <2>2, <2>3, <2>4 DEF Finished, Ended, Past, Under, Early
  <2>5. CASE n # k
    BY <1>3, <2>2, <2>3, <2>5 DEF Finished, Ended
  <2> QED
    BY <2>4, <2>5
<1>5. OneAtATime'
  BY <1>1, <1>4, ForwardOne
<1>6. /\ background' = [background EXCEPT ![c] = k] /\ msg[k].background /\ UNCHANGED workflow
      \/ /\ UNCHANGED background /\ CompleteChild(k, c, repair)
         /\ msg[k].background => /\ completed[c] # None /\ routes[c] # None
                                 /\ completed[c] = routes[c].message
  BY DEF Acknowledge
<1>7. OnItsChild'
  <2>1. \A d \in Child : background'[d] # background[d] /\ background'[d] # None =>
          msg[background'[d]].background /\ msg[background'[d]].child = d
    BY <1>2, <1>6 DEF Inv, TypeOK
  <2>2. \A m \in Message :
           /\ msg'[m].pc \in Under => msg[m].pc \in Under
           /\ m \in pending' \ pending => msg'[m].pc \notin Under
           /\ msg'[m].pc = "route" => msg[m].pc = "route" \/ msg[m].child \notin deleted
    BY <1>1, <1>3 DEF Under
  <2> QED
    BY <1>1, <1>4, <2>1, <2>2, ForwardKnown
(* The work and the call are done, not only acknowledged.                  *)
<1>8. ASSUME CompleteChild(k, c, repair), routes[c] # None,
             msg[k].background => completed[c] # None /\ completed[c] = routes[c].message
      PROVE  Finished(routes[c].message) /\ Finished(k)
  <2>1. CASE msg[k].background
    <3>1. Finished(routes[c].message)
      BY <1>1, <1>2, <1>8, <2>1 DEF OnItsChild
    <3>2. routes[c].message \in Call /\ msg[routes[c].message].child = c
      BY <1>1, <1>2, <1>8 DEF OnItsChild
    <3>3. msg[k].pc = "done" \/ routes[c].message = k
      BY <1>1, <2>1, <3>2 DEF OneAtATime
    <3> QED
      BY <3>1, <3>3 DEF Finished
  <2>2. CASE ~msg[k].background
    <3>1. msg[k].pc = "replied"
      BY <1>1, <2>2
    <3>2. routes[c].message = k
      BY <1>1, <1>8, <3>1 DEF OnItsChild
    <3> QED
      BY <3>1, <3>2 DEF Finished
  <2> QED
    BY <2>1, <2>2
<1>9. \A n \in Message : Finished(n) =>
        Ended(n) /\ msg'[n].agent = msg[n].agent /\ msg'[n].target = msg[n].target
  BY <1>4 DEF Forward
<1>10. ReviewIsReal'
  <2>1. CASE UNCHANGED workflow
    BY <1>1, <1>9, <2>1, RealStep
  <2>2. CASE /\ CompleteChild(k, c, repair)
             /\ msg[k].background => /\ completed[c] # None /\ routes[c] # None
                                     /\ completed[c] = routes[c].message
    <3>1. /\ \/ workflow'.worker = workflow.worker
             \/ routes[c] # None /\ workflow'.worker.message = routes[c].message
          /\ \/ workflow'.reviewed \in {workflow.reviewed, None}
             \/ /\ routes[c] # None
                /\ msg[k].agent = "reviewer" /\ msg[k].target = workflow'.reviewed
      BY <1>2, <2>2, CompleteReal
    <3>2. routes[c] # None => /\ Ended(routes[c].message) /\ Ended(k)
                              /\ routes[c].message \in Message
      <4>1. routes[c] # None => routes[c].message \in Message
        BY <1>1, <1>2 DEF OnItsChild
      <4> QED
        BY <1>1, <1>8, <1>9, <2>2, <4>1
    <3>3. \/ workflow'.worker \in {workflow.worker, None}
          \/ workflow'.worker.message \in Message /\ Ended(workflow'.worker.message)
      <4>1. CASE workflow'.worker = workflow.worker
        BY <4>1
      <4>2. CASE routes[c] # None /\ workflow'.worker.message = routes[c].message
        BY <3>2, <4>2 DEF Ended
      <4> QED
        BY <3>1, <4>1, <4>2
    <3>4. \/ workflow'.reviewed \in {workflow.reviewed, None}
          \/ /\ msg'[k].agent = "reviewer" /\ msg'[k].target = workflow'.reviewed
             /\ Ended(k)
      BY <1>3, <3>1, <3>2
    <3> QED
      BY <1>1, <1>9, <3>3, <3>4, RealStep
  <2> QED
    BY <1>6, <2>1, <2>2
<1> QED
  BY <1>1, <1>5, <1>7, <1>10 DEF Reviewable, Alone

LEMMA RealHear == ASSUME Inv, Inv', Reviewable, NEW m \in Message, Hear(m) PROVE Reviewable'
<1> USE MessageFacts
<1> DEFINE c == msg[m].child
           k == background[c]
<1>1. /\ OneAtATime /\ OnItsChild /\ ReviewIsReal /\ Alone
      /\ UNCHANGED <<host, turn, deleted, msg, pending, routes>> /\ m \in events
      /\ events' \subseteq events
  BY DEF Reviewable, Hear, plugin
<1>2. c \in Child
  BY <1>1, EntryFacts DEF Inv, CallInv, Entry
<1>3. Forward
  BY <1>1, ForwardStill
<1>4. OneAtATime'
  BY <1>1, <1>3, ForwardOne
<1>5. \A n \in Message : Finished(n) =>
        Ended(n) /\ msg'[n].agent = msg[n].agent /\ msg'[n].target = msg[n].target
  BY <1>3 DEF Forward
<1>6. m \in Message /\ Ended(m)
  BY <1>1, <1>5 DEF OnItsChild
<1>7. OnItsChild'
  <2>1. \A d \in Child : completed'[d] \in {completed[d], m} /\ background'[d] \in {background[d], None}
    BY DEF Hear, plugin, Inv, TypeOK
  <2> QED
    BY <1>1, <1>3, <1>6, <2>1, ForwardKnown
<1>8. \/ UNCHANGED workflow
      \/ /\ k # None /\ CompleteChild(k, c, Deactivated(repair, routes[c].repair))
         /\ routes[c] # None /\ routes[c].message = m
  BY DEF Hear, plugin
<1>9. ReviewIsReal'
  <2>1. CASE UNCHANGED workflow
    BY <1>1, <1>5, <2>1, RealStep
  <2>2. CASE /\ k # None /\ CompleteChild(k, c, Deactivated(repair, routes[c].repair))
             /\ routes[c] # None /\ routes[c].message = m
    <3>1. k \in Call
      BY <1>2, <2>2 DEF Inv, TypeOK
    <3>2. /\ \/ workflow'.worker = workflow.worker
             \/ routes[c] # None /\ workflow'.worker.message = routes[c].message
          /\ \/ workflow'.reviewed \in {workflow.reviewed, None}
             \/ /\ routes[c] # None
                /\ msg[k].agent = "reviewer" /\ msg[k].target = workflow'.reviewed
      BY <1>2, <2>2, <3>1, CompleteReal
    <3>3. msg[k].background /\ msg[k].child = c
      BY <1>1, <1>2, <2>2 DEF OnItsChild
    <3>4. m \in Call
      BY <1>1, <1>2, <2>2 DEF OnItsChild
    <3>5. msg[k].pc = "done" \/ m = k
      BY <1>1, <3>1, <3>3, <3>4 DEF OneAtATime
    <3>6. Finished(k)
      BY <1>1, <3>5 DEF Finished, OnItsChild
    <3>7. Ended(k)
      BY <1>5, <3>1, <3>6
    <3>8. \/ workflow'.worker \in {workflow.worker, None}
          \/ workflow'.worker.message \in Message /\ Ended(workflow'.worker.message)
      <4>1. CASE workflow'.worker = workflow.worker
        BY <4>1
      <4>2. CASE workflow'.worker.message = m
        BY <1>6, <4>2 DEF Ended
      <4> QED
        BY <2>2, <3>2, <4>1, <4>2
    <3>9. \/ workflow'.reviewed \in {workflow.reviewed, None}
          \/ /\ msg'[k].agent = "reviewer" /\ msg'[k].target = workflow'.reviewed
             /\ Ended(k)
      BY <1>1, <3>2, <3>7
    <3> QED
      BY <1>1, <1>5, <3>1, <3>8, <3>9, RealStep
  <2> QED
    BY <1>8, <2>1, <2>2
<1> QED
  BY <1>1, <1>4, <1>7, <1>9 DEF Reviewable, Alone

LEMMA RealRoute == ASSUME Inv, Inv', Reviewable, NEW m \in Message, Route(m) PROVE Reviewable'
<1> USE MessageFacts
<1> DEFINE c == msg[m].child
<1>1. /\ OneAtATime /\ OnItsChild /\ ReviewIsReal /\ Alone /\ msg[m].pc = "route"
      /\ UNCHANGED <<host, turn, deleted, workflow, pending, background, events>>
  BY DEF Reviewable, Route
<1>2. m \in Call /\ c \in Child
  <2>1. m \in Call
    BY <1>1, OnlyCalls
  <2> QED
    BY <1>1, <2>1, EntryFacts DEF Inv, CallInv, Entry
<1>3. /\ \A n \in Message \ {m} : msg'[n] = msg[n]
      /\ msg'[m].pc = "run" /\ msg'[m].child = c /\ msg'[m].agent = msg[m].agent
      /\ msg'[m].background = msg[m].background
  BY EntryFacts DEF Route, Entry
<1>4. /\ routes'[c] # None /\ routes'[c].message = m
      /\ \A d \in Child \ {c} : routes'[d] = routes[d]
      /\ \A d \in Child : completed'[d] \in {completed[d], None}
  <2> DEFINE g == msg[m].grant
             model == IF g = None THEN pin ELSE repair[g].model
             route == [message |-> m, agent |-> msg[m].agent, repair |-> g, model |-> model]
  <2>1. /\ routes' = [routes EXCEPT ![c] = route]
        /\ completed' = [completed EXCEPT ![c] = None]
    BY DEF Route
  <2>2. msg[m].agent \in Agent /\ g \in Call \cup {None}
    BY EntryFacts DEF Entry
  <2>3. pin \in Model /\ (g # None => repair[g] \in Repair)
    BY <2>2 DEF Inv, TypeOK
  <2>4. model \in Model
    BY <2>3 DEF Repair
  <2> HIDE DEF model
  <2>5. route \in RouteOf /\ route.message = m
    BY <2>2, <2>4 DEF RouteOf
  <2>6. route # None
    BY <2>5
  <2>7. /\ routes \in [Child -> RouteOf \cup {None}]
        /\ completed \in [Child -> Message \cup {None}]
    BY DEF Inv, TypeOK
  <2> HIDE DEF route, g, c
  <2>8. routes'[c] = route /\ \A d \in Child \ {c} : routes'[d] = routes[d]
    BY <1>2, <2>1, <2>7
  <2>9. \A d \in Child : completed'[d] \in {completed[d], None}
    BY <2>1, <2>7
  <2> QED
    BY <2>5, <2>6, <2>8, <2>9
<1>5. /\ \A n \in Message : Busy(n)' => Busy(n)
      /\ Busy(m) /\ ~Finished(m)
  BY <1>1, <1>3 DEF Busy, InSession, Finished
<1>6. turn' # Gone /\ Awaited(m)' => m \in pending'
  BY <1>1, <1>2, <1>3 DEF Awaited, InSession, OneAtATime
<1>7. Forward
  BY <1>1, <1>2, <1>3, <1>5, <1>6, ForwardOf DEF Past, Under, Early
<1>8. OneAtATime'
  BY <1>1, <1>7, ForwardOne
(* Nobody else is busy on the child.                                       *)
<1>9. \A j \in Call : msg[j].child = c /\ j # m => ~Busy(j)
  BY <1>1, <1>2, <1>5 DEF OneAtATime
<1>10. OnItsChild'
  <2>1. ASSUME NEW d \in Child, routes'[d] # None
        PROVE  /\ routes'[d].message \in Call /\ msg'[routes'[d].message].child = d
               /\ msg'[routes'[d].message].pc \in Past
    <3>1. CASE d = c
      BY <1>2, <1>3, <1>4, <3>1 DEF Past, Under
    <3>2. CASE d # c
      <4>1. routes'[d] = routes[d] /\ routes[d] # None
        BY <1>4, <2>1, <3>2
      <4>2. /\ routes[d].message \in Call /\ msg[routes[d].message].child = d
            /\ msg[routes[d].message].pc \in Past
        BY <1>1, <4>1 DEF OnItsChild, Past, Under
      <4> QED
        BY <1>7, <4>1, <4>2 DEF Forward
    <3> QED
      BY <3>1, <3>2
  <2>2. ASSUME NEW k \in pending', msg'[k].pc \in Under, routes'[msg'[k].child] # None
        PROVE  routes'[msg'[k].child].message = k
    <3>1. k \in Call /\ k \in pending
      BY <1>1 DEF Inv, TypeOK
    <3>2. CASE k = m
      BY <1>3, <1>4, <3>2
    <3>3. CASE k # m
      <4>1. msg'[k] = msg[k] /\ Busy(k)
        BY <1>3, <2>2, <3>1, <3>3 DEF Busy, Under
      <4>2. msg[k].child # c
        BY <1>9, <3>1, <3>3, <4>1
      <4>3. msg[k].child \in Child
        BY <2>2, <3>1, <4>1, EntryFacts DEF Inv, CallInv, Entry, Under
      <4>4. routes'[msg[k].child] = routes[msg[k].child]
        BY <1>4, <4>2, <4>3
      <4> QED
        BY <1>1, <2>2, <3>1, <4>1, <4>4 DEF OnItsChild, Under
    <3> QED
      BY <3>2, <3>3
  <2>3. ASSUME NEW n \in events' PROVE Ended(n)
    BY <1>1, <1>7 DEF OnItsChild, Forward, Inv, TypeOK
  <2>4. ASSUME NEW d \in Child, completed'[d] # None PROVE Ended(completed'[d])
    <3>1. completed'[d] = completed[d] /\ completed[d] \in Message /\ Finished(completed[d])
      BY <1>1, <1>4, <2>4 DEF OnItsChild, Inv, TypeOK
    <3> QED
      BY <1>7, <3>1 DEF Forward
  <2>5. ASSUME NEW d \in Child, background'[d] # None
        PROVE  /\ msg'[background'[d]].background
               /\ \/ msg'[background'[d]].child = d
                  \/ /\ d \in deleted' /\ routes'[d] = None
                     /\ \A k \in Call : msg'[k].child = d => msg'[k].pc # "route"
    <3>1. /\ background'[d] = background[d] /\ background[d] \in Call
          /\ msg[background[d]].background
          /\ \/ msg[background[d]].child = d
             \/ /\ d \in deleted /\ routes[d] = None
                /\ \A k \in Call : msg[k].child = d => msg[k].pc # "route"
      BY <1>1, <2>5 DEF OnItsChild, Inv, TypeOK
    <3>2. /\ msg'[background[d]].background
          /\ msg'[background[d]].child = msg[background[d]].child
      BY <1>7, <3>1 DEF Forward
    <3>3. CASE msg[background[d]].child = d
      BY <3>1, <3>2, <3>3
    <3>4. CASE /\ d \in deleted /\ routes[d] = None
               /\ \A k \in Call : msg[k].child = d => msg[k].pc # "route"
      <4>1. d # c
        BY <1>1, <1>2, <3>4
      <4>2. d \in deleted' /\ routes'[d] = None
        BY <1>1, <1>4, <3>4, <4>1
      <4>3. ASSUME NEW k \in Call, msg'[k].child = d PROVE msg'[k].pc # "route"
        <5>1. msg[k].child = d
          BY <1>7, <4>3 DEF Forward
        <5>2. k # m
          BY <4>1, <5>1
        <5> QED
          BY <1>3, <3>4, <5>1, <5>2
      <4> QED
        BY <3>1, <3>2, <4>2, <4>3
    <3> QED
      BY <3>1, <3>3, <3>4
  <2>6. ASSUME NEW d \in deleted', routes'[d] # None, NEW k \in Call, msg'[k].child = d
        PROVE  msg'[k].pc \notin Early
    <3>0. d \in Child /\ d \in deleted /\ msg[k].child = d
      BY <1>1, <1>7, <2>6 DEF Inv, TypeOK, Forward
    <3>1. CASE d = c
      <4>1. k = m \/ ~Busy(k)
        BY <1>9, <3>0, <3>1
      <4>2. CASE k = m
        BY <1>3, <4>2 DEF Early
      <4>3. CASE k # m
        BY <1>3, <4>1, <4>3 DEF Early, Busy
      <4> QED
        BY <4>2, <4>3
    <3>2. CASE d # c
      <4>1. msg[k].pc \notin Early
        BY <1>1, <1>4, <2>6, <3>0, <3>2 DEF OnItsChild, Early
      <4> QED
        BY <1>7, <4>1 DEF Forward
    <3> QED
      BY <3>1, <3>2
  <2> QED
    BY <2>1, <2>2, <2>3, <2>4, <2>5, <2>6 DEF OnItsChild, Past, Under, Early, Ended, Finished
<1>11. ReviewIsReal'
  <2>1. \A n \in Message : Finished(n) =>
          Ended(n) /\ msg'[n].agent = msg[n].agent /\ msg'[n].target = msg[n].target
    BY <1>7 DEF Forward
  <2> QED
    BY <1>1, <2>1, RealStep
<1> QED
  BY <1>1, <1>8, <1>10, <1>11 DEF Reviewable, Alone

(* Where a call begins or reopens, it is by itself on its child but for    *)
(* messages that are past it.                                              *)
LEMMA RealMoved ==
  ASSUME Inv, Inv', Reviewable, NEW k \in Call, NEW c \in Child,
         \A n \in Message \ {k} : msg'[n] = msg[n],
         msg'[k].pc \in Early, msg'[k].child = c, msg'[k].agent # "none",
         msg[k].pc \in Early \cup {"new"},
         \A j \in Call \ {k} : msg[j].child = c =>
           ~Busy(j) /\ ~msg'[k].background /\ (msg[j].background => msg[j].pc = "done"),
         turn' # Gone /\ Awaited(k)' => k \in pending,
         \A d \in Child : background[d] = k =>
           /\ msg'[k].background /\ d \in deleted /\ routes[d] = None
           /\ \A j \in Call : msg[j].child = d => msg[j].pc # "route",
         c \in deleted => routes[c] = None,
         UNCHANGED <<host, turn, deleted, workflow, routes, pending, background, completed,
                     events>>
  PROVE  Reviewable'
<1> USE MessageFacts
<1>1. OneAtATime /\ OnItsChild /\ ReviewIsReal /\ Alone
  BY DEF Reviewable
<1>2. OneAtATime'
  <2>1. ASSUME NEW m \in Message, msg'[m].pc = "new" 
        PROVE  msg'[m].child = None /\ ~msg'[m].background
    <3>1. m # k
      BY <2>1 DEF Early
    <3> QED
      BY <1>1, <2>1, <3>1 DEF OneAtATime
  <2>2. ASSUME NEW m \in Other PROVE msg'[m].pc = "new"
    <3>1. m \in Message /\ m # k
      BY WorkflowAssumption DEF Message
    <3> QED
      BY <1>1, <3>1 DEF OneAtATime
  <2>3. ASSUME NEW j \in Call, msg'[j].pc # "new" PROVE msg'[j].agent # "none"
    BY <1>1, <2>3 DEF OneAtATime
  <2>4. ASSUME NEW j \in Call, NEW l \in Call, msg'[l].background, msg'[l].pc # "done",
               msg'[j].child = msg'[l].child
        PROVE  j = l
    BY <1>1, <2>4 DEF OneAtATime
  <2>5. ASSUME NEW j \in Call, NEW l \in Call, Busy(j)', Busy(l)', msg'[j].child = msg'[l].child
        PROVE  j = l
    <3>1. \A n \in Call \ {k} : Busy(n)' => Busy(n)
      BY DEF Busy
    <3> QED
      BY <1>1, <2>5, <3>1 DEF OneAtATime
  <2>6. ASSUME NEW j \in Call, turn' # Gone, Awaited(j)' PROVE j \in pending'
    BY <1>1, <2>6 DEF OneAtATime, Awaited
  <2> QED
    BY <2>1, <2>2, <2>3, <2>4, <2>5, <2>6 DEF OneAtATime
<1>3. \A n \in Message : Finished(n) =>
        /\ n # k /\ Ended(n)
        /\ msg'[n].agent = msg[n].agent /\ msg'[n].target = msg[n].target
  BY DEF Finished, Ended, Early
<1>4. OnItsChild'
  <2>1. ASSUME NEW d \in Child, routes'[d] # None
        PROVE  /\ routes'[d].message \in Call /\ msg'[routes'[d].message].child = d
               /\ msg'[routes'[d].message].pc \in Past
    <3>1. /\ routes[d].message \in Call /\ msg[routes[d].message].child = d
          /\ msg[routes[d].message].pc \in Past
      BY <1>1, <2>1 DEF OnItsChild, Past, Under
    <3>2. routes[d].message # k
      BY <3>1 DEF Past, Under, Early
    <3> QED
      BY <3>1, <3>2
  <2>2. ASSUME NEW n \in pending', msg'[n].pc \in Under, routes'[msg'[n].child] # None
        PROVE  routes'[msg'[n].child].message = n
    <3>1. n # k /\ n \in Message
      BY <2>2 DEF Under, Early, Inv, TypeOK
    <3> QED
      BY <1>1, <2>2, <3>1 DEF OnItsChild, Under
  <2>3. ASSUME NEW n \in events' PROVE Ended(n)
    BY <1>1, <1>3 DEF OnItsChild, Inv, TypeOK
  <2>4. ASSUME NEW d \in Child, completed'[d] # None PROVE Ended(completed'[d])
    BY <1>1, <1>3, <2>4 DEF OnItsChild, Inv, TypeOK
  <2>5. ASSUME NEW d \in Child, background'[d] # None
        PROVE  /\ msg'[background'[d]].background
               /\ \/ msg'[background'[d]].child = d
                  \/ /\ d \in deleted' /\ routes'[d] = None
                     /\ \A j \in Call : msg'[j].child = d => msg'[j].pc # "route"
    <3>1. /\ background[d] \in Call /\ msg[background[d]].background
          /\ \/ msg[background[d]].child = d
             \/ /\ d \in deleted /\ routes[d] = None
                /\ \A j \in Call : msg[j].child = d => msg[j].pc # "route"
      BY <1>1, <2>5 DEF OnItsChild, Inv, TypeOK
    <3>2. msg'[k].pc # "route"
      BY DEF Early
    <3>3. (\A j \in Call : msg[j].child = d => msg[j].pc # "route")
            => \A j \in Call : msg'[j].child = d => msg'[j].pc # "route"
      BY <3>2
    <3>4. CASE background[d] = k
      BY <3>3, <3>4
    <3>5. CASE background[d] # k
      BY <3>1, <3>3, <3>5
    <3> QED
      BY <3>4, <3>5
  <2>6. ASSUME NEW d \in deleted', routes'[d] # None, NEW j \in Call, msg'[j].child = d
        PROVE  msg'[j].pc \notin Early
    <3>1. j # k
      BY <2>6
    <3> QED
      BY <1>1, <2>6, <3>1 DEF OnItsChild, Early
  <2> QED
    BY <2>1, <2>2, <2>3, <2>4, <2>5, <2>6 DEF OnItsChild, Past, Under, Early, Ended, Finished
<1>5. ReviewIsReal'
  BY <1>1, <1>3, RealStep
<1> QED
  BY <1>1, <1>2, <1>4, <1>5 DEF Reviewable, Alone

LEMMA RealBegin == ASSUME Inv, Inv', Reviewable, NEW k \in Call, Begin(k) PROVE Reviewable'
<1> USE MessageFacts
<1>1. /\ OneAtATime /\ OnItsChild /\ turn # Gone /\ msg[k].pc = "new"
      /\ ~host.parallel /\ ~host.resume /\ \A j \in Call : ~InFlight(j)
      /\ UNCHANGED <<host, turn, deleted, workflow, routes, pending, background, completed,
                     events>>
  BY DEF Reviewable, Begin, Alone
<1>2. PICK agent \in Agent \ {"none"}, bg \in BOOLEAN, c \in Child :
        /\ Fresh(c) \/ Known(c)
        /\ Settled(c)
        /\ bg => ~Known(c)
        /\ msg' = [msg EXCEPT ![k] = [Unused EXCEPT !.pc = "before", !.agent = agent,
                     !.child = c, !.resume = Known(c), !.background = bg]]
  BY <1>1 DEF Begin
<1>3. /\ \A n \in Message \ {k} : msg'[n] = msg[n]
      /\ msg'[k].pc = "before" /\ msg'[k].child = c /\ msg'[k].agent = agent
      /\ msg'[k].background = bg
  BY <1>2, EntryFacts DEF Unused
<1>4. ASSUME NEW j \in Call \ {k}, msg[j].child = c
      PROVE  ~Busy(j) /\ ~bg /\ (msg[j].background => msg[j].pc = "done")
  <2>1. Known(c) /\ ~bg
    BY <1>2, <1>4 DEF Fresh
  <2>2. msg[j].pc \notin {"new", "prompt", "before", "grant"} \cup InSession
    BY <1>1, <1>2, <1>4 DEF Settled, InFlight, OneAtATime
  <2>3. ~(j \in pending /\ msg[j].pc # "failed")
    BY <1>1 DEF InFlight
  <2>4. ASSUME msg[j].background, msg[j].pc # "done" PROVE FALSE
    <3>1. msg[j].pc \in {"replied", "failed"}
      BY <2>2, <2>4, EntryFacts DEF Entry, Pc, InSession
    <3>2. msg[j].pc # "replied"
      BY <1>1, <2>3 DEF OneAtATime, Awaited
    <3>3. PICK i \in Call : msg[i].child = c /\ msg[i].pc # "failed"
      BY <2>1 DEF Known
    <3>4. i = j
      BY <1>1, <1>4, <2>4, <3>3 DEF OneAtATime
    <3> QED
      BY <3>1, <3>2, <3>3, <3>4
  <2> QED
    BY <2>1, <2>2, <2>3, <2>4 DEF Busy
<1>5. \A d \in Child : background[d] # k
  BY <1>1 DEF OneAtATime, OnItsChild
<1>6. c \in deleted => routes[c] = None
  <2>1. CASE Known(c)
    BY <2>1 DEF Known
  <2>2. CASE Fresh(c)
    BY <1>1, <2>2 DEF Fresh, OnItsChild
  <2> QED
    BY <1>2, <2>1, <2>2
<1>7. ~Awaited(k)'
  BY <1>3 DEF Awaited, InSession
<1> QED
  BY <1>1, <1>3, <1>4, <1>5, <1>6, <1>7, RealMoved DEF Early

LEMMA RealReopen == ASSUME Inv, Inv', Reviewable, NEW k \in Call, Reopen(k) PROVE Reviewable'
<1> USE MessageFacts
<1>1. /\ OneAtATime /\ OnItsChild /\ msg[k].pc = "prompt" /\ msg[k].child \in deleted
      /\ UNCHANGED <<host, turn, deleted, workflow, routes, pending, background, completed,
                     events>>
  BY DEF Reviewable, Reopen, plugin
<1>2. CASE Goto(k, "failed")
  <2>1. /\ \A n \in Message \ {k} : msg'[n] = msg[n]
        /\ msg'[k].pc = "failed" /\ msg'[k].child = msg[k].child /\ msg'[k].agent = msg[k].agent
        /\ msg'[k].background = msg[k].background
    BY <1>2, EntryFacts DEF Goto, Entry
  <2>2. Busy(k) /\ ~Finished(k) /\ ~Awaited(k)'
    BY <1>1, <2>1 DEF Busy, Finished, Awaited, InSession
  <2>3. Forward
    BY <1>1, <2>1, <2>2, ForwardOf DEF Past, Under, Early
  <2>4. \A m \in Message :
           /\ msg'[m].pc \in Under => msg[m].pc \in Under
           /\ msg'[m].pc = "route" => msg[m].pc = "route"
    BY <2>1 DEF Under
  <2> QED
    BY <1>1, <2>3, <2>4, ForwardStep
<1>3. CASE \E c \in {x \in Child : Fresh(x)} : msg' = [msg EXCEPT ![k].child = c]
  <2>1. PICK c \in Child : Fresh(c) /\ msg' = [msg EXCEPT ![k].child = c]
    BY <1>3
  <2>2. /\ \A n \in Message \ {k} : msg'[n] = msg[n]
        /\ msg'[k].pc = "prompt" /\ msg'[k].child = c /\ msg'[k].agent = msg[k].agent
        /\ msg'[k].background = msg[k].background
    BY <1>1, <2>1, EntryFacts DEF Entry
  <2>3. msg[k].agent # "none"
    BY <1>1 DEF OneAtATime
  <2>4. \A j \in Call : msg[j].child # c
    BY <2>1 DEF Fresh
  <2>5. turn' # Gone /\ Awaited(k)' => k \in pending
    BY <1>1, <2>2 DEF Awaited, OneAtATime
  <2>6. ASSUME NEW d \in Child, background[d] = k
        PROVE  /\ msg[k].background /\ d \in deleted /\ routes[d] = None
               /\ \A j \in Call : msg[j].child = d => msg[j].pc # "route"
    <3>1. /\ msg[k].background
          /\ \/ msg[k].child = d
             \/ /\ d \in deleted /\ routes[d] = None
                /\ \A j \in Call : msg[j].child = d => msg[j].pc # "route"
      BY <1>1, <2>6 DEF OnItsChild
    <3>2. CASE msg[k].child = d
      <4>1. d \in deleted /\ routes[d] = None
        BY <1>1, <3>2 DEF OnItsChild
      <4>2. ASSUME NEW j \in Call, msg[j].child = d, msg[j].pc = "route" PROVE FALSE
        <5>1. Busy(j) /\ Busy(k)
          BY <1>1, <4>2 DEF Busy, InSession
        <5>2. j = k
          BY <1>1, <3>2, <4>2, <5>1 DEF OneAtATime
        <5> QED
          BY <1>1, <4>2, <5>2
      <4> QED
        BY <3>1, <4>1, <4>2
    <3> QED
      BY <3>1, <3>2
  <2>7. c \in deleted => routes[c] = None
    BY <1>1, <2>4 DEF OnItsChild
  <2> QED
    BY <1>1, <2>2, <2>3, <2>4, <2>5, <2>6, <2>7, RealMoved DEF Early
<1> QED
  BY <1>2, <1>3 DEF Reopen

LEMMA ReviewInit == Init => ReviewInv
<1> SUFFICES ASSUME Init PROVE OneAtATime /\ OnItsChild /\ ReviewIsReal
  BY DEF ReviewInv
<1> USE MessageFacts DEF Init, Unused
<1>1. \A m \in Message : msg[m].pc = "new" /\ msg[m].child = None /\ ~msg[m].background
  OBVIOUS
<1>2. OneAtATime
  BY <1>1 DEF OneAtATime, Busy, Awaited, InSession, Message
<1>3. OnItsChild
  BY DEF OnItsChild
<1>4. ReviewIsReal
  BY DEF ReviewIsReal
<1> QED
  BY <1>2, <1>3, <1>4

LEMMA ReviewStep == Inv /\ ReviewInv /\ [Next]_vars => ReviewInv'
<1> SUFFICES ASSUME Inv, ReviewInv, [Next]_vars PROVE ReviewInv'
  OBVIOUS
<1>1. Inv' /\ UNCHANGED host
  <2>1. Inv'
    BY InvStep
  <2>2. UNCHANGED host
    BY DEF Next, vars, Delegate, Converse, Begin, Accept, Grant, TaskBlocked, Acknowledge,
           Intrude, Prompt, Route, Infer, ChildFails, Reply, Hear, Reopen, DeleteChild,
           UserTurn, DeleteRouter, PinChanges
  <2> QED
    BY <2>1, <2>2
<1> SUFFICES ASSUME Alone PROVE Reviewable'
  BY <1>1 DEF ReviewInv, Reviewable, Alone
<1>2. Reviewable
  BY DEF Reviewable, ReviewInv
<1>3. CASE UNCHANGED vars
  <2>1. Forward
    BY <1>2, <1>3, ForwardStill DEF vars, plugin, Reviewable
  <2> QED
    BY <1>1, <1>2, <1>3, <2>1, ForwardStep DEF vars, plugin
<1>4. ASSUME NEW k \in Call, Delegate(k) PROVE Reviewable'
  BY <1>1, <1>2, <1>4, RealBegin, RealAccept, RealGrant, RealAcknowledge DEF Delegate
<1>5. ASSUME NEW m \in Other, Intrude(m) PROVE Reviewable'
  BY <1>5 DEF Intrude, Alone
<1>6. ASSUME NEW m \in Message, Converse(m) PROVE Reviewable'
  BY <1>1, <1>2, <1>6, RealConverse, RealRoute, RealHear DEF Converse
<1>7. ASSUME NEW k \in Call, Reopen(k) PROVE Reviewable'
  BY <1>1, <1>2, <1>7, RealReopen
<1>8. CASE UserTurn \/ DeleteRouter \/ PinChanges \/ \E c \in Child : DeleteChild(c)
  BY <1>1, <1>2, <1>8, RealRest
<1> QED
  BY <1>3, <1>4, <1>5, <1>6, <1>7, <1>8 DEF Next

(* "Background acknowledgment alone cannot authorize" a review or a        *)
(* repair: what the workflow holds for work or for reviewed was finished,  *)
(* for any calls in the foreground and in the background, in whatever      *)
(* order their completions and acknowledgements come.                      *)
THEOREM ReviewsAreReal == Spec => []ReviewIsReal
<1>1. Inv /\ ReviewInv /\ [Next]_vars => (Inv /\ ReviewInv)'
  BY InvStep, ReviewStep
<1>2. ReviewInv => ReviewIsReal
  BY DEF ReviewInv, ReviewIsReal
<1> QED
  BY <1>1, <1>2, InvInit, ReviewInit, PTL DEF Spec
===============================================================================
