---------------------------- MODULE EditorSession ----------------------------
(***************************************************************************)
(* The panel's editor of the settings, in one browser tab: what it shows,  *)
(* the draft, the baseline the draft is an edit of, and the requests that  *)
(* read or save the state (editor-state.js, App.tsx).  The server keeps    *)
(* one value and saves by compare-and-set on its revision, as ControlStore *)
(* shows; other editors save too.                                          *)
(*                                                                         *)
(* Abstractions.  Settings are a function from the places a user can edit  *)
(* (the leaves of the settings object, a missing key being a value) and a  *)
(* revision, a content hash, is the settings themselves.  Checks of        *)
(* connections and eligibility are a refusal the server may give.          *)
(***************************************************************************)
EXTENDS Naturals, FiniteSets

CONSTANTS
  Field,        (* the leaves of the settings                              *)
  Val,          (* what a leaf may be                                      *)
  None,
  MaxRequests,  (* bound on the requests of the tab                        *)
  MaxOther      (* bound on the saves of other editors                     *)

ASSUME EditorAssumption == MaxRequests \in Nat /\ MaxOther \in Nat

VARIABLES
  editor,           (* EditorState, or None before the first answer        *)
  requestSequence,
  refreshInFlight,
  conflict,         (* a save met a conflict that was not yet rebased      *)
  saving,           (* the buttons Save, Revert and Keep my edits are off  *)
  wire,             (* requests that were not yet answered or given up     *)
  server,           (* the saved settings, and how often they were saved   *)
  told              (* the save last confirmed to this editor              *)

buttons == <<requestSequence, refreshInFlight, conflict, saving>>
vars == <<editor, buttons, wire, server, told>>

-----------------------------------------------------------------------------

Settings == [Field -> Val]
Saved == [settings : Settings, version : Nat]
Kind == {"load", "observe", "followup", "refresh", "save"}

(* The part of a request that only a save has is None for the others.      *)
Request == [id : Nat, kind : Kind, result : {"none", "ok", "conflict", "error"},
            state : Saved \cup {None}, submitted : Settings \cup {None},
            revision : Settings \cup {None}, baseline : Settings \cup {None},
            listening : BOOLEAN]

Submission == [requestId : Nat, submitted : Settings]
Editor == [state : Saved, baseline : Settings, draft : Settings,
           baselineRevision : Settings, requestId : Nat,
           saving : Submission \cup {None}]

ASSUME NoneAssumption ==
  None \notin Saved /\ None \notin Submission /\ None \notin Editor

Dirty == editor # None /\ editor.baseline # editor.draft
Saving == editor # None /\ editor.saving # None

(* The editor, and not only the server, has yet to hear of the request.    *)
Awaits(r, kinds) == r.kind \in kinds /\ r.listening

Typed ==
  /\ editor \in Editor \cup {None}
  /\ requestSequence \in Nat /\ told \in Nat
  /\ refreshInFlight \in BOOLEAN /\ conflict \in BOOLEAN /\ saving \in BOOLEAN
  /\ wire \subseteq Request /\ server \in Saved

(* Everything has its type; the editor waits for a save exactly as long as *)
(* the answer to one is under way to it, and only then, or while it reads  *)
(* the state after a conflict, are its buttons off.                        *)
TypeOK ==
  /\ Typed
  /\ Saving <=> \E r \in wire : Awaits(r, {"save"}) /\ r.id = editor.saving.requestId
  /\ saving <=> \E r \in wire : Awaits(r, {"save", "followup"})
  /\ refreshInFlight <=> \E r \in wire : Awaits(r, {"refresh"})

Read(id, kind) ==
  [id |-> id, kind |-> kind, result |-> "none", state |-> None, submitted |-> None,
   revision |-> None, baseline |-> None, listening |-> TRUE]

(* The page has just been opened: loadDashboard asks for the state.        *)
Init ==
  /\ editor = None
  /\ requestSequence = 1
  /\ refreshInFlight = FALSE /\ conflict = FALSE /\ saving = FALSE
  /\ wire = {Read(1, "load")}
  /\ server \in [settings : Settings, version : {0}]
  /\ told = 0

-----------------------------------------------------------------------------
(* editor-state.js.                                                        *)

(* Mutant: what is under way, not what was edited since, wins.             *)
mergeLatest(before, after, latest) == latest

(* Leaf by leaf: a local change wins, else the latest.                     *)
mergeEdits(before, after, latest) ==
  [f \in Field |-> IF before[f] = after[f] THEN latest[f] ELSE after[f]]

createEditor(raw, id) ==
  [state |-> raw, baseline |-> raw.settings, draft |-> raw.settings,
   baselineRevision |-> raw.settings, requestId |-> id, saving |-> None]

(* Mutant: the revision is refreshed although the draft is an old edit.    *)
receiveRevision(e, raw, id) ==
  IF id < e.requestId \/ e.saving # None THEN e
  ELSE IF e.baseline = e.draft THEN createEditor(raw, id)
  ELSE [e EXCEPT !.state = raw, !.requestId = id, !.baselineRevision = raw.settings]

(* Mutant: the order of the requests is not looked at.                     *)
receiveAny(e, raw, id) ==
  IF e.saving # None THEN e
  ELSE IF e.baseline = e.draft THEN createEditor(raw, id)
  ELSE [e EXCEPT !.state = raw, !.requestId = id]

(* An answer shows unless the editor has shown a later request's; only an  *)
(* editor without changes takes it as its baseline.                        *)
receiveSnapshot(e, raw, id) ==
  IF id < e.requestId \/ e.saving # None THEN e
  ELSE IF e.baseline = e.draft THEN createEditor(raw, id)
  ELSE [e EXCEPT !.state = raw, !.requestId = id]

startSave(e, id) ==
  [e EXCEPT !.requestId = id, !.saving = [requestId |-> id, submitted |-> e.draft]]

finishSave(e, raw, id) ==
  [state |-> raw, baseline |-> raw.settings, baselineRevision |-> raw.settings,
   draft |-> mergeEdits(e.saving.submitted, e.draft, raw.settings),
   requestId |-> id, saving |-> None]

(* Mutant: a failed save leaves the editor waiting.                        *)
failNothing(e) == e

failSave(e) == [e EXCEPT !.saving = None]

rebaseDraft(e) ==
  [e EXCEPT !.baseline = e.state.settings, !.baselineRevision = e.state.settings,
            !.draft = mergeEdits(e.baseline, e.draft, e.state.settings)]

-----------------------------------------------------------------------------
(* What the user does.                                                     *)

Edit ==
  /\ editor # None
  /\ \E f \in Field : \E v \in Val \ {editor.draft[f]} :
       editor' = [editor EXCEPT !.draft[f] = v]
  /\ UNCHANGED <<buttons, wire, server, told>>

Revert ==
  /\ Dirty /\ ~saving
  /\ editor' = [editor EXCEPT !.draft = editor.baseline]
  /\ UNCHANGED <<buttons, wire, server, told>>

Rebase ==
  /\ editor # None /\ conflict /\ ~saving
  /\ editor' = rebaseDraft(editor)
  /\ conflict' = FALSE
  /\ UNCHANGED <<requestSequence, refreshInFlight, saving, wire, server, told>>

Save ==
  /\ Dirty /\ ~Saving /\ ~saving /\ requestSequence < MaxRequests
  /\ LET id == requestSequence + 1 IN
     /\ requestSequence' = id
     /\ editor' = startSave(editor, id)
     /\ wire' = wire \cup
          {[Read(id, "save") EXCEPT !.submitted = editor.draft,
              !.revision = editor.baselineRevision, !.baseline = editor.baseline]}
  /\ saving' = TRUE
  /\ UNCHANGED <<refreshInFlight, conflict, server, told>>

Ask(kind) ==
  /\ requestSequence < MaxRequests
  /\ requestSequence' = requestSequence + 1
  /\ wire' = wire \cup {Read(requestSequence', kind)}

(* The timer of 15 s, the return to the page, or the button of a conflict. *)
Observe ==
  /\ ~Saving /\ ~refreshInFlight
  /\ Ask("observe")
  /\ UNCHANGED <<editor, refreshInFlight, conflict, saving, server, told>>

(* The button, or an observation on return that was accepted and is stale. *)
Refresh ==
  /\ editor # None /\ ~Saving /\ ~refreshInFlight
  /\ Ask("refresh")
  /\ refreshInFlight' = TRUE
  /\ UNCHANGED <<editor, conflict, saving, server, told>>

Retry ==
  /\ editor = None /\ \A r \in wire : r.kind # "load"
  /\ Ask("load")
  /\ UNCHANGED <<editor, refreshInFlight, conflict, saving, server, told>>

-----------------------------------------------------------------------------
(* The server.  A save may also be refused, with a conflict of another     *)
(* kind or an error.                                                       *)

Answered(r, result, state) ==
  wire' = (wire \ {r}) \cup
    IF r.listening THEN {[r EXCEPT !.result = result, !.state = state]} ELSE {}

Serve(r) ==
  /\ r.result = "none"
  /\ \/ r.kind # "save" /\ Answered(r, "ok", server) /\ UNCHANGED server
     \/ /\ r.kind = "save" /\ r.revision = server.settings
        /\ server' = [settings |-> r.submitted, version |-> server.version + 1]
        /\ Answered(r, "ok", server')
     \/ /\ r.kind = "save"
        /\ \E result \in {"conflict", "error"} : Answered(r, result, None)
        /\ UNCHANGED server
  /\ UNCHANGED <<editor, buttons, told>>

OtherSave ==
  /\ server.version < MaxOther
  /\ \E s \in Settings \ {server.settings} :
       server' = [settings |-> s, version |-> server.version + 1]
  /\ UNCHANGED <<editor, buttons, wire, told>>

-----------------------------------------------------------------------------
(* The answers, in any order.                                              *)

(* applyState of an answer that is no save's.                              *)
Show(r) ==
  /\ r.kind # "save" /\ r.listening /\ r.result = "ok"
  /\ editor' = IF editor = None THEN createEditor(r.state, r.id)
               ELSE receiveSnapshot(editor, r.state, r.id)
  /\ refreshInFlight' = (refreshInFlight /\ r.kind # "refresh")
  /\ saving' = (saving /\ r.kind # "followup")
  /\ wire' = wire \ {r}
  /\ UNCHANGED <<requestSequence, conflict, server, told>>

Finish(r) ==
  /\ r.kind = "save" /\ r.listening /\ r.result = "ok"
  /\ editor' = finishSave(editor, r.state, r.id)
  /\ conflict' = FALSE /\ saving' = FALSE
  /\ told' = r.state.version
  /\ wire' = wire \ {r}
  /\ UNCHANGED <<requestSequence, refreshInFlight, server>>

(* The state is read before the buttons come back, unless a refresh under  *)
(* way will bring it.                                                      *)
Conflict(r) ==
  /\ r.kind = "save" /\ r.listening /\ r.result = "conflict"
  /\ editor' = failSave(editor)
  /\ conflict' = TRUE
  /\ IF refreshInFlight
     THEN /\ wire' = wire \ {r} /\ saving' = FALSE
          /\ UNCHANGED requestSequence
     ELSE /\ requestSequence < MaxRequests
          /\ requestSequence' = requestSequence + 1
          /\ wire' = (wire \ {r}) \cup {Read(requestSequence', "followup")}
          /\ UNCHANGED saving
  /\ UNCHANGED <<refreshInFlight, server, told>>

(* The answer is an error, or none comes: the server may have served the   *)
(* request, or may serve it yet.                                           *)
Fail(r) ==
  /\ r.listening /\ r.result # "conflict"
  /\ editor' = IF r.kind = "save" THEN failSave(editor) ELSE editor
  /\ refreshInFlight' = (refreshInFlight /\ r.kind # "refresh")
  /\ saving' = (saving /\ r.kind \notin {"save", "followup"})
  /\ wire' = (wire \ {r}) \cup
       IF r.kind = "save" /\ r.result = "none" THEN {[r EXCEPT !.listening = FALSE]} ELSE {}
  /\ UNCHANGED <<requestSequence, conflict, server, told>>

-----------------------------------------------------------------------------

User == Edit \/ Revert \/ Rebase \/ Save

Next ==
  \/ User \/ Observe \/ Refresh \/ Retry \/ OtherSave
  \/ \E r \in wire : Serve(r) \/ Show(r) \/ Finish(r) \/ Conflict(r) \/ Fail(r)

Spec == Init /\ [][Next]_vars

-----------------------------------------------------------------------------

(* Whatever was edited and is not saved, the draft keeps until the user    *)
(* edits it again or reverts: no answer, early or late, and no rebase of   *)
(* the draft onto a later state replaces it.                               *)
EditKept(f) ==
  \/ editor.draft[f] = editor.baseline[f]
     /\ (editor.saving # None => editor.draft[f] = editor.saving.submitted[f])
  \/ editor'.draft[f] = editor.draft[f]
EditsSurvive ==
  [][Edit \/ Revert \/ (editor # None => \A f \in Field : EditKept(f))]_vars

(* A save, even one that was given up and lands late, changes only what    *)
(* differed from the baseline it was edited on: what another editor saved  *)
(* in the meantime is never undone by a draft that has not seen it.        *)
SavesOnlyEdits ==
  [][\A r \in wire :
       r.kind = "save" /\ server' # server /\ wire' # wire /\ Serve(r) =>
         \A f \in Field : server'.settings[f] # server.settings[f] =>
                            r.submitted[f] # r.baseline[f]]_vars

(* Once a save was confirmed, what the editor shows is that save or a      *)
(* later state, although answers of earlier requests still arrive.         *)
ReadYourWrites == editor # None => editor.state.version >= told

-----------------------------------------------------------------------------
(* The inductive invariant behind all four.  At most one save is under way *)
(* to the editor, it is the last request, and what is asked later sees it. *)

(* The editor's own part: its revision is its baseline's, and nothing is   *)
(* asked while it saves.                                                   *)
EditorInv ==
  editor # None =>
    /\ editor.baselineRevision = editor.baseline
    /\ editor.requestId <= requestSequence
    /\ editor.saving # None =>
         /\ editor.saving.requestId = editor.requestId
         /\ \A r \in wire : r.id <= editor.requestId
         /\ \A r \in wire : r.id = editor.requestId => r.kind = "save"

(* A save carries the edit it was made for; one that the editor waits for  *)
(* is its own.                                                             *)
SaveInv(r) ==
  /\ r.submitted \in Settings /\ r.revision = r.baseline
  /\ r.result = "ok" => r.state.settings = r.submitted
  /\ r.listening =>
       /\ editor # None /\ editor.saving # None
       /\ editor.saving = [requestId |-> r.id, submitted |-> r.submitted]

(* A reader that is not out of date has seen the last confirmed save.      *)
ReadInv(r) ==
  /\ r.listening
  /\ r.result = "ok" /\ (editor # None => r.id >= editor.requestId) =>
       r.state.version >= told

RequestInv(r) ==
  /\ r.id <= requestSequence
  /\ r.result = "ok" => r.state \in Saved /\ r.state.version <= server.version
  /\ IF r.kind = "save" THEN SaveInv(r) ELSE ReadInv(r)

(* The two flags tell of one request each.                                 *)
OneAwaited(kinds) ==
  \A q, r \in wire : Awaits(q, kinds) /\ Awaits(r, kinds) => q = r

Inv ==
  /\ TypeOK /\ ReadYourWrites
  /\ told <= server.version /\ (editor = None => told = 0)
  /\ EditorInv
  /\ \A r \in wire : RequestInv(r)
  /\ OneAwaited({"save", "followup"}) /\ OneAwaited({"refresh"})
=============================================================================
