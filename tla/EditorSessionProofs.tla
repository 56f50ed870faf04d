------------------------- MODULE EditorSessionProofs -------------------------
(***************************************************************************)
(* Proofs about EditorSession, for all fields, values and bounds.          *)
(***************************************************************************)
EXTENDS EditorSession, TLAPS

LEMMA InvInit == Init => Inv
<1> SUFFICES ASSUME Init PROVE Inv
  OBVIOUS
<1> USE EditorAssumption, NoneAssumption DEF Init, Read
<1>1. Typed
  <2>1. server \in Saved
    BY DEF Saved
  <2>2. Read(1, "load") \in Request
    BY DEF Request, Kind
  <2> QED
    BY <2>1, <2>2 DEF Typed
<1>2. TypeOK
  BY <1>1 DEF TypeOK, Saving, Awaits
<1>3. \A r \in wire : RequestInv(r)
  BY DEF RequestInv, ReadInv
<1> QED
  BY <1>1, <1>2, <1>3 DEF Typed, Inv, ReadYourWrites, EditorInv, OneAwaited, Saved, Awaits

(* What the user does to the draft alone disturbs nothing else.            *)
LEMMA DraftStep ==
  ASSUME Inv, NEW d \in Settings, editor \in Editor,
         editor' = [editor EXCEPT !.draft = d],
         UNCHANGED <<buttons, wire, server, told>>
  PROVE  Inv'
<1> USE EditorAssumption, NoneAssumption DEF buttons
<1>1. Typed'
  BY DEF Inv, TypeOK, Typed, Editor
<1>2. /\ editor # None /\ editor' # None
      /\ editor'.saving = editor.saving /\ editor'.requestId = editor.requestId
      /\ editor'.state = editor.state /\ editor'.baseline = editor.baseline
      /\ editor'.baselineRevision = editor.baselineRevision
  BY <1>1 DEF Typed, Editor
<1>3. TypeOK'
  BY <1>1, <1>2 DEF Inv, TypeOK, Saving, Awaits
<1>4. ASSUME NEW r \in wire PROVE RequestInv(r)'
  BY <1>2, <1>4 DEF Inv, RequestInv, SaveInv, ReadInv
<1> QED
  BY <1>2, <1>3, <1>4 DEF Inv, ReadYourWrites, EditorInv, OneAwaited, Awaits

LEMMA EditStep == ASSUME Inv, Edit \/ Revert PROVE Inv'
<1> USE EditorAssumption, NoneAssumption
<1>1. editor \in Editor
  BY DEF Inv, TypeOK, Typed, Edit, Revert, Dirty
<1>2. CASE Edit
  <2>1. PICK f \in Field, v \in Val : editor' = [editor EXCEPT !.draft[f] = v]
    BY <1>2 DEF Edit
  <2> DEFINE d == [editor.draft EXCEPT ![f] = v]
  <2>2. d \in Settings
    BY <1>1 DEF Editor, Settings
  <2>3. editor' = [editor EXCEPT !.draft = d]
    BY <1>1, <2>1 DEF Editor
  <2> QED
    BY <1>1, <1>2, <2>2, <2>3, DraftStep DEF Edit
<1>3. CASE Revert
  BY <1>1, <1>3, DraftStep DEF Revert, Editor
<1> QED
  BY <1>2, <1>3

LEMMA RebaseStep == ASSUME Inv, Rebase PROVE Inv'
<1> USE EditorAssumption, NoneAssumption
<1>1. editor \in Editor /\ editor.saving = None
  BY DEF Rebase, Inv, TypeOK, Typed, Saving, Awaits
<1>2. editor.state.settings \in Settings
  BY <1>1 DEF Editor, Saved
<1>3. mergeEdits(editor.baseline, editor.draft, editor.state.settings) \in Settings
  BY <1>1, <1>2 DEF Editor, Settings, mergeEdits
<1>4. /\ editor' \in Editor /\ editor' # None
      /\ editor'.saving = None /\ editor'.requestId = editor.requestId
      /\ editor'.state = editor.state /\ editor'.baselineRevision = editor'.baseline
  BY <1>1, <1>2, <1>3 DEF Rebase, rebaseDraft, Editor
<1>5. TypeOK'
  BY <1>1, <1>4 DEF Rebase, Inv, TypeOK, Typed, Saving, Awaits
<1>6. ASSUME NEW r \in wire PROVE RequestInv(r)'
  BY <1>1, <1>4, <1>6 DEF Rebase, Inv, RequestInv, SaveInv, ReadInv
<1> QED
  BY <1>1, <1>4, <1>5, <1>6 DEF Rebase, Inv, ReadYourWrites, EditorInv, OneAwaited, Awaits

(* A new request that reads, where nothing is being saved.                 *)
LEMMA AskStep ==
  ASSUME Inv, NEW kind \in Kind \ {"save", "followup"}, Ask(kind), ~Saving,
         UNCHANGED <<editor, conflict, saving, server, told>>,
         kind = "refresh" => ~refreshInFlight,
         refreshInFlight' = (refreshInFlight \/ kind = "refresh")
  PROVE  Inv'
<1> USE EditorAssumption, NoneAssumption
<1>1. requestSequence' \in Nat /\ requestSequence' = requestSequence + 1
  BY DEF Ask, Inv, TypeOK, Typed
<1>2. PICK new \in Request : wire' = wire \cup {new} /\ new = Read(requestSequence', kind)
  BY <1>1 DEF Ask, Read, Request
<1>3. new.id = requestSequence' /\ new.kind = kind /\ new.result = "none" /\ new.listening
  BY <1>2 DEF Read
<1>4. Typed'
  BY <1>1, <1>2 DEF Inv, TypeOK, Typed
<1>5. TypeOK'
  BY <1>2, <1>3, <1>4 DEF Inv, TypeOK, Saving, Awaits, Kind
<1>6. editor # None => editor.requestId \in Nat /\ editor.saving = None
  BY DEF Saving, Inv, TypeOK, Typed, Editor
<1>7. ASSUME NEW r \in wire PROVE RequestInv(r)'
  <2>1. r.id \in Nat
    BY DEF Inv, TypeOK, Typed, Request
  <2> QED
    BY <1>1, <1>6, <1>7, <2>1 DEF Inv, TypeOK, Typed, RequestInv, SaveInv, ReadInv
<1>8. RequestInv(new)'
  BY <1>1, <1>3 DEF RequestInv, ReadInv, Kind
<1>9. EditorInv'
  BY <1>1, <1>6 DEF Inv, TypeOK, Typed, EditorInv
<1>10. OneAwaited({"save", "followup"})' /\ OneAwaited({"refresh"})'
  BY <1>2, <1>3 DEF Inv, TypeOK, OneAwaited, Awaits, Kind
<1> QED
  BY <1>2, <1>5, <1>7, <1>8, <1>9, <1>10 DEF Inv, ReadYourWrites

LEMMA ReadStep == ASSUME Inv, Observe \/ Refresh \/ Retry PROVE Inv'
<1> USE DEF Kind, Saving
<1>1. refreshInFlight \in BOOLEAN
  BY DEF Inv, TypeOK, Typed
<1>2. CASE Observe
  BY <1>1, <1>2, AskStep DEF Observe
<1>3. CASE Refresh
  BY <1>1, <1>3, AskStep DEF Refresh
<1>4. CASE Retry
  BY <1>1, <1>4, AskStep DEF Retry
<1> QED
  BY <1>2, <1>3, <1>4

LEMMA SaveStep == ASSUME Inv, Save PROVE Inv'
<1> USE EditorAssumption, NoneAssumption
<1>1. editor \in Editor /\ editor.saving = None
  BY DEF Save, Dirty, Saving, Inv, TypeOK, Typed
<1>2. requestSequence' \in Nat /\ requestSequence' = requestSequence + 1
  BY DEF Save, Inv, TypeOK, Typed
<1>3. PICK new \in Request :
        /\ wire' = wire \cup {new}
        /\ new.id = requestSequence' /\ new.kind = "save" /\ new.result = "none"
        /\ new.submitted = editor.draft /\ new.revision = new.baseline /\ new.listening
  <2>1. editor.draft \in Settings /\ editor.baseline \in Settings
        /\ editor.baselineRevision = editor.baseline
    BY <1>1 DEF Editor, Inv, EditorInv
  <2> DEFINE asked == [Read(requestSequence + 1, "save") EXCEPT !.submitted = editor.draft,
                         !.revision = editor.baselineRevision, !.baseline = editor.baseline]
  <2>2. /\ asked \in Request /\ asked.id = requestSequence + 1 /\ asked.kind = "save"
        /\ asked.result = "none" /\ asked.submitted = editor.draft
        /\ asked.revision = asked.baseline /\ asked.listening
    BY <1>2, <2>1 DEF Read, Request, Kind
  <2> QED
    BY <1>2, <2>2 DEF Save
<1>4. /\ editor' \in Editor /\ editor' # None /\ editor'.state = editor.state
      /\ editor'.baselineRevision = editor.baselineRevision
      /\ editor'.baseline = editor.baseline /\ editor'.requestId = requestSequence'
      /\ editor'.saving = [requestId |-> requestSequence', submitted |-> editor.draft]
      /\ editor'.saving.requestId = editor'.requestId /\ editor'.saving # None
  <2> DEFINE under == [requestId |-> requestSequence', submitted |-> editor.draft]
  <2>1. under \in Submission /\ under # None
    BY <1>1, <1>2 DEF Submission, Editor
  <2>2. editor' = [editor EXCEPT !.requestId = requestSequence', !.saving = under]
    BY <1>2 DEF Save, startSave
  <2> HIDE DEF under
  <2>3. /\ editor' \in Editor /\ editor'.state = editor.state
        /\ editor'.baselineRevision = editor.baselineRevision
        /\ editor'.baseline = editor.baseline /\ editor'.requestId = requestSequence'
        /\ editor'.saving = under
    BY <1>1, <1>2, <2>1, <2>2 DEF Editor
  <2> QED
    BY <2>1, <2>3 DEF under
<1>5. Typed'
  BY <1>2, <1>3, <1>4 DEF Save, Inv, TypeOK, Typed
<1>6. \A r \in wire : ~Awaits(r, {"save", "followup"})
  BY DEF Save, Inv, TypeOK, Typed
<1>7. TypeOK'
  BY <1>3, <1>4, <1>5, <1>6 DEF Save, Inv, TypeOK, Saving, Awaits
<1>8. ASSUME NEW r \in wire PROVE RequestInv(r)'
  <2>1. r.id \in Nat /\ r.id < requestSequence' /\ RequestInv(r)
    BY <1>2 DEF Inv, TypeOK, Typed, Request, RequestInv
  <2> QED
    BY <1>2, <1>4, <1>6, <2>1 DEF Save, RequestInv, SaveInv, ReadInv, Awaits
<1>9. RequestInv(new)'
  BY <1>1, <1>2, <1>3, <1>4 DEF RequestInv, SaveInv, Editor
<1>10. EditorInv'
  <2>1. \A r \in wire : r.id \in Nat /\ r.id < requestSequence'
    BY <1>2 DEF Inv, TypeOK, Typed, Request, RequestInv
  <2>2. \A r \in wire' : r.id <= requestSequence' /\ (r.id = requestSequence' => r.kind = "save")
    BY <1>2, <1>3, <2>1
  <2>3. editor'.baselineRevision = editor'.baseline
    BY <1>1, <1>4 DEF Inv, EditorInv
  <2> QED
    BY <1>2, <1>4, <2>2, <2>3 DEF EditorInv
<1>11. OneAwaited({"save", "followup"})' /\ OneAwaited({"refresh"})'
  BY <1>3, <1>6 DEF Inv, OneAwaited, Awaits
<1> QED
  BY <1>1, <1>3, <1>4, <1>7, <1>8, <1>9, <1>10, <1>11 DEF Save, Inv, ReadYourWrites

(* What the server saves, another editor's or not, outdates no answer.     *)
LEMMA OtherStep == ASSUME Inv, OtherSave PROVE Inv'
<1> USE EditorAssumption, NoneAssumption DEF OtherSave, buttons
<1>1. server' \in Saved /\ server'.version >= server.version
  BY DEF Inv, TypeOK, Typed, Saved
<1>2. TypeOK'
  BY <1>1 DEF Inv, TypeOK, Typed, Saving, Awaits
<1>3. ASSUME NEW r \in wire PROVE RequestInv(r)'
  BY <1>1, <1>3 DEF Inv, TypeOK, Typed, Saved, RequestInv, SaveInv, ReadInv
<1> QED
  BY <1>1, <1>2, <1>3
     DEF Inv, TypeOK, Typed, Saved, ReadYourWrites, EditorInv, OneAwaited, Awaits

LEMMA ServeStep == ASSUME Inv, NEW r \in wire, Serve(r) PROVE Inv'
<1> USE EditorAssumption, NoneAssumption DEF buttons
<1>1. r \in Request /\ RequestInv(r) /\ server \in Saved
  BY DEF Inv, TypeOK, Typed
<1>2. PICK result \in {"ok", "conflict", "error"}, state \in Saved \cup {None} :
        /\ Answered(r, result, state)
        /\ server' \in Saved /\ server'.version >= server.version
        /\ result = "ok" => state = server'
        /\ result = "ok" /\ r.kind = "save" => state.settings = r.submitted
  <2>1. server.version \in Nat /\ server.version >= server.version
    BY <1>1 DEF Saved
  <2>2. CASE r.kind # "save"
    BY <1>1, <2>1, <2>2 DEF Serve
  <2>3. CASE /\ r.kind = "save"
             /\ server' = [settings |-> r.submitted, version |-> server.version + 1]
             /\ Answered(r, "ok", server')
    <3>1. server' \in Saved /\ server'.version >= server.version
          /\ server'.settings = r.submitted
      BY <1>1, <2>1, <2>3 DEF RequestInv, SaveInv, Saved
    <3> QED
      BY <2>3, <3>1
  <2>4. CASE /\ \E refusal \in {"conflict", "error"} : Answered(r, refusal, None)
             /\ UNCHANGED server
    BY <1>1, <2>1, <2>4
  <2> QED
    BY <2>2, <2>3, <2>4 DEF Serve
<1>3. PICK a \in Request :
        /\ wire' = (wire \ {r}) \cup IF r.listening THEN {a} ELSE {}
        /\ a.id = r.id /\ a.kind = r.kind /\ a.listening = r.listening
        /\ a.submitted = r.submitted /\ a.revision = r.revision /\ a.baseline = r.baseline
        /\ a.result = result /\ a.state = state
  <2> DEFINE b == [r EXCEPT !.result = result, !.state = state]
  <2>1. /\ b \in Request /\ b.id = r.id /\ b.kind = r.kind /\ b.listening = r.listening
        /\ b.submitted = r.submitted /\ b.revision = r.revision /\ b.baseline = r.baseline
        /\ b.result = result /\ b.state = state
    BY <1>1 DEF Request
  <2> QED
    BY <1>2, <2>1 DEF Answered
<1>4. UNCHANGED <<editor, requestSequence, refreshInFlight, conflict, saving, told>>
  BY DEF Serve
<1>5. TypeOK'
  BY <1>1, <1>2, <1>3, <1>4 DEF Inv, TypeOK, Typed, Saving, Awaits
<1>6. told <= server'.version /\ told \in Nat /\ server'.version \in Nat
  BY <1>1, <1>2 DEF Inv, TypeOK, Typed, Saved
<1>7. ASSUME NEW q \in wire PROVE RequestInv(q)'
  BY <1>1, <1>2, <1>4, <1>7 DEF Inv, TypeOK, Typed, Saved, RequestInv, SaveInv, ReadInv
<1>8. ASSUME r.listening PROVE RequestInv(a)'
  BY <1>1, <1>2, <1>3, <1>4, <1>6, <1>8 DEF Saved, RequestInv, SaveInv, ReadInv
<1>9. EditorInv'
  BY <1>1, <1>3, <1>4 DEF Inv, EditorInv
<1>10. ASSUME NEW kinds, OneAwaited(kinds) PROVE OneAwaited(kinds)'
  BY <1>3, <1>10 DEF OneAwaited, Awaits
<1> QED
  BY <1>3, <1>4, <1>5, <1>6, <1>7, <1>8, <1>9, <1>10 DEF Inv, ReadYourWrites

(* An answer that is shown is newer than the last confirmed save.          *)
LEMMA ShowStep == ASSUME Inv, NEW r \in wire, Show(r) PROVE Inv'
<1> USE EditorAssumption, NoneAssumption
<1>1. r \in Request /\ RequestInv(r) /\ r.state \in Saved /\ r.id \in Nat
  BY DEF Show, Inv, TypeOK, Typed, RequestInv, Request
<1>2. /\ wire' = wire \ {r} /\ r.kind # "save" /\ r.listening /\ r.result = "ok"
      /\ UNCHANGED <<requestSequence, conflict, server, told>>
  BY DEF Show
<1> DEFINE fresh == createEditor(r.state, r.id)
<1>3. /\ fresh \in Editor /\ fresh # None /\ fresh.saving = None
      /\ fresh.requestId = r.id /\ fresh.state = r.state
      /\ fresh.baselineRevision = fresh.baseline
  BY <1>1 DEF createEditor, Editor, Saved
<1>4. CASE editor' = editor /\ editor # None /\ (editor.saving # None \/ r.id < editor.requestId)
  <2>1. TypeOK'
    BY <1>1, <1>2, <1>4 DEF Show, Inv, TypeOK, Typed, Saving, Awaits, OneAwaited
  <2>2. ASSUME NEW q \in wire PROVE RequestInv(q)'
    BY <1>2, <1>4, <2>2 DEF Inv, RequestInv, SaveInv, ReadInv
  <2> QED
    BY <1>2, <1>4, <2>1, <2>2 DEF Inv, ReadYourWrites, EditorInv, OneAwaited, Awaits
<1>5. CASE /\ editor' \in Editor /\ editor' # None /\ editor'.saving = None
           /\ editor'.requestId = r.id /\ editor'.state = r.state
           /\ editor'.baselineRevision = editor'.baseline
           /\ ~Saving /\ (editor # None => r.id >= editor.requestId)
  <2>1. Typed'
    BY <1>2, <1>5 DEF Show, Inv, TypeOK, Typed
  <2>2. TypeOK'
    <3>1. ~Saving' /\ \A q \in wire : ~Awaits(q, {"save"})
      BY <1>5 DEF Inv, TypeOK, RequestInv, SaveInv, Saving, Awaits
    <3>2. saving' <=> \E q \in wire' : Awaits(q, {"save", "followup"})
      BY <1>2 DEF Show, Inv, TypeOK, Awaits, OneAwaited
    <3>3. refreshInFlight' <=> \E q \in wire' : Awaits(q, {"refresh"})
      BY <1>2 DEF Show, Inv, TypeOK, Awaits, OneAwaited
    <3> QED
      BY <1>2, <2>1, <3>1, <3>2, <3>3 DEF TypeOK, Awaits
  <2>3. ASSUME NEW q \in wire PROVE RequestInv(q)'
    <3>1. RequestInv(q) /\ q.id \in Nat /\ (editor # None => editor.requestId \in Nat)
      BY DEF Inv, TypeOK, Typed, Request, Editor
    <3> QED
      BY <1>1, <1>2, <1>5, <3>1 DEF RequestInv, SaveInv, ReadInv, Saving
  <2>4. r.state.version >= told
    BY <1>1, <1>2, <1>5 DEF RequestInv, ReadInv
  <2> QED
    BY <1>1, <1>2, <1>5, <2>2, <2>3, <2>4
       DEF Inv, RequestInv, ReadYourWrites, EditorInv, OneAwaited, Awaits
<1>6. CASE editor = None
  BY <1>3, <1>5, <1>6 DEF Show, Saving
<1>7. CASE editor # None
  <2> USE <1>7
  <2>1. editor \in Editor /\ editor' = receiveSnapshot(editor, r.state, r.id)
    BY DEF Show, Inv, TypeOK, Typed
  <2>2. CASE r.id < editor.requestId \/ editor.saving # None
    BY <1>4, <2>1, <2>2 DEF receiveSnapshot
  <2>3. CASE ~(r.id < editor.requestId \/ editor.saving # None) /\ editor.baseline = editor.draft
    BY <1>1, <1>3, <1>5, <2>1, <2>3 DEF receiveSnapshot, Saving, Editor
  <2>4. CASE ~(r.id < editor.requestId \/ editor.saving # None) /\ editor.baseline # editor.draft
    <3>1. editor' = [editor EXCEPT !.state = r.state, !.requestId = r.id]
      BY <2>1, <2>4 DEF receiveSnapshot
    <3>2. editor.baselineRevision = editor.baseline
      BY DEF Inv, EditorInv
    <3>3. /\ editor' \in Editor /\ editor'.saving = None
          /\ editor'.requestId = r.id /\ editor'.state = r.state
          /\ editor'.baselineRevision = editor'.baseline
      BY <1>1, <2>1, <2>4, <3>1, <3>2 DEF Editor
    <3>4. editor.requestId \in Nat
      BY <2>1 DEF Editor
    <3> QED
      BY <1>1, <1>5, <2>4, <3>3, <3>4 DEF Saving
  <2> QED
    BY <2>2, <2>3, <2>4
<1> QED
  BY <1>6, <1>7

(* The save that is under way to the editor is its own, and the only one.  *)
LEMMA OwnSave ==
  ASSUME Inv, NEW r \in wire, r.kind = "save", r.listening
  PROVE  /\ r \in Request /\ RequestInv(r)
         /\ editor \in Editor /\ editor # None
         /\ editor.saving \in Submission /\ editor.saving # None
         /\ editor.saving.requestId = r.id /\ editor.saving.submitted = r.submitted
         /\ editor.requestId = r.id
         /\ \A q \in wire \ {r} : ~Awaits(q, {"save", "followup"})
<1> USE EditorAssumption, NoneAssumption
<1>1. r \in Request /\ RequestInv(r) /\ editor \in Editor \cup {None}
  BY DEF Inv, TypeOK, Typed
<1>2. /\ editor # None /\ editor.saving # None
      /\ editor.saving = [requestId |-> r.id, submitted |-> r.submitted]
  BY <1>1 DEF RequestInv, SaveInv
<1>3. editor \in Editor /\ editor.saving \in Submission
  BY <1>1, <1>2 DEF Editor
<1>4. editor.requestId = r.id
  BY <1>2 DEF Inv, EditorInv
<1>5. \A q \in wire \ {r} : ~Awaits(q, {"save", "followup"})
  BY DEF Inv, OneAwaited, Awaits
<1> QED
  BY <1>1, <1>2, <1>3, <1>4, <1>5

LEMMA FinishStep == ASSUME Inv, NEW r \in wire, Finish(r) PROVE Inv'
<1> USE EditorAssumption, NoneAssumption
<1>1. /\ r.kind = "save" /\ r.listening /\ r.result = "ok"
      /\ wire' = wire \ {r} /\ told' = r.state.version
      /\ UNCHANGED <<requestSequence, refreshInFlight, server>> /\ conflict' = FALSE
      /\ saving' = FALSE
  BY DEF Finish
<1>2. /\ r \in Request /\ RequestInv(r)
      /\ editor \in Editor /\ editor.saving \in Submission
      /\ editor.saving.requestId = r.id /\ editor.requestId = r.id /\ editor.saving # None
      /\ \A q \in wire \ {r} : ~Awaits(q, {"save", "followup"})
  BY <1>1, OwnSave
<1>3. r.state \in Saved /\ r.state.version \in Nat /\ r.state.version <= server.version
      /\ r.id \in Nat /\ r.id <= requestSequence
  BY <1>1, <1>2 DEF RequestInv, Saved, Request
<1>4. /\ editor' \in Editor /\ editor' # None /\ editor'.saving = None
      /\ editor'.state = r.state /\ editor'.requestId = r.id
      /\ editor'.baselineRevision = editor'.baseline
  <2> DEFINE merged == mergeEdits(editor.saving.submitted, editor.draft, r.state.settings)
  <2>1. merged \in Settings
    BY <1>2, <1>3 DEF mergeEdits, Settings, Saved, Submission, Editor
  <2> HIDE DEF merged
  <2>2. editor' = [state |-> r.state, baseline |-> r.state.settings,
                   baselineRevision |-> r.state.settings, draft |-> merged,
                   requestId |-> r.id, saving |-> None]
    BY DEF Finish, finishSave, merged
  <2> QED
    BY <1>3, <2>1, <2>2 DEF Editor, Saved
<1>5. Typed'
  BY <1>1, <1>3, <1>4 DEF Inv, TypeOK, Typed
<1>6. TypeOK'
  <2>1. refreshInFlight' <=> \E q \in wire' : Awaits(q, {"refresh"})
    BY <1>1 DEF Inv, TypeOK, Awaits
  <2> QED
    BY <1>1, <1>2, <1>4, <1>5, <2>1 DEF TypeOK, Saving, Awaits
<1>7. ASSUME NEW q \in wire \ {r} PROVE RequestInv(q)'
  <2>1. RequestInv(q) /\ q.id \in Nat /\ ~Awaits(q, {"save", "followup"})
    BY <1>2 DEF Inv, TypeOK, Typed, Request
  <2>2. q.id <= r.id /\ (q.id = r.id => q.kind = "save")
    BY <1>2 DEF Inv, EditorInv
  <2> QED
    BY <1>1, <1>3, <1>4, <2>1, <2>2 DEF RequestInv, SaveInv, ReadInv, Awaits
<1> QED
  BY <1>1, <1>2, <1>3, <1>4, <1>6, <1>7
     DEF Inv, ReadYourWrites, EditorInv, OneAwaited, Awaits, Saved

(* The editor after a save has failed.                                     *)
LEMMA FailedEditor ==
  ASSUME Inv, editor \in Editor, editor # None, editor' = failSave(editor)
  PROVE  /\ editor' \in Editor /\ editor' # None /\ editor'.saving = None
         /\ editor'.state = editor.state /\ editor'.requestId = editor.requestId
         /\ editor'.baselineRevision = editor'.baseline
<1>1. editor.baselineRevision = editor.baseline
  BY DEF Inv, EditorInv
<1> QED
  BY <1>1, NoneAssumption DEF failSave, Editor

LEMMA ConflictStep == ASSUME Inv, NEW r \in wire, Conflict(r) PROVE Inv'
<1> USE EditorAssumption, NoneAssumption
<1>1. /\ r.kind = "save" /\ r.listening /\ conflict' = TRUE
      /\ UNCHANGED <<refreshInFlight, server, told>>
  BY DEF Conflict
<1>2. /\ editor \in Editor /\ editor # None /\ editor.saving # None
      /\ \A q \in wire \ {r} : ~Awaits(q, {"save", "followup"})
  BY <1>1, OwnSave
<1>3. /\ editor' \in Editor /\ editor' # None /\ editor'.saving = None
      /\ editor'.state = editor.state /\ editor'.requestId = editor.requestId
      /\ editor'.baselineRevision = editor'.baseline
  BY <1>2, FailedEditor DEF Conflict
<1>4. /\ requestSequence \in Nat /\ requestSequence' \in Nat
      /\ requestSequence' >= requestSequence
      /\ editor.requestId \in Nat /\ editor.requestId <= requestSequence
  BY <1>2 DEF Conflict, Inv, TypeOK, Typed, EditorInv, Editor
<1>5. ASSUME NEW q \in wire \ {r} PROVE RequestInv(q)'
  <2>1. RequestInv(q) /\ q.id \in Nat /\ ~Awaits(q, {"save", "followup"})
    BY <1>2 DEF Inv, TypeOK, Typed, Request
  <2> QED
    BY <1>1, <1>2, <1>3, <1>4, <2>1 DEF RequestInv, SaveInv, ReadInv, Awaits
<1>6. saving = TRUE
  BY <1>1 DEF Inv, TypeOK, Typed, Awaits
<1>7. CASE wire' = wire \ {r} /\ saving' = FALSE /\ UNCHANGED requestSequence
  <2>1. Typed'
    BY <1>1, <1>3, <1>4, <1>7 DEF Inv, TypeOK, Typed
  <2>2. refreshInFlight' <=> \E q \in wire' : Awaits(q, {"refresh"})
    BY <1>1, <1>7 DEF Inv, TypeOK, Awaits
  <2>3. TypeOK'
    BY <1>2, <1>3, <1>7, <2>1, <2>2 DEF TypeOK, Saving, Awaits
  <2> QED
    BY <1>1, <1>2, <1>3, <1>4, <1>5, <1>7, <2>3
       DEF Inv, ReadYourWrites, EditorInv, OneAwaited, Awaits
<1>8. CASE /\ requestSequence' = requestSequence + 1
           /\ wire' = (wire \ {r}) \cup {Read(requestSequence', "followup")}
           /\ UNCHANGED saving
  <2>1. PICK new \in Request :
          /\ wire' = (wire \ {r}) \cup {new} /\ new.id = requestSequence'
          /\ new.kind = "followup" /\ new.result = "none" /\ new.listening
    <3>1. PICK new \in Request :
            wire' = (wire \ {r}) \cup {new} /\ new = Read(requestSequence', "followup")
      BY <1>4, <1>8 DEF Read, Request, Kind
    <3>2. new.id = requestSequence' /\ new.kind = "followup" /\ new.result = "none"
            /\ new.listening
      BY <3>1 DEF Read
    <3> QED
      BY <3>1, <3>2
  <2>2. Typed'
    BY <1>1, <1>3, <1>4, <1>8, <2>1 DEF Inv, TypeOK, Typed
  <2>3. refreshInFlight' <=> \E q \in wire' : Awaits(q, {"refresh"})
    BY <1>1, <2>1 DEF Inv, TypeOK, Awaits
  <2>4. TypeOK'
    BY <1>2, <1>3, <1>6, <1>8, <2>1, <2>2, <2>3 DEF TypeOK, Saving, Awaits
  <2>5. RequestInv(new)'
    BY <1>4, <2>1 DEF RequestInv, ReadInv
  <2>6. OneAwaited({"save", "followup"})' /\ OneAwaited({"refresh"})'
    BY <1>2, <2>1 DEF Inv, OneAwaited, Awaits
  <2> QED
    BY <1>1, <1>2, <1>3, <1>4, <1>5, <2>1, <2>4, <2>5, <2>6
       DEF Inv, ReadYourWrites, EditorInv
<1> QED
  BY <1>7, <1>8 DEF Conflict

LEMMA FailStep == ASSUME Inv, NEW r \in wire, Fail(r) PROVE Inv'
<1> USE EditorAssumption, NoneAssumption
<1>1. /\ r.listening /\ r \in Request /\ RequestInv(r)
      /\ UNCHANGED <<requestSequence, conflict, server, told>>
      /\ refreshInFlight' = (refreshInFlight /\ r.kind # "refresh")
      /\ saving' = (saving /\ r.kind \notin {"save", "followup"})
  BY DEF Fail, Inv, TypeOK, Typed
<1>2. CASE r.kind # "save"
  <2>1. editor' = editor /\ wire' = wire \ {r}
    BY <1>2 DEF Fail
  <2>2. Typed'
    BY <1>1, <2>1 DEF Inv, TypeOK, Typed
  <2>3. saving' <=> \E q \in wire' : Awaits(q, {"save", "followup"})
    BY <1>1, <2>1 DEF Inv, TypeOK, OneAwaited, Awaits
  <2>4. refreshInFlight' <=> \E q \in wire' : Awaits(q, {"refresh"})
    BY <1>1, <2>1 DEF Inv, TypeOK, OneAwaited, Awaits
  <2>5. Saving' <=> \E q \in wire' : Awaits(q, {"save"}) /\ q.id = editor'.saving.requestId
    BY <1>2, <2>1 DEF Inv, TypeOK, Saving, Awaits
  <2>6. ASSUME NEW q \in wire PROVE RequestInv(q)'
    BY <1>1, <2>1, <2>6 DEF Inv, RequestInv, SaveInv, ReadInv
  <2> QED
    BY <1>1, <2>1, <2>2, <2>3, <2>4, <2>5, <2>6
       DEF Inv, TypeOK, ReadYourWrites, EditorInv, OneAwaited, Awaits
<1>3. CASE r.kind = "save"
  <2>1. /\ editor \in Editor /\ editor # None /\ editor.saving # None
        /\ \A q \in wire \ {r} : ~Awaits(q, {"save", "followup"})
    BY <1>1, <1>3, OwnSave
  <2>2. /\ editor' \in Editor /\ editor' # None /\ editor'.saving = None
        /\ editor'.state = editor.state /\ editor'.requestId = editor.requestId
        /\ editor'.baselineRevision = editor'.baseline
    BY <1>3, <2>1, FailedEditor DEF Fail
  <2>3. PICK o \in Request :
          /\ o.kind = "save" /\ ~o.listening /\ o.id = r.id /\ o.result = r.result
          /\ o.submitted = r.submitted /\ o.revision = r.revision /\ o.baseline = r.baseline
          /\ wire' = (wire \ {r}) \cup IF r.result = "none" THEN {o} ELSE {}
    <3> DEFINE given == [r EXCEPT !.listening = FALSE]
    <3>1. /\ given \in Request /\ given.kind = r.kind /\ ~given.listening
          /\ given.id = r.id /\ given.result = r.result /\ given.submitted = r.submitted
          /\ given.revision = r.revision /\ given.baseline = r.baseline
      BY <1>1 DEF Request
    <3> QED
      BY <1>3, <3>1 DEF Fail
  <2>4. Typed'
    BY <1>1, <2>2, <2>3 DEF Inv, TypeOK, Typed
  <2>5. refreshInFlight' <=> \E q \in wire' : Awaits(q, {"refresh"})
    BY <1>1, <1>3, <2>3 DEF Inv, TypeOK, Typed, Awaits
  <2>6. TypeOK'
    BY <1>1, <1>3, <2>1, <2>2, <2>3, <2>4, <2>5 DEF TypeOK, Saving, Awaits
  <2>7. ASSUME NEW q \in wire \ {r} PROVE RequestInv(q)'
    BY <1>1, <2>1, <2>2, <2>7 DEF Inv, RequestInv, SaveInv, ReadInv, Awaits
  <2>8. ASSUME r.result = "none" PROVE RequestInv(o)'
    BY <1>1, <1>3, <2>3, <2>8 DEF RequestInv, SaveInv
  <2>9. OneAwaited({"save", "followup"})' /\ OneAwaited({"refresh"})'
    BY <2>3 DEF Inv, OneAwaited, Awaits
  <2> QED
    BY <1>1, <2>1, <2>2, <2>3, <2>6, <2>7, <2>8, <2>9 DEF Inv, ReadYourWrites, EditorInv
<1> QED
  BY <1>2, <1>3

LEMMA InvStep == Inv /\ [Next]_vars => Inv'
<1> SUFFICES ASSUME Inv, [Next]_vars PROVE Inv'
  OBVIOUS
<1>1. CASE User
  BY <1>1, EditStep, RebaseStep, SaveStep DEF User
<1>2. CASE Observe \/ Refresh \/ Retry
  BY <1>2, ReadStep
<1>3. CASE OtherSave
  BY <1>3, OtherStep
<1>4. ASSUME NEW r \in wire, Serve(r) \/ Show(r) \/ Finish(r) \/ Conflict(r) \/ Fail(r)
      PROVE  Inv'
  BY <1>4, ServeStep, ShowStep, FinishStep, ConflictStep, FailStep
<1>5. CASE UNCHANGED vars
  BY <1>5 DEF vars, buttons, Inv, TypeOK, Typed, Saving, Awaits, ReadYourWrites, EditorInv,
              RequestInv, SaveInv, ReadInv, OneAwaited
<1> QED
  BY <1>1, <1>2, <1>3, <1>4, <1>5 DEF Next

LEMMA InvHolds == Spec => []Inv
  BY InvInit, InvStep, PTL DEF Spec

-----------------------------------------------------------------------------

(* The variables keep their types, and the flags of the buttons tell of    *)
(* exactly the requests under way, for any number of requests in any order.*)
THEOREM TypeCorrect == Spec => []TypeOK
<1>1. Inv => TypeOK
  BY DEF Inv
<1> QED
  BY <1>1, InvHolds, PTL

(* The editor never goes back behind a save it was told of.                *)
THEOREM Consistent == Spec => []ReadYourWrites
<1>1. Inv => ReadYourWrites
  BY DEF Inv
<1> QED
  BY <1>1, InvHolds, PTL

(* No answer and no rebase replaces an edit that the user has not saved.   *)
THEOREM NothingLost == Spec => EditsSurvive
<1> DEFINE Kept == editor # None => \A f \in Field : EditKept(f)
<1>1. ASSUME Inv, Next PROVE Edit \/ Revert \/ Kept
  <2> USE EditorAssumption, NoneAssumption
  <2> SUFFICES ASSUME editor # None, NEW f \in Field PROVE Edit \/ Revert \/ EditKept(f)
    OBVIOUS
  <2>1. ASSUME editor'.draft = editor.draft PROVE EditKept(f)
    BY <2>1 DEF EditKept
  <2>2. editor \in Editor
    BY <1>1 DEF Inv, TypeOK, Typed
  <2>3. CASE Rebase
    <3>1. editor.saving = None
      BY <1>1, <2>3 DEF Rebase, Inv, TypeOK, Saving, Awaits
    <3>2. editor'.draft = mergeEdits(editor.baseline, editor.draft, editor.state.settings)
      BY <2>2, <2>3 DEF Rebase, rebaseDraft, Editor
    <3> QED
      BY <3>1, <3>2 DEF mergeEdits, EditKept
  <2>4. CASE Save
    BY <2>1, <2>2, <2>4 DEF Save, startSave, Editor
  <2>5. CASE Observe \/ Refresh \/ Retry \/ OtherSave
    BY <2>1, <2>5 DEF Observe, Refresh, Retry, OtherSave
  <2>6. ASSUME NEW r \in wire, Serve(r) PROVE EditKept(f)
    BY <2>1, <2>6 DEF Serve
  <2>7. ASSUME NEW r \in wire, Show(r) PROVE EditKept(f)
    <3>1. editor' = receiveSnapshot(editor, r.state, r.id)
      BY <2>7 DEF Show
    <3>2. CASE r.id < editor.requestId \/ editor.saving # None
      BY <2>1, <3>1, <3>2 DEF receiveSnapshot
    <3>3. CASE editor.saving = None /\ editor.baseline = editor.draft
      BY <3>3 DEF EditKept
    <3>4. CASE ~(r.id < editor.requestId \/ editor.saving # None)
               /\ editor.baseline # editor.draft
      BY <2>1, <2>2, <3>1, <3>4 DEF receiveSnapshot, Editor
    <3> QED
      BY <3>2, <3>3, <3>4
  <2>8. ASSUME NEW r \in wire, Finish(r) PROVE EditKept(f)
    <3>1. /\ RequestInv(r) /\ editor.saving # None
          /\ editor.saving.submitted = r.submitted
      BY <1>1, <2>8, OwnSave DEF Finish
    <3>2. r.state.settings = editor.saving.submitted
      BY <2>8, <3>1 DEF Finish, RequestInv, SaveInv
    <3>3. editor'.draft = mergeEdits(editor.saving.submitted, editor.draft, r.state.settings)
      BY <2>8 DEF Finish, finishSave
    <3> QED
      BY <3>1, <3>2, <3>3 DEF mergeEdits, EditKept
  <2>9. ASSUME NEW r \in wire, Conflict(r) \/ Fail(r) PROVE EditKept(f)
    BY <2>1, <2>2, <2>9 DEF Conflict, Fail, failSave, Editor
  <2> QED
    BY <1>1, <2>3, <2>4, <2>5, <2>6, <2>7, <2>8, <2>9 DEF Next, User
<1>2. Inv /\ [Next]_vars => [Edit \/ Revert \/ Kept]_vars
  BY <1>1
<1> QED
  BY <1>2, InvHolds, PTL DEF Spec, EditsSurvive

(* No save undoes what it was not an edit of, however late it is served.   *)
THEOREM NothingUndone == Spec => SavesOnlyEdits
<1> DEFINE Only(r) ==
      r.kind = "save" /\ server' # server /\ wire' # wire /\ Serve(r) =>
        \A f \in Field : server'.settings[f] # server.settings[f] =>
                           r.submitted[f] # r.baseline[f]
<1>1. ASSUME Inv, NEW r \in wire PROVE Only(r)
  <2> SUFFICES ASSUME r.kind = "save", server' # server, Serve(r) PROVE Only(r)
    OBVIOUS
  <2>1. RequestInv(r)
    BY <1>1 DEF Inv
  <2>2. r.revision = r.baseline
    BY <2>1 DEF RequestInv, SaveInv
  <2>3. r.revision = server.settings /\ server'.settings = r.submitted
    BY DEF Serve
  <2> QED
    BY <2>2, <2>3
<1>2. Inv => [\A r \in wire : Only(r)]_vars
  BY <1>1
<1> QED
  BY <1>2, InvHolds, PTL DEF SavesOnlyEdits
=============================================================================
