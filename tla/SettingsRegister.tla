-------------------------- MODULE SettingsRegister --------------------------
(***************************************************************************)
(* What saving promises an editor of the settings: a compare-and-set       *)
(* register.  A save lands only on the very value its editor looked at;    *)
(* connecting for the first time writes out the defaults, once.            *)
(***************************************************************************)
CONSTANTS Editor, Value, Absent, Default
VARIABLES value,  (* what is saved                                         *)
          view    (* what each editor last saw of it                       *)

Init == value = Absent /\ view = [e \in Editor |-> Absent]

(* The answer to a save is a look at its result, now or later.             *)
Save(e) ==
  /\ view[e] = value
  /\ value' \in Value
  /\ view' \in {view, [view EXCEPT ![e] = value']}

WriteDefault ==
  /\ value = Absent
  /\ value' = Default
  /\ UNCHANGED view

(* Reading the state; one answer may reach several editors.                *)
Look(group) ==
  /\ view' = [e \in Editor |-> IF e \in group THEN value ELSE view[e]]
  /\ UNCHANGED value

Next == (\E e \in Editor : Save(e)) \/ WriteDefault \/ (\E g \in SUBSET Editor : Look(g))

Spec == Init /\ [][Next]_<<value, view>>
=============================================================================
