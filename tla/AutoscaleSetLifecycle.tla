------------------------- MODULE AutoscaleSetLifecycle -------------------------
(****************************************************************************)
(* What an AutoscaleSet promises to those who watch it, the RunnerSet       *)
(* controller above all: it is created, edited and deleted by users, it     *)
(* records one scale set ID in its lifetime, and no two of its incarnations *)
(* record the same one.                                                     *)
(*                                                                          *)
(* AutoscaleSetReconciler implements this specification; RunnerSetReconciler*)
(* takes its steps for its environment.                                     *)
(****************************************************************************)
EXTENDS Integers

CONSTANTS
    MaxIds,       \* bound on the number of scale sets ever created
    MaxEdits      \* bound on the generation of an AutoscaleSet

VARIABLES
    object,       \* the AutoscaleSet: its state, its ID and its spec
    assigned      \* the last scale set ID that was recorded or lost

vars == <<object, assigned>>

Ids == 1 .. MaxIds
NoId == 0
Versions == 0 .. MaxEdits

AutoscaleSetObject ==
    [state : {"absent", "present", "deleting"}, id : Ids \cup {NoId}, template : Versions]
NoObject == [state |-> "absent", id |-> NoId, template |-> 0]

Init == object = NoObject /\ assigned = 0

Create ==
    /\ object.state = "absent"
    /\ object' = [NoObject EXCEPT !.state = "present"]
    /\ UNCHANGED assigned

Edit ==
    /\ object.state # "absent" /\ object.template < MaxEdits
    /\ object' = [object EXCEPT !.template = @ + 1]
    /\ UNCHANGED assigned

(* An AutoscaleSet without a scale set may go at once. *)
Delete ==
    /\ object.state = "present"
    /\ \/ object' = [object EXCEPT !.state = "deleting"]
       \/ object.id = NoId /\ object' = NoObject
    /\ UNCHANGED assigned

Remove ==
    /\ object.state = "deleting"
    /\ object' = NoObject
    /\ UNCHANGED assigned

(* The ID of a new scale set is recorded, or lost on the way. *)
Record ==
    /\ object.state # "absent" /\ object.id = NoId
    /\ assigned < MaxIds
    /\ assigned' = assigned + 1
    /\ object' = [object EXCEPT !.id = assigned']

Lose ==
    /\ assigned < MaxIds
    /\ assigned' = assigned + 1
    /\ UNCHANGED object

Next == Create \/ Edit \/ Delete \/ Remove \/ Record \/ Lose

Spec == Init /\ [][Next]_vars
==============================================================================
