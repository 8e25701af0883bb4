------------------------------ MODULE MCEngine ------------------------------
(***************************************************************************)
(* Small instances of Engine.  A pull of two items gives rollback an order *)
(* and a failure after a success; the script's undo may be one-way, and    *)
(* its probe never shows a change.                                         *)
(***************************************************************************)
EXTENDS EngineInvariant

file   == [handler |-> "dotfile", target |-> "file"]
script == [handler |-> "script",  target |-> "script"]

MCItems   == {file, script}
MCTargets == {"file", "script"}
Pair      == {<<file, script>>}

MCValues      == {"none", "some"}
MCRecipes     == {"recipe"}
MCProbeValues == [winget |-> {}, dotfile |-> {"none", "some"}, script |-> {"none"}]
MCAfterValues == [winget |-> {}, dotfile |-> {"some"}, script |-> {"some"}]
=============================================================================
