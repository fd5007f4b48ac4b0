-------------------------- MODULE MCScalingServices --------------------------
(* Instances of ScalingServices for TLC. *)
EXTENDS ScalingServices

CONSTANTS t1, t2, e1, scaler, guardian

OneOfEach    == {t1, t2, e1}   \* a start_app_task, a removal, an extend_lv
Starter      == {t1}
Extension    == {e1}
Nobody       == {}

\* With power budgeting the Guardian is on the list of the local scripts only; the
\* Scaler stands for the services that both lists have.
Services      == {scaler, guardian}
OfTheScripts  == <<scaler, guardian>>
OfThePlaybook == <<scaler>>
=============================================================================
