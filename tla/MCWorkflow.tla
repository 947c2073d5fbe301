----------------------------- MODULE MCWorkflow -----------------------------
(* Instances of Workflow for TLC.                                          *)
EXTENDS Workflow

(* Two roots that meet in a third job, and one job below it.               *)
Four == <<"a", "b", "c", "d">>
FourDeps == {<<"a", "c">>, <<"b", "c">>, <<"c", "d">>}
LastOne == {"d"}
=============================================================================
