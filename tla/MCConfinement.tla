--------------------------- MODULE MCConfinement ---------------------------
(* Instance of Confinement for TLC. *)
EXTENDS Confinement

(* Targets of up to three components: plain, climbing, absolute, climbing  *)
(* after a name, with dots between.                                        *)
SomeTargets ==
    {<<"a">>, <<"b">>, <<"..">>, <<"..", "b">>, <<"..", "..">>, <<"a", "..">>,
     <<".", "..">>, <<"..", ".", "..">>, <<"/", "a">>, <<>>}
=============================================================================
