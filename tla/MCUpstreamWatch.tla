-------------------------- MODULE MCUpstreamWatch --------------------------
(* Two releases to come, and patches that fare alike or differently. *)
EXTENDS UpstreamWatch

MCFates == {<<"clean", "clean">>, <<"clean", "offsets">>, <<"rejected", "offsets">>}
============================================================================
