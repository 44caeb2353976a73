----------------------------- MODULE MCFineTune -----------------------------
(* Short prompts and answers, around the length at which they are cut. *)
EXTENDS FineTune

MCSources == {<<"s">>, <<"s", "s">>, <<"s", "s", "s", "s">>, <<"s", "pad", "s">>}
MCTargets == {<<"t", "EOT">>, <<"t", "t", "EOT">>, <<"t", "pad", "EOT">>, <<"pad", "EOT">>}
=============================================================================
