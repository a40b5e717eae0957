----------------------------- MODULE MCPrograms -----------------------------
(* Instances of Programs for TLC.                                          *)
EXTENDS Programs, TLC

(* P0 runs for ever and makes no call on descriptors.                      *)
RingCommands == {<<"T2">>, <<"P0">>}
Pipelines == {<<"T0", "T1">>, <<"T0", "T3">>}
PlumbingCommands == {<<"T0", "T1">>, <<"P3">>, <<"T3">>}
=============================================================================
