---------------------------- MODULE MCProbeEngine ----------------------------
(* Three probes, a plugin's under the id of a built-in one, in a pool with *)
(* room for all, for two and for one.                                      *)
EXTENDS ProbeEngine

MCIds == {"path/entries", "toolchain/detect"}
MCProbeIds == <<"path/entries", "toolchain/detect", "path/entries">>
MCPoolSizes == {1, 2, 3}
=============================================================================
