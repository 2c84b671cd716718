----------------------------- MODULE MCChromium -----------------------------
(* ChromiumEngine for TLC; the instances are in the configurations. *)
EXTENDS ChromiumEngine
=============================================================================
