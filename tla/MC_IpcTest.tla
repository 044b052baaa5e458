----------------------------- MODULE MC_IpcTest -----------------------------
(* Instantiates IpcTest for TLC; the constants come from the cfg.         *)
EXTENDS IpcTest

=============================================================================
