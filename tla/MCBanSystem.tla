---------------------------- MODULE MCBanSystem -----------------------------
(* BanSystem for two accounts, with the main thread and a request thread.    *)
EXTENDS BanSystem

MCUids == {1, 2}
=============================================================================
