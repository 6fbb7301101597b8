-------------------------- MODULE MCCacheController --------------------------
(* Instances of CacheController for TLC. *)
EXTENDS CacheController

TwoTypes == {"ccache", "pip"}
=============================================================================
