------------------------- MODULE MCLibraryEntries -------------------------
(* The library's entries and the tuner of its cache on small instances.    *)
EXTENDS TacticCache
=============================================================================
