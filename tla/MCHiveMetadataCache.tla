------------------------- MODULE MCHiveMetadataCache -------------------------
(* Small instances of HiveMetadataCache.                                    *)
EXTENDS HiveMetadataCache, TLC

\* Requests are interchangeable, and so are keys without the DDL.
CacheSymmetry == Permutations(Calls) \cup Permutations(Keys \ WithDDL)
=============================================================================
