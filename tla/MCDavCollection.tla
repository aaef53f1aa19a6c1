-------------------------- MODULE MCDavCollection --------------------------
(* TLC instances of DavCollection.  All bodies carry the same UID, so      *)
(* that every write under another href meets the look-up by UID.           *)
EXTENDS DavCollection, TLC

CONSTANT u1

MCUidOf == [b \in Body |-> u1]

(* Handlers, hrefs and bodies are interchangeable.                         *)
MCSymmetry == Permutations(Handler) \cup Permutations(Href) \cup Permutations(Body)
=============================================================================
