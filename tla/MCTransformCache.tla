----------------------------- MODULE MCTransformCache -----------------------------
(***************************************************************************)
(* Small instances of TransformCache: a PDF engine with images beside its    *)
(* text, a plain text engine, and one that compares two files.               *)
(***************************************************************************)
EXTENDS TransformCache

TheExtension == [e \in Engines |-> IF e = "pdf" THEN "md" ELSE "txt"]
TheOutSize   == [e \in Engines |-> IF e = "pdf" THEN 2 ELSE 1]
Symmetric == Permutations(Clients) \cup Permutations(Contents)
=============================================================================
