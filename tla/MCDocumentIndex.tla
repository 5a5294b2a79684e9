-------------------------- MODULE MCDocumentIndex --------------------------
(* DocumentIndex on small instances. *)
EXTENDS DocumentIndex

(* A revision that is shorter than what it replaces, and one that is longer. *)
Lengths == <<2, 1, 2>>
=============================================================================
