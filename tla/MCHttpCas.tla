------------------------------ MODULE MCHttpCas -------------------------------
(* Bounds for HttpCas; the devices are interchangeable. *)
EXTENDS HttpCas, TLC

Symmetry == Permutations(Writers)
=============================================================================
