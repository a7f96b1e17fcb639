-------------------------- MODULE MCJQueryEffects --------------------------
(* Three elements, alike to the code, three animations and one promise.     *)
EXTENDS JQueryEffects

Symmetry == Permutations(Elems)
=============================================================================
