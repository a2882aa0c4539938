---- MODULE MCSpannerCartStore ----
(* Instances of SpannerCartStore for TLC.                                     *)
EXTENDS SpannerCartStore, TLC

Symmetry == Permutations(Calls)
=============================================================================
