------------------------------- MODULE Overlays -------------------------------
(***************************************************************************)
(* Laying what one function says over another: how settings from several   *)
(* places, and the shapes of a face, are combined.                         *)
(***************************************************************************)

\* f, and g where f says nothing.
Over(f, g) == [x \in DOMAIN f \cup DOMAIN g |-> IF x \in DOMAIN f THEN f[x] ELSE g[x]]
=============================================================================
