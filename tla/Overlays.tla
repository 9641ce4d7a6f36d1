------------------------------ MODULE Overlays ------------------------------
(***************************************************************************)
(* One map laid over another, as maps.Copy does it and @@ of TLC, but      *)
(* written out, so that it can be reasoned about.                          *)
(***************************************************************************)

\* The fields of f, and those of g that f has none of.
LaidOver(f, g) == [x \in DOMAIN f \union DOMAIN g |-> IF x \in DOMAIN f THEN f[x] ELSE g[x]]

=============================================================================
