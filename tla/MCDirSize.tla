----------------------------- MODULE MCDirSize ------------------------------
(* A root with two entries, one of which may hold a hidden one and another  *)
(* with an entry of its own.                                                *)
EXTENDS DirSize

MCAbove == [p \in {"a", "b", "h", "c", "d"} |->
              CASE p \in {"a", "b"} -> "r" [] p \in {"h", "c"} -> "a" [] p = "d" -> "c"]

MCDepth == -1 .. 2

=============================================================================
