----------------------------- MODULE MCImporter -----------------------------
(* An instance of Importer: three objects of different sizes, two of which share a path. *)
EXTENDS Importer

CONSTANTS o1, o2, o3, p1, p2

MCObjects == {o1, o2, o3}
MCPaths   == {p1, p2}
MCSize    == [o \in MCObjects |-> CASE o = o1 -> 3 [] o = o2 -> 2 [] o = o3 -> 1]
MCDest    == [o \in MCObjects |-> IF o = o3 THEN p2 ELSE p1]
=============================================================================
