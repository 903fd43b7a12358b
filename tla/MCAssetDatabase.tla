-------------------------- MODULE MCAssetDatabase ---------------------------
(* Small instances of AssetDatabase for TLC. *)
EXTENDS AssetDatabase

CONSTANTS a, b, j, k, l, src, i1

\* Asset a is made under key j and moved to k; asset b depends on what j leads
\* to, and may be written by its key alone; l is an alias both may ask for.
write(id, key, aliases, dependencies) ==
    [id |-> id, key |-> key, aliases |-> aliases, dependencies |-> dependencies,
     sameData |-> FALSE]
MCWrites ==
    {write(a, j, {}, {}), [write(a, k, {}, {}) EXCEPT !.sameData = TRUE],
     write(a, k, {l}, {}), write(b, l, {}, {j}), write(b, l, {}, {a})}

\* The import of a source with an identity, found under key k.
MCImportOf == [n \in Imports |-> [write |-> write(a, k, {}, {}), identity |-> src]]
=============================================================================
