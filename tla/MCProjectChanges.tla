--------------------------- MODULE MCProjectChanges ---------------------------
EXTENDS ProjectChangeProperties, TLC
CONSTANTS ann, bob, old, new, f, g
\* Ann works on her draft; Bob opens his and submits it.
AnnAndBob == [u \in {ann, bob} |-> IF u = ann THEN 4 ELSE 2]
\* Two small instances: an ordinary field, or the document.
FieldOrDocument == {[fields |-> {"note"}, files |-> {}], [fields |-> {}, files |-> {f, g}]}
\* Files are interchangeable.
TwoFiles == Permutations({f, g})
===============================================================================
