-------------------------- MODULE MCEmitAuxiliary --------------------------
(* One emitter renames, removes and recreates a and b, which may take over   *)
(* each other's key; the other emits c and meets the first at the index.     *)
EXTENDS EmitAuxiliary

CONSTANTS e1, e2, a, b, c, n1, n2, k1

Is(id, name, key) == [id |-> id, version |-> [name |-> name, key |-> key]]
MCMaxEmits == [e \in Emitters |-> IF e = e1 THEN 2 ELSE 1]

No(id) == [id |-> id, version |-> Gone]

MCBatches == [e \in Emitters |->
    IF e = e1 THEN {<<Is(a, n1, k1)>>, <<Is(a, n1, Blank), Is(b, n1, k1)>>,
                    <<Is(b, n2, k1), No(a)>>, <<No(a), Is(a, n2, Blank)>>, <<Is(a, n2, k1), No(a)>>}
    ELSE {<<Is(c, n1, Blank)>>}]

\* A space without a name, published under its key, and then named.
MCNameless == [e \in Emitters |-> {<<Is(a, Blank, k1)>>, <<Is(a, n1, k1)>>}]
=============================================================================
