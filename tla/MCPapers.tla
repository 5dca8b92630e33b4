------------------------------ MODULE MCPapers ------------------------------
(* Two matters and two clients; forms are opened on a document with two    *)
(* matters, on a power of attorney with a former lawyer, on a fee letter   *)
(* and a reference to it, or to create something.                          *)
EXTENDS Papers, TLC

CONSTANTS m1, m2, c1, c2, p1, p2, doc, new1, new2, poa, letter, other, ref

MCKindOf == [p \in Paper |->
    CASE p \in {doc, new1, new2} -> "document" [] p = poa -> "poa"
      [] p \in {letter, other} -> "letter" [] p = ref -> "reference"]
MCMatterOf == [p \in {ref} |-> m1]

R(x, retired, place) == [of |-> x, retired |-> retired, place |-> place]
P(client, rows) == [Blank EXCEPT !.version = 1, !.client = client, !.rows = rows]

MCImported ==
    (doc :> P(c1, {R(m1, FALSE, 1), R(m2, FALSE, 2)})) @@ (new1 :> Blank) @@ (new2 :> Blank)
    @@ (poa :> P(c1, {R(p1, TRUE, 1), R(p2, FALSE, 2)}))
    @@ (letter :> P(c1, {R(m1, FALSE, 1)})) @@ (other :> P(c2, {}))
    @@ (ref :> P(None, {R(letter, FALSE, 0)}))

MCDesks == {{doc, m1, m2, c1}, {doc, m1, p1}, {poa, c1, p1, p2},
            {letter, other, ref, m1, m2}, {letter, ref, m1, c1}, {new1, new2, m1, m2}}

MCForms == Permutations(Form)
=============================================================================
