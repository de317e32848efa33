--------------------------- MODULE MCAnnotations -----------------------------
(***************************************************************************)
(* Two families of sessions: contracts with up to three storage accesses in*)
(* two functions and outside them, about which anything may be proposed,   *)
(* and functions of up to three blocks, whose context meets its limits.    *)
(***************************************************************************)
EXTENDS Annotations, TLC

CONSTANTS f, g, b1, b2, b3, n1, n2, catch, bad, selector, other

Fixed(n) == [kind |-> "fixed", slot |-> n]
Mapping(n) == [kind |-> "mapping", slot |-> n]
Unknown == [kind |-> Symbolic, slot |-> 0]

MCIdentifiers == {n1, n2, catch, Default(EntryId(Mapping(0)))}
MCRenderable == MCIdentifiers \ {catch}

----------------------------------------------------------------------------
(* Contracts whose accesses may be labelled *)

Positions == {<<b1, 1>>, <<b1, 2>>, <<b2, 1>>, <<b3, 1>>}
Access(at, loc) == [at |-> at, loc |-> loc, write |-> at = <<b2, 1>>]

Distributions == {
    [blocks |-> (f :> <<b1>>) @@ (g :> <<b2>>), unassigned |-> {b3}],
    [blocks |-> (f :> <<b1>>) @@ (g :> <<b1, b2>>), unassigned |-> {b3}]}

Pairs == {<<Access(p, k), Access(q, l)>> :
            p \in Positions, q \in Positions, k \in {Fixed(0), Unknown}, l \in {Fixed(0), Mapping(0), Unknown}}
Triples == {<<Access(p, Fixed(0)), Access(q, Fixed(0)), Access(r, k)>> :
            p \in Positions, q \in Positions, r \in Positions, k \in {Fixed(0), Mapping(0)}}
Apart(s) == \A n, m \in DOMAIN s : s[n].at = s[m].at => n = m

Labelling == {
    [contract |-> [order |-> <<f, g>>, blocks |-> d.blocks, unassigned |-> d.unassigned,
                   size |-> ((b1 :> 2) @@ (b2 :> 1) @@ (b3 :> 1)),
                   selector |-> ((f :> selector) @@ (g :> other)), accesses |-> s,
                   unresolved |-> {<<b1, 1>>, <<b3, 1>>}],
     request |-> [selector |-> None, max |-> MaxStatements]] :
        d \in Distributions, s \in {t \in Pairs \cup Triples : Apart(t)}}

----------------------------------------------------------------------------
(* Functions whose context is limited *)

Reads(n) == [k \in 1..n |-> [at |-> <<b1, k>>, loc |-> Fixed(k), write |-> FALSE]]
Lists == {<<b1>>, <<b1, b2>>, <<b1, b2, b3>>, <<b2, b1, b3>>}
Sizes == {s \in [{b1, b2, b3} -> 0..3] : s[b3] # 1} \cup {((b1 :> 6) @@ (b2 :> 0) @@ (b3 :> 1))}

Shown(order, blocks, size, reads) ==
    [order |-> order, size |-> size, unassigned |-> {b2} \ {blocks[n] : n \in DOMAIN blocks},
     blocks |-> [h \in {f, g} |-> IF h = f THEN blocks ELSE <<b3>>],
     selector |-> ((f :> selector) @@ (g :> selector)), accesses |-> Reads(reads),
     unresolved |-> {}]

Limiting == {[contract |-> Shown(<<f, g>>, l, s, Smaller(s[b1], 1)),
              request |-> [selector |-> k, max |-> m]] :
                l \in Lists, s \in Sizes, k \in {selector, other}, m \in {0, 1, 2, 4, 7}}
    \cup {[contract |-> Shown(<<g, f>>, <<b1, b2>>, ((b1 :> 6) @@ (b2 :> 0) @@ (b3 :> 1)), n),
           request |-> [selector |-> selector, max |-> 7]] : n \in 4..6}
    \cup {[contract |-> Shown(<<f, g>>, l, ((b1 :> 6) @@ (b2 :> 0) @@ (b3 :> 1)), n),
           request |-> [selector |-> selector, max |-> 7]] : l \in {<<b1>>, <<b1, b2>>}, n \in 4..6}

MCSessions == Labelling \cup Limiting

----------------------------------------------------------------------------
(* Proposals *)

Nothing == [made |-> TRUE, bound |-> TRUE, fn |-> None, selector |-> None,
            claim |-> FALSE, refs |-> {}, labels |-> NoEntries,
            contractClaim |-> FALSE, contractRefs |-> {}, contractLabels |-> NoEntries]

StorageKeys(c) == {AccessId(a) : a \in DOMAIN c.accesses}
    \cup {EntryId(c.accesses[a].loc) : a \in {a \in DOMAIN c.accesses : c.accesses[a].loc.kind # Symbolic}}
AnyId(c) == StorageKeys(c) \cup {FunctionId(h) : h \in FunctionsOf(c)}
    \cup {BlockId(b) : b \in DOMAIN c.size}
    \cup UNION {{StatementId(s), FactId(s)} : s \in UNION {StatementsOf(c, b) : b \in DOMAIN c.size}}
    \cup {AccessId(0)}

Citations(c) == {[Nothing EXCEPT !.fn = h, !.selector = k, !.claim = TRUE, !.refs = r] :
        h \in {f, other}, k \in {None, selector, other},
        r \in {{}} \cup {{x} : x \in AnyId(c)}}
    \cup {[Nothing EXCEPT !.contractClaim = TRUE, !.contractRefs = r] :
        r \in {{}} \cup {{x} : x \in AnyId(c)}}
    \cup {[Nothing EXCEPT !.bound = FALSE]}

OneLabel(c, names) == {(k :> x) : k \in StorageKeys(c), x \in names}
TwoLabels(c) == {((k :> n1) @@ (l :> x)) : k \in StorageKeys(c), l \in StorageKeys(c), x \in {n1, n2}}

Labels(c) == {[Nothing EXCEPT !.fn = f, !.refs = {FunctionId(f)}, !.labels = l] :
        l \in OneLabel(c, {n1, bad}) \cup TwoLabels(c)}
    \cup {[Nothing EXCEPT !.contractRefs = {FunctionId(f)}, !.contractLabels = l] :
        l \in OneLabel(c, {n1, catch, bad, Default(EntryId(Mapping(0)))}) \cup TwoLabels(c)}
    \cup {[Nothing EXCEPT !.fn = f, !.refs = {FunctionId(f)}, !.labels = k,
                          !.contractRefs = {FunctionId(f)}, !.contractLabels = l] :
        k \in OneLabel(c, {n1}), l \in OneLabel(c, {n1, n2})}

MCProposalsFor(c) == IF c.selector[g] = selector THEN {Nothing} ELSE Citations(c) \cup Labels(c)
=============================================================================
