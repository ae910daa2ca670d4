--------------------------- MODULE ContractionTests ---------------------------
(***************************************************************************)
(* Which vertices of a graph may be merged without losing a cut: the       *)
(* CAPFOREST scan (algorithms/global_mincut/noi_minimum_cut.h), the tests  *)
(* of Padberg and Rinaldi (coarsening/contraction_tests.h) and their       *)
(* variants for all minimum cuts                                           *)
(* (algorithms/global_mincut/cactus/all_cut_local_red.h).  Each returns a  *)
(* union-find structure (data_structure/union_find.h), here the function   *)
(* from a vertex to the smallest vertex of its set.                        *)
(***************************************************************************)
EXTENDS AdjacencyArrays

Singletons(n) == Sequence(n, LAMBDA v : v)

\* Union; the code's root is another member of the set.
Union(uf, a, b) ==
    Sequence(Len(uf), LAMBDA v : IF uf[v] \in {uf[a], uf[b]} THEN Min({uf[a], uf[b]}) ELSE uf[v])

NumSets(uf) == Cardinality(Range(uf))

-----------------------------------------------------------------------------
\* CAPFOREST

\* Mutant: only an edge that goes beyond the limit merges.
Reach_Beyond(G, limit, st, v, e) ==
    IF e.to \in st.visited THEN st
    ELSE [st EXCEPT !.uf = IF st.r[e.to] + e.w > limit THEN Union(@, v, e.to) ELSE @,
                    !.r[e.to] = @ + e.w,
                    !.q = Append(SelectSeq(@, LAMBDA t : t # e.to), e.to)]

\* An edge of v to a vertex that was not scanned: the edge that connects it to
\* the scanned ones by the limit merges it with v.
Reach(G, limit, st, v, e) ==
    LET increase == st.r[e.to] < limit \/ limit = 0
        queued == \E k \in DOMAIN st.q : st.q[k] = e.to
    IN  IF e.to \in st.visited THEN st
        ELSE [st EXCEPT
                !.uf = IF increase /\ st.r[e.to] + e.w >= limit THEN Union(@, v, e.to) ELSE @,
                !.r[e.to] = @ + e.w,
                !.q = IF queued /\ ~increase THEN @
                      ELSE Append(SelectSeq(@, LAMBDA t : t # e.to), e.to)]

\* The vertex with the largest key, which is capped by the limit; the first one
\* that came to its bucket.
DeleteMax(st, limit) ==
    LET key(k) == Min({st.r[st.q[k]], limit})
    IN  CHOOSE k \in DOMAIN st.q :
            \A j \in DOMAIN st.q : key(j) < key(k) \/ (key(j) = key(k) /\ j >= k)

RECURSIVE Scan(_, _, _)
Scan(G, limit, st) ==
    IF st.q = <<>> THEN st.uf
    ELSE LET k == DeleteMax(st, limit)
             v == st.q[k]
             popped == [st EXCEPT !.q = RemoveAt(@, k), !.visited = @ \cup {v}]
         IN  Scan(G, limit,
                  FoldLeft(LAMBDA s, e : Reach(G, limit, s, v, e), popped, G.vs[v]))

\* modified_capforest from one of the vertices
Capforest(G, limit, start) ==
    LET n == Len(G.vs)
    IN  Scan(G, limit, [uf |-> Singletons(n), q |-> <<start>>, visited |-> {},
                        r |-> Sequence(n, LAMBDA v : 0)])

-----------------------------------------------------------------------------
\* The tests of Padberg and Rinaldi

\* All edges, those of the first vertex first.
Arcs(G) ==
    FlattenSeq([v \in DOMAIN G.vs |-> [i \in DOMAIN G.vs[v] |-> [n |-> v, to |-> G.vs[v][i].to,
                                                               w |-> G.vs[v][i].w]]])

\* An edge as heavy as the limit, or heavier than half the degree of an end; if
\* all cuts are wanted, only of ends with a larger degree than mincut.
PrTests12(G, limit, all) ==
    LET join(st, a) == [uf |-> Union(st.uf, a.n, a.to), done |-> st.done \cup {a.n, a.to}]
        half(st, a, v) == 2 * a.w > G.deg[v] /\ (~all \/ v \notin st.done)
        test(st0, a) ==
            LET st1 == IF a.w >= limit THEN join(st0, a) ELSE st0
                st2 == IF half(st1, a, a.n) THEN join(st1, a) ELSE st1
                st3 == IF half(st2, a, a.to) THEN join(st2, a) ELSE st2
            IN  IF ~all \/ (G.deg[a.n] >= limit /\ G.deg[a.to] >= limit) THEN st3 ELSE st1
    IN  FoldLeft(test, [uf |-> Singletons(Len(G.vs)), done |-> {}], Arcs(G)).uf

\* Edge i of vertex n with the triangles over it, of which the third vertex is
\* behind in the edges of n: they are marked, and unmarked one by one.
Triangles(G, n, i) ==
    LET t == G.vs[n][i].to
        marked == {k \in i .. Len(G.vs[n]) : G.vs[n][k].to > n}
        third(f) == {k \in marked : G.vs[n][k].to = f.to}
        over == SelectSeq(G.vs[t], LAMBDA f : third(f) # {})
    IN  [j \in DOMAIN over |-> [w2 |-> over[j].w,
                                w3 |-> G.vs[n][CHOOSE k \in third(over[j]) : TRUE].w]]

PrTests34(G, limit, all) ==
    LET contractible(n, t, w1, tri) ==
            IF all THEN /\ 2 * (w1 + tri.w3) > G.deg[n] /\ 2 * (w1 + tri.w2) > G.deg[t]
                        /\ G.deg[n] >= limit /\ G.deg[t] >= limit
            ELSE 2 * (w1 + tri.w3) >= G.deg[n] /\ 2 * (w1 + tri.w2) >= G.deg[t]
        edge(st, n, i) ==
            LET e == G.vs[n][i]
                tris == Triangles(G, n, i)
                sum == FoldLeft(LAMBDA a, x : a + Min({x.w2, x.w3}), e.w, tris)
                free == {n, e.to} \cap st.contracted = {}
                tight == \E j \in DOMAIN tris : contractible(n, e.to, e.w, tris[j])
            IN  IF e.to \in st.finished THEN st
                ELSE IF e.to > n /\ ((tight /\ free) \/ sum >= limit)
                THEN [uf |-> Union(st.uf, n, e.to), finished |-> st.finished \cup {e.to},
                      contracted |-> st.contracted \cup {n, e.to}]
                ELSE [st EXCEPT !.finished = @ \cup {e.to}]
        vertex(st, n) ==
            IF n \in st.finished THEN st
            ELSE FoldLeftDomain(LAMBDA s, i : edge(s, n, i),
                                [st EXCEPT !.finished = @ \cup {n}], G.vs[n])
    IN  FoldLeftDomain(vertex, [uf |-> Singletons(Len(G.vs)), finished |-> {},
                                contracted |-> {}], G.vs).uf

\* The degrees of merged vertices are followed, as if no other edge joined them.
AllCutsPrTests12(G, limit) ==
    LET test(st, a) ==
            LET s == st.uf[a.n]
                t == st.uf[a.to]
                heavy == a.w > limit \/ 2 * a.w > st.deg[s] \/ 2 * a.w > st.deg[t]
            IN  IF s # t /\ heavy /\ st.deg[s] > limit /\ st.deg[t] > limit
                THEN [uf |-> Union(st.uf, s, t),
                      deg |-> [st.deg EXCEPT ![Min({s, t})] =
                                   st.deg[s] + st.deg[t] - 2 * a.w]]
                ELSE st
    IN  FoldLeft(test, [uf |-> Singletons(Len(G.vs)), deg |-> G.deg], Arcs(G)).uf

AllCutsPrTests34(G, limit) == PrTests34(G, limit + 1, TRUE)
=============================================================================
