---------------------------- MODULE Boundaries ----------------------------
(* The postal-code boundaries of the generator: relations of the inputs,     *)
(* their ways joined end to end into rings, and the rings nested.  An input  *)
(* is a sequence of relations [tags, members], of ways [id, nodes] and a     *)
(* function from its nodes to their points; tags say whether the relation is *)
(* a postal boundary, and give the code of either tag, NoCode for a blank    *)
(* one.                                                                      *)
EXTENDS Polygons

CONSTANT NoCode

-----------------------------------------------------------------------------
(* assembleRings.                                                            *)

\* The first chain that continues from a node, 0 for none.
FirstFrom(remaining, tail) ==
  LET ending == {i \in DOMAIN remaining : remaining[i][1] = tail \/ Last(remaining[i]) = tail}
  IN  IF ending = {} THEN 0 ELSE Min(ending)

\* Fault: a chain that ends at the node is appended as it runs.
Continuation_AsIs(chain, tail) == Tail(chain)

\* A chain that starts at the node first, and one that ends there turned round.
Continuation(chain, tail) == IF chain[1] = tail THEN Tail(chain) ELSE Tail(Reverse(chain))

\* current, empty between two rings, is grown until it closes; a chain that
\* cannot close is dropped with every chain it has taken.
Assembled(rings, current, remaining) == [rings |-> rings, current |-> current, remaining |-> remaining]

Assemble(s) ==
  LET closed == s.current[1] = Last(s.current)
      next == FirstFrom(s.remaining, Last(s.current))
  IN  CASE s.current = <<>> /\ s.remaining = <<>> -> s
        [] s.current = <<>> /\ s.remaining # <<>> -> Assembled(s.rings, Head(s.remaining), Tail(s.remaining))
        [] s.current # <<>> /\ closed ->
             Assembled(IF Len(s.current) >= 4 THEN Append(s.rings, s.current) ELSE s.rings, <<>>, s.remaining)
        [] s.current # <<>> /\ ~closed /\ next = 0 -> Assembled(s.rings, <<>>, s.remaining)
        [] OTHER -> Assembled(s.rings, s.current \o Continuation(s.remaining[next], Last(s.current)),
                              RemoveAt(s.remaining, next))

Usable(chains) == Kept(chains, {chain \in ToSet(chains) : Len(chain) >= 2})

\* Every chain is taken once, and ends at most one ring.
assembleRings(chains) ==
  LET steps == 2 * Len(Usable(chains))
      after[t \in 0..steps] == IF t = 0 THEN Assembled(<<>>, <<>>, Usable(chains)) ELSE Assemble(after[t - 1])
  IN  after[steps].rings

-----------------------------------------------------------------------------
(* collectPostalFeatures.                                                    *)

postalCode(tags) == IF tags.postal_code # NoCode THEN tags.postal_code ELSE tags.ref

IsPostal(relation) == relation.tags.boundary /\ postalCode(relation.tags) # NoCode

collectPostalRelations(inputs) ==
  FlattenSeq([i \in DOMAIN inputs |-> SelectSeq(inputs[i].relations, IsPostal)])

WayMembers(relation) == SelectSeq(relation.members, LAMBDA member : member.type = "way")

\* Fault: the first of two ways with an identifier is kept.
collectWaysByID_First(inputs, wanted) ==
  LET ways == FlattenSeq([i \in DOMAIN inputs |-> inputs[i].ways])
      Of(id) == {w \in DOMAIN ways : ways[w].id = id}
  IN  [id \in {id \in wanted : Of(id) # {}} |-> ways[Min(Of(id))].nodes]

\* The last way of an identifier, over the inputs in their order.
collectWaysByID(inputs, wanted) ==
  LET ways == FlattenSeq([i \in DOMAIN inputs |-> inputs[i].ways])
      Of(id) == {w \in DOMAIN ways : ways[w].id = id}
  IN  [id \in {id \in wanted : Of(id) # {}} |-> ways[Max(Of(id))].nodes]

\* The points of the nodes that have one.
wayLine(coords, ids) ==
  LET known == SelectSeq(ids, LAMBDA id : id \in DOMAIN coords)
  IN  [k \in DOMAIN known |-> coords[known[k]]]

\* Members without a role are outer ones.
assemblePostalMultiPolygon(relation, ways, coords) ==
  LET present == SelectSeq(WayMembers(relation), LAMBDA member : member.ref \in DOMAIN ways)
      Chains(inner) ==
        LET members == SelectSeq(present, LAMBDA member : (member.role = "inner") = inner)
        IN  [m \in DOMAIN members |-> ways[members[m].ref]]
      Rings(inner) ==
        LET assembled == assembleRings(Chains(inner))
            lines == [r \in DOMAIN assembled |-> wayLine(coords, assembled[r])]
            kept == SelectSeq(lines, LAMBDA line : Len(line) >= 4)
        IN  [r \in DOMAIN kept |-> OrientRing(kept[r], inner)]
  IN  IF Rings(FALSE) = <<>> THEN <<>> ELSE NestHoles(Rings(FALSE), Rings(TRUE))

collectPostalFeatures(inputs) ==
  LET relations == collectPostalRelations(inputs)
      wantWays == UNION {{WayMembers(relations[r])[m].ref : m \in DOMAIN WayMembers(relations[r])} :
                           r \in DOMAIN relations}
      ways == collectWaysByID(inputs, wantWays)
      wantNodes == UNION {ToSet(ways[id]) : id \in DOMAIN ways}
      Holding(node) == {i \in DOMAIN inputs : node \in DOMAIN inputs[i].nodes}
      coords == [node \in {n \in wantNodes : Holding(n) # {}} |-> inputs[Max(Holding(node))].nodes[node]]
      features == [r \in DOMAIN relations |->
                     [code |-> postalCode(relations[r].tags),
                      geometry |-> assemblePostalMultiPolygon(relations[r], ways, coords)]]
  IN  SelectSeq(features, LAMBDA feature : feature.geometry # <<>>)

-----------------------------------------------------------------------------
\* The rings of a boundary as the tile encoder takes them.
toMVTRings(mp) ==
  FlattenSeq([p \in DOMAIN mp |-> [r \in DOMAIN mp[p] |-> [points |-> mp[p][r], hole |-> r > 1]]])
=============================================================================
