----------------------------- MODULE Traversal -----------------------------
(***************************************************************************)
(* The graph walks of the read surfaces: the MCP tools find_path,          *)
(* get_neighbors and impact_of (internal/mcp/traverse.go, impact.go,       *)
(* tools.go), and the canonical view of same_as beliefs that MCP and       *)
(* GraphQL share (internal/canonical/canonical.go, internal/mcp/           *)
(* canonical.go, internal/graphql/resolvers/canonical.go).                 *)
(*                                                                         *)
(* A graph is chosen, a reader asks one question, and the walk that        *)
(* answers it is taken one frontier entity at a time, in the order of the  *)
(* code: edges by relation id, the frontier first come first served.  The  *)
(* properties compare the answer with a definition by paths.               *)
(***************************************************************************)
EXTENDS Integers, FiniteSets, FiniteSetsExt, Sequences, SequencesExt, TLC

CONSTANTS
    Things,         \* entity ids
    TypeOf,         \* the entity type of each
    Edges,          \* the relations a graph may hold
    Perishable,     \* the entities that may be deleted or unknown
    Asked,          \* the max_depth values a reader asks for
    Threshold       \* identity_confidence_threshold

VARIABLES
    held,           \* each thing: live, deleted (a tombstone), or absent
    rels,           \* the relations of the graph
    question,       \* what the reader asked
    walk,           \* the walk in progress
    answer          \* what the reader was told

traversalVars == <<held, rels, question, walk, answer>>

nothing == [kind |-> "none"]

(***************************************************************************)
(* The vocabulary                                                          *)
(***************************************************************************)
ImpactFlowOf(type) ==
    CASE type \in {"runs_on", "bound_to", "depends_on"} -> "ToFrom"
      [] type = "has_interface" -> "FromTo"
      [] type \in {"same_as", "aggregated_into", "neighbor_of"} -> "None"
      [] OTHER -> "Both"

IsTerminalEntityType(type) == type = "network.endpoint"

CrossingNeedsADifferentRelation(type) ==
    type \in {"network.neighbor", "network.interface"}

(* A confidence is a number of tenths; an attribute that is absent or not  *)
(* a number is a number outside the range, and as unusable.                *)
readable(r) == r.confidence \in 0 .. 10

believed(r) == readable(r) /\ r.confidence >= Threshold

(***************************************************************************)
(* Reading the graph                                                       *)
(***************************************************************************)
RelationsTouching(x, type) ==
    SetToSortSeq({r \in rels : x \in {r.from, r.to} /\ type \in {"", r.type}},
                 LAMBDA r, s : r.id < s.id)

edgesOf(x, type) ==
    LET incoming(r) == r.to = x /\ r.from # x
        edge(r) == [rel |-> r,
                    other |-> IF incoming(r) THEN r.from ELSE r.to,
                    outgoing |-> ~incoming(r)]
        all == [i \in DOMAIN RelationsTouching(x, type) |->
                    edge(RelationsTouching(x, type)[i])]
    IN SelectSeq(all, LAMBDA e : held[e.other] = "live")

(***************************************************************************)
(* find_path                                                               *)
(***************************************************************************)
pathEdgeThrough(w, cur, e) ==
    LET weak == e.rel.type = "same_as" /\ ~believed(e.rel)
    IN IF w.found \/ weak \/ e.other \in DOMAIN w.parents THEN w
       ELSE [w EXCEPT !.parents = @ @@ (e.other :> [prev |-> cur, via |-> e]),
                      !.found = e.other = w.goal,
                      !.next = IF e.other = w.goal THEN @ ELSE Append(@, e.other)]

(* What the search does with one edge of the entity it stands on.          *)
pathEdge(w, cur, e) ==
    LET type == TypeOf[cur]
        inside == cur # w.start
        refused == \/ inside /\ IsTerminalEntityType(type) /\ ~e.outgoing
                   \/ inside /\ CrossingNeedsADifferentRelation(type)
                             /\ e.rel.type = w.parents[cur].via.rel.type
        weak == e.rel.type = "same_as" /\ ~believed(e.rel)
    IN CASE w.found -> w
         [] ~w.found /\ refused -> [w EXCEPT !.terminals = @ \cup {cur}]
         [] ~w.found /\ ~refused /\ (weak \/ e.other \in DOMAIN w.parents) -> w
         [] OTHER ->
              [w EXCEPT !.parents = @ @@ (e.other :> [prev |-> cur, via |-> e]),
                        !.found = e.other = w.goal,
                        !.next = IF e.other = w.goal THEN @ ELSE Append(@, e.other)]

pathWalk(start, goal, type, depth) ==
    [kind |-> "path", start |-> start, goal |-> goal, type |-> type,
     depth |-> depth, parents |-> start :> nothing, terminals |-> {},
     found |-> start = goal, frontier |-> <<start>>, next |-> <<>>, d |-> 0]

(* The hops from the goal back to the start, in reading order.             *)
hops(w) ==
    LET back[x \in DOMAIN w.parents] ==
            IF x = w.start THEN <<>>
            ELSE Append(back[w.parents[x].prev],
                        [from |-> w.parents[x].prev, rel |-> w.parents[x].via.rel,
                         to |-> x])
    IN back[w.goal]

(***************************************************************************)
(* impact_of and get_neighbors: one plain breadth-first walk, the first    *)
(* over the edges a failure crosses, from the whole canonical group        *)
(***************************************************************************)
impactPropagates(e, failed) ==
    CASE ImpactFlowOf(e.rel.type) = "ToFrom" -> e.rel.to = failed
      [] ImpactFlowOf(e.rel.type) = "FromTo" -> e.rel.from = failed
      [] ImpactFlowOf(e.rel.type) = "None" -> FALSE
      [] OTHER -> TRUE

spreadEdge(w, cur, e) ==
    IF \/ w.kind = "impact" /\ ~impactPropagates(e, cur)
       \/ e.other \in DOMAIN w.reached
    THEN w
    ELSE [w EXCEPT !.reached = @ @@ (e.other :> w.d + 1),
                   !.next = Append(@, e.other)]

spreadWalk(kind, origins, type, depth) ==
    [kind |-> kind, type |-> type, depth |-> depth, found |-> FALSE,
     reached |-> [x \in Range(origins) |-> 0], frontier |-> origins,
     next |-> <<>>, d |-> 0]

(***************************************************************************)
(* The canonical view                                                      *)
(***************************************************************************)
(* One believed edge of the entity taken from the queue: it is a link of   *)
(* the group whether or not its far end was already a member.              *)
beliefEdge(w, cur, r) ==
    LET other == IF r.to = cur THEN r.from ELSE r.to
    IN IF ~believed(r) THEN w
       ELSE [w EXCEPT !.links = @ \cup {r},
                      !.members = IF other \in Range(@) THEN @ ELSE Append(@, other),
                      !.frontier = IF other \in Range(w.members) THEN @
                                   ELSE Append(@, other)]

Walk(root) ==
    [kind |-> "canonical", root |-> root, members |-> <<root>>, links |-> {},
     frontier |-> <<root>>, next |-> <<>>, depth |-> 0, d |-> 0, found |-> FALSE]

(* The beliefs on the root that the overlay cannot read.                   *)
inertBeliefs(root) ==
    {r \in rels : r.type = "same_as" /\ root \in {r.from, r.to} /\ ~readable(r)}

aliasesOf(w) ==
    [x \in Range(w.members) \ {w.root} |->
        CASE held[x] = "live" -> "live"
          [] held[x] = "deleted" -> "deleted"
          [] OTHER -> "unresolvable"]

(* mcp: a block with only inert beliefs is still an answer.                *)
canonicalGroup(w) ==
    LET inert == inertBeliefs(w.root)
    IN CASE Len(w.members) > 1 ->
                [kind |-> "group", aliases |-> aliasesOf(w), links |-> w.links,
                 inert |-> inert]
         [] Len(w.members) <= 1 /\ inert # {} ->
                [kind |-> "group", aliases |-> <<>>, links |-> {}, inert |-> inert]
         [] OTHER -> nothing

(* graphql: null when the entity stands alone.                             *)
Canonical(w) ==
    IF Len(w.members) <= 1 THEN nothing
    ELSE [kind |-> "group", aliases |-> aliasesOf(w), links |-> w.links]

(***************************************************************************)
(* The steps                                                               *)
(***************************************************************************)
TraversalInit ==
    /\ held \in {h \in [Things -> {"live", "deleted", "absent"}] :
                    \A x \in Things \ Perishable : h[x] = "live"}
    /\ rels \in SUBSET Edges
    /\ question = nothing
    /\ walk = nothing
    /\ answer = nothing

Ask(q, w) ==
    /\ question = nothing
    /\ question' = q
    /\ walk' = w
    /\ UNCHANGED <<held, rels, answer>>

(* Both ends must be live; the error answer is one the reader is given.    *)
findPath(from, to, depth) ==
    /\ \A x \in {from, to} : held[x] = "live"
    /\ Ask([kind |-> "path", from |-> from, to |-> to, depth |-> depth],
           pathWalk(from, to, "", depth))

(* get_neighbors answers for a tombstone too.                              *)
getNeighbors(x, type, depth) ==
    /\ held[x] # "absent"
    /\ Ask([kind |-> "neighbors", of |-> x, type |-> type, depth |-> depth],
           spreadWalk("neighbors", <<x>>, type, depth))

(* The group is walked first, and its members seed the propagation.        *)
impactOf(x, depth) ==
    /\ held[x] = "live"
    /\ Ask([kind |-> "impact", of |-> x, depth |-> depth], Walk(x))

getEntityCanonical(x) ==
    /\ held[x] # "absent"
    /\ Ask([kind |-> "canonical", of |-> x], Walk(x))

(* One frontier entity, all of its edges.                                  *)
Expand ==
    /\ walk # nothing /\ ~walk.found /\ walk.frontier # <<>>
    /\ LET cur == Head(walk.frontier)
           w == [walk EXCEPT !.frontier = Tail(@)]
       IN walk' = CASE walk.kind = "path" ->
                           FoldLeft(LAMBDA acc, e : pathEdge(acc, cur, e), w,
                                    edgesOf(cur, w.type))
                    [] walk.kind = "canonical" ->
                           FoldLeft(LAMBDA acc, r : beliefEdge(acc, cur, r), w,
                                    RelationsTouching(cur, "same_as"))
                    [] OTHER ->
                           FoldLeft(LAMBDA acc, e : spreadEdge(acc, cur, e), w,
                                    edgesOf(cur, w.type))
    /\ UNCHANGED <<held, rels, question, answer>>

deeper == walk.next # <<>> /\ walk.d + 1 < walk.depth

NextLayer ==
    /\ walk # nothing /\ ~walk.found /\ walk.frontier = <<>> /\ deeper
    /\ walk' = [walk EXCEPT !.frontier = walk.next, !.next = <<>>, !.d = @ + 1]
    /\ UNCHANGED <<held, rels, question, answer>>

finished == walk # nothing /\ (walk.found \/ (walk.frontier = <<>> /\ ~deeper))

(* The origins of a propagation: the whole canonical group of the root.    *)
origins(w) == w.members

Propagate ==
    /\ finished /\ question.kind = "impact" /\ walk.kind = "canonical"
    /\ walk' = spreadWalk("impact", origins(walk), "", question.depth)
    /\ UNCHANGED <<held, rels, question, answer>>

(* A search that ended on a refusal looks back from the goal: what was     *)
(* refused from both sides is a convergence.                               *)
LookBack ==
    /\ finished /\ question.kind = "path" /\ walk.start = question.from
    /\ ~walk.found /\ walk.terminals # {} /\ answer = nothing
    /\ answer' = [kind |-> "refused", terminals |-> walk.terminals]
    /\ walk' = pathWalk(question.to, question.from, "", question.depth)
    /\ UNCHANGED <<held, rels, question>>

Answered(a) ==
    /\ answer' = a
    /\ walk' = nothing
    /\ UNCHANGED <<held, rels, question>>

AnswerPath ==
    /\ finished /\ question.kind = "path"
    /\ \/ /\ answer = nothing /\ walk.found
          /\ Answered([kind |-> "path", reachable |-> TRUE, path |-> hops(walk),
                       convergences |-> {}])
       \/ /\ answer = nothing /\ ~walk.found /\ walk.terminals = {}
          /\ Answered([kind |-> "path", reachable |-> FALSE, path |-> <<>>,
                       convergences |-> {}])
       \/ /\ answer.kind = "refused"
          /\ Answered([kind |-> "path", reachable |-> FALSE, path |-> <<>>,
                       convergences |->
                           {x \in answer.terminals \cap walk.terminals :
                               held[x] = "live"}])

AnswerSpread ==
    /\ finished /\ walk.kind \in {"neighbors", "impact"}
    /\ Answered([kind |-> walk.kind,
                 distance |-> [x \in {y \in DOMAIN walk.reached : walk.reached[y] > 0}
                                  |-> walk.reached[x]]])

AnswerCanonical ==
    /\ finished /\ question.kind = "canonical"
    /\ Answered([kind |-> "canonical", mcp |-> canonicalGroup(walk),
                 graphql |-> Canonical(walk)])

TraversalNext ==
    \/ \E x, y \in Things, n \in Asked : findPath(x, y, n)
    \/ \E x \in Things, type \in {"", "has_interface"}, n \in Asked :
          getNeighbors(x, type, n)
    \/ \E x \in Things, n \in Asked : impactOf(x, n)
    \/ \E x \in Things : getEntityCanonical(x)
    \/ Expand \/ NextLayer \/ Propagate \/ LookBack
    \/ AnswerPath \/ AnswerSpread \/ AnswerCanonical

TraversalSpec == TraversalInit /\ [][TraversalNext]_traversalVars

-----------------------------------------------------------------------------
(***************************************************************************)
(* What the answers mean, without a search                                 *)
(***************************************************************************)
steps ==
    LET along(r) == [from |-> r.from, rel |-> r, to |-> r.to]
        against(r) == [from |-> r.to, rel |-> r, to |-> r.from]
    IN {s \in {along(r) : r \in rels} \cup {against(r) : r \in rels} :
           s.from # s.to /\ held[s.to] = "live"}

usable(s) == s.rel.type = "same_as" => believed(s.rel)

mayFollow(s, t) ==
    /\ s.to = t.from
    /\ IsTerminalEntityType(TypeOf[t.from]) => t.rel.from = t.from
    /\ CrossingNeedsADifferentRelation(TypeOf[t.from]) => t.rel.type # s.rel.type

paths(from, to, n) ==
    LET open == {s \in steps : usable(s)}
        extends(p, s) == /\ mayFollow(p[Len(p)], s)
                         /\ \A i \in DOMAIN p : s.to # p[i].from
        legal[k \in 1 .. n] ==
            IF k = 1 THEN {<<s>> : s \in {u \in open : u.from = from}}
            ELSE UNION {{Append(p, s) : s \in {u \in open : extends(p, u)}} :
                            p \in legal[k - 1]}
    IN IF from = to THEN {<<>>}
       ELSE {p \in UNION {legal[k] : k \in 1 .. n} : p[Len(p)].to = to}

crosses(p) ==
    \E i \in 1 .. Len(p) - 1 : CrossingNeedsADifferentRelation(TypeOf[p[i].to])

related(x, S) ==
    {y \in Things : \E r \in S : {x, y} = {r.from, r.to} \/ x = y}

groupOf(x) ==
    LET S == {r \in rels : r.type = "same_as" /\ believed(r)}
        within[n \in 0 .. Cardinality(Things)] ==
            IF n = 0 THEN {x}
            ELSE UNION {related(y, S) : y \in within[n - 1]} \cup within[n - 1]
    IN within[Cardinality(Things)]

(* The entities at each distance of a set over a relation on entities.     *)
within(S, crossed(_), n) ==
    LET open == {s \in steps : crossed(s)}
        ball[k \in 0 .. n] ==
            IF k = 0 THEN S
            ELSE ball[k - 1] \cup {s.to : s \in {t \in open : t.from \in ball[k - 1]}}
    IN [x \in ball[n] \ S |-> Min({k \in 0 .. n : x \in ball[k]})]

fails(s) ==
    CASE s.rel.type \in {"runs_on", "bound_to", "depends_on"} -> s.rel.to = s.from
      [] s.rel.type = "has_interface" -> s.rel.from = s.from
      [] s.rel.type \in {"same_as", "aggregated_into", "neighbor_of"} -> FALSE
      [] OTHER -> TRUE

(***************************************************************************)
(* Properties                                                              *)
(***************************************************************************)
TraversalTypeOK ==
    /\ held \in [Things -> {"live", "deleted", "absent"}]
    /\ rels \subseteq Edges
    /\ question.kind \in {"none", "path", "neighbors", "impact", "canonical"}
    /\ walk.kind \in {"none", "path", "neighbors", "impact", "canonical"}

(* find_path: a path it shows is a legal one (no endpoint walked through,  *)
(* no interface left by the relation it was entered by, no weak alias),    *)
(* and one that is shorter, or any at all when it answers reachable=false, *)
(* exists only through an interface or a neighbor.                         *)
PathAnswersHold ==
    answer.kind = "path" =>
        LET ps == paths(question.from, question.to, question.depth)
        IN /\ answer.reachable => answer.path \in ps
           /\ \A p \in ps :
                 ~answer.reachable \/ Len(p) < Len(answer.path) => crosses(p)

(* "false is a real answer: no path within max_depth": reachable=false is  *)
(* only answered when no legal path of that many hops exists.              *)
UnreachableIsReal ==
    (answer.kind = "path" /\ ~answer.reachable) =>
        paths(question.from, question.to, question.depth) = {}

(* impact_of and get_neighbors: every entity the failure (or the           *)
(* neighborhood) reaches within max_depth is listed once, at its true      *)
(* distance, and any facet of a machine gives the same blast radius.       *)
DistancesExact ==
    /\ answer.kind = "impact" =>
          answer.distance = within(groupOf(question.of), fails, question.depth)
    /\ answer.kind = "neighbors" =>
          answer.distance =
              within({question.of},
                     LAMBDA s : question.type \in {"", s.rel.type}, question.depth)

(* The canonical view: the group, the state of each member and the links   *)
(* that justify it are the same whichever member is asked for and          *)
(* whichever surface is asked, and a belief that could not be read is      *)
(* never mistaken for the absence of one.                                  *)
CanonicalIsOneAnswer ==
    answer.kind = "canonical" =>
        LET group == groupOf(question.of)
            known(a) == {question.of} \cup DOMAIN a.aliases
        IN /\ Cardinality(group) > 1 =>
                 \A a \in {answer.mcp, answer.graphql} :
                    /\ a # nothing /\ known(a) = group
                    /\ \A x \in DOMAIN a.aliases :
                          (a.aliases[x] = "live") <=> (held[x] = "live")
                    /\ a.links = {r \in rels : /\ r.type = "same_as" /\ believed(r)
                                               /\ {r.from, r.to} \subseteq group}
           /\ group = {question.of} => answer.graphql = nothing
           /\ (answer.mcp = nothing) <=>
                 /\ group = {question.of}
                 /\ \A r \in rels : (r.type = "same_as" /\ question.of \in {r.from, r.to})
                                        => readable(r)

(* What the three walks answer holds of the graph: a path exists and is          *)
(* shortest, distances are exact, and the canonical group is one answer          *)
(* whoever asks (FindPath, ImpactOf, Neighbors, the canonical view).             *)
TraversalsTrue ==
    PathAnswersHold /\ DistancesExact /\ CanonicalIsOneAnswer
=============================================================================
