---------------------------- MODULE BatchProofs -----------------------------
(***************************************************************************)
(* The composite steps of the engine: relation events, types of the liveness*)
(* references, the delete cascade, the flush of the parked relations a new  *)
(* entity resolves, and parking.  Each keeps Good of OverlayProofs.         *)
(***************************************************************************)
EXTENDS OverlayProofs

PendingBounded == \E n \in Nat : \A p \in pending : p.pos <= n

(* Relation events, whatever they are. *)
LEMMA RelationsGood ==
    ASSUME NEW st, NEW g, NEW m, Good(st, g, m), NEW D \in SUBSET RelationIDs,
           NEW attrs \in [D -> Attributes \cup {None}]
    PROVE  LET a == applyRelations(g, attrs)
           IN  /\ Good(stagedApplyRelations(st, attrs), a, m)
               /\ a.relations = [r \in RelationIDs |->
                                    IF r \in D THEN attrs[r] ELSE g.relations[r]]
               /\ \A x \in EntityIDs : IsLive(a, x) <=> IsLive(g, x)
  <1> DEFINE a == applyRelations(g, attrs)
             s == stagedApplyRelations(st, attrs)
  <1>1. g \in GraphType /\ st \in Staged
    BY DEF Good, Consistent
  <1>2. Consistent(a)
    BY ApplyRelationsConsistent DEF Good
  <1>3. /\ a \in GraphType
        /\ a.entities = g.entities /\ a.deleted = g.deleted
        /\ a.byHash = g.byHash /\ a.tombByHash = g.tombByHash
        /\ a.relations = [r \in RelationIDs |->
                             IF r \in D THEN attrs[r] ELSE g.relations[r]]
        /\ AdjacencyExact(g) => AdjacencyExact(a)
    BY <1>1, ApplyRelationsFields, Zenon
  <1>4. /\ s \in Staged
        /\ s.entities = st.entities
        /\ s.deleted = st.deleted /\ s.byHash = st.byHash
        /\ \A r \in RelationIDs :
               s.relations[r] = IF r \in D THEN attrs[r] ELSE st.relations[r]
        /\ \A r \in RelationIDs :
               r \in s.relRemoved <=> IF r \in D THEN attrs[r] = None
                                      ELSE r \in st.relRemoved
    BY <1>1, StagedRelations, Zenon
  <1> HIDE DEF a, s
  <1>5. Overlay(s, a)
    <2>1. \A k \in Identities : matchIdentity(s, k) = MatchIdentity(a, k)
      BY <1>3, <1>4, SMTT(40) DEF matchIdentity, MatchIdentity, Good, Overlay
    <2>2. \A x \in EntityIDs : IsLive(a, x) => getEntity(s, x) = a.entities[x]
      BY <1>3, <1>4, SMTT(40) DEF getEntity, IsLive, Good, Overlay
    <2>3. ASSUME NEW r \in RelationIDs PROVE getRelation(s, r) = a.relations[r]
      <3>1. CASE r \in D
        BY <1>3, <1>4, <3>1 DEF getRelation
      <3>2. CASE r \notin D
        <4>1. getRelation(s, r) = getRelation(st, r)
          BY <1>4, <3>2 DEF getRelation
        <4> QED BY <1>3, <3>2, <4>1 DEF Good, Overlay
      <3> QED BY <3>1, <3>2
    <2>4. \A r \in s.relRemoved : s.relations[r] = None
      BY <1>4 DEF Good, Overlay, Staged
    <2> QED BY <2>1, <2>2, <2>3, <2>4 DEF Overlay
  <1>6. SameIdentities(a) /\ OnlyMinted(s, a, m)
    BY <1>3, <1>4 DEF SameIdentities, OnlyMinted, Good
  <1>7. Good(s, a, m)
    BY <1>2, <1>4, <1>5, <1>6 DEF Good
  <1>8. \A x \in EntityIDs : IsLive(a, x) <=> IsLive(g, x)
    BY <1>3 DEF IsLive
  <1> QED BY <1>3, <1>7, <1>8 DEF s, a

-----------------------------------------------------------------------------
(* Types of the liveness references and of the buffer. *)

RefsType(S) == [S -> [Speakers -> LiveRef \cup {None}]]

(* A declared interval arms a well-formed reference. *)
LEMMA ArmedRefType ==
    ASSUME now \in Nat, NEW declared \in Nat
    PROVE  armedRef(declared) \in LiveRef
  BY DEF armedRef, promise, zeroRef, LiveRef

(* So does an edge, with or without an interval of its own. *)
LEMMA EdgeRefType ==
    ASSUME now \in Nat, NEW rf \in RefsType(EntityIDs), NEW r \in RelationIDs,
           NEW speaker \in Speakers, NEW declared \in Nat
    PROVE  edgeRef(rf, r, speaker, declared) \in LiveRef
  <1>1. r[1] \in EntityIDs
    BY DEF RelationIDs
  <1>2. inheritedRef(rf, r[1], speaker) \in LiveRef
    BY <1>1 DEF inheritedRef, zeroRef, LiveRef, RefsType
  <1> QED BY <1>2, ArmedRefType DEF edgeRef

(* Dropping lapsed references keeps the type. *)
LEMMA DropLapsedType ==
    ASSUME NEW speakers \in [Speakers -> LiveRef \cup {None}], NEW at
    PROVE  dropLapsed(speakers, at) \in [Speakers -> LiveRef \cup {None}]
  BY DEF dropLapsed

(* A non-empty part of the buffer has a last entry. *)
LEMMA LastOfMember ==
    ASSUME pending \subseteq PendingRelation, PendingBounded,
           NEW S, S \subseteq pending, S # {}
    PROVE  lastOf(S) \in S
  <1> DEFINE P == {p.pos : p \in S}
  <1>1. P \in SUBSET Nat /\ P # {}
    BY DEF PendingRelation
  <1>2. PICK n \in Nat : \A p \in pending : p.pos <= n
    BY DEF PendingBounded
  <1>3. \A k \in P : k <= n
    BY <1>2
  <1> HIDE DEF P
  <1>4. PICK m \in P : \A q \in P : q <= m
    BY <1>1, <1>2, <1>3, GreatestNatural, Zenon
  <1>5. PICK p \in S : p.pos = m
    BY <1>4 DEF P
  <1>6. \A q \in S : q.pos <= p.pos
    BY <1>4, <1>5 DEF P
  <1> QED BY <1>5, <1>6 DEF lastOf

(* Endpoints that resolve are live in the staged projection. *)
LEMMA ResolvedLive ==
    ASSUME NEW st, NEW g, NEW m, Good(st, g, m), NEW edge \in Edges,
           resolveEndpoints(st, edge) # None
    PROVE  /\ resolveEndpoints(st, edge) \in RelationIDs
           /\ IsLive(g, resolveEndpoints(st, edge)[1])
           /\ IsLive(g, resolveEndpoints(st, edge)[2])
  <1>1. edge[1] \in Identities /\ edge[2] \in Identities
    BY EngineAssumption
  <1>2. /\ matchIdentity(st, edge[1]) = MatchIdentity(g, edge[1])
        /\ matchIdentity(st, edge[2]) = MatchIdentity(g, edge[2])
    BY <1>1 DEF Good, Overlay
  <1>3. /\ matchIdentity(st, edge[1]) # None /\ matchIdentity(st, edge[2]) # None
        /\ resolveEndpoints(st, edge) =
              <<matchIdentity(st, edge[1]), matchIdentity(st, edge[2])>>
    BY DEF resolveEndpoints
  <1>4. MatchIdentity(g, edge[1]) \in EntityIDs /\ MatchIdentity(g, edge[2]) \in EntityIDs
    BY <1>1, <1>2, <1>3, MatchIdentityType DEF Good, Consistent
  <1>5. IsLive(g, MatchIdentity(g, edge[1])) /\ IsLive(g, MatchIdentity(g, edge[2]))
    BY <1>1, <1>4, MatchIdentityExact DEF Good
  <1> QED BY <1>2, <1>3, <1>4, <1>5, SMTT(40) DEF RelationIDs

-----------------------------------------------------------------------------
(* The parts of an action. *)

(* A deletion with its cascade leaves no edge of the deleted node. *)
LEMMA CascadeGood ==
    ASSUME Good(staged, after, minted), EdgesLive(after),
           relRefs \in RefsType(RelationIDs),
           NEW id \in EntityIDs, IsLive(after, id), NEW e, NEW at \in Nat,
           deleteCascade(id, e, at)
    PROVE  /\ Good(staged', after', minted)
           /\ EdgesLive(after')
           /\ relRefs' \in RefsType(RelationIDs)
           /\ \A x \in EntityIDs : IsLive(after', x) <=> IsLive(after, x) /\ x # id
  <1> DEFINE ev       == EntityEvent("deleted", id, e, at)
             s        == stagedApply(staged, ev)
             d        == Apply(after, ev)
             incident == listRelationsTouching(s, id)
             removals == [r \in incident |-> None]
  <1>1. /\ Good(s, d, minted)
        /\ d.relations = after.relations
        /\ \A x \in EntityIDs : IsLive(d, x) <=> IsLive(after, x) /\ x # id
    BY DeleteGood
  <1>2. incident \in SUBSET RelationIDs /\ removals \in [incident -> Attributes \cup {None}]
    BY DEF listRelationsTouching
  <1>3. /\ staged' = stagedApplyRelations(s, removals)
        /\ after' = applyRelations(d, removals)
        /\ relRefs' = [r \in RelationIDs |-> IF r \in incident THEN noSpeakers ELSE relRefs[r]]
    BY DEF deleteCascade
  <1> HIDE DEF s, d
  <1>4. \A r \in RelationIDs : Touches(r, id) /\ d.relations[r] # None => r \in incident
    BY <1>1 DEF Good, Overlay, getRelation, listRelationsTouching
  <1>5. \A r \in incident : removals[r] = None
    OBVIOUS
  <1> HIDE DEF incident, removals
  <1>6. /\ Good(staged', after', minted)
        /\ after'.relations = [r \in RelationIDs |->
                                  IF r \in incident THEN removals[r] ELSE d.relations[r]]
        /\ \A x \in EntityIDs : IsLive(after', x) <=> IsLive(d, x)
    BY <1>1, <1>2, <1>3, RelationsGood, SMTT(40)
  <1>7. EdgesLive(after')
    <2>1. ASSUME NEW r \in RelationIDs, after'.relations[r] # None
          PROVE  IsLive(after', r[1]) /\ IsLive(after', r[2])
      <3>1. r \notin incident /\ d.relations[r] # None
        BY <1>5, <1>6, <2>1
      <3>2. ~Touches(r, id) /\ IsLive(after, r[1]) /\ IsLive(after, r[2])
        BY <1>1, <1>4, <3>1 DEF EdgesLive
      <3>3. r[1] \in EntityIDs /\ r[2] \in EntityIDs
        BY DEF RelationIDs
      <3> QED BY <1>1, <1>6, <3>2, <3>3 DEF Touches
    <2> QED BY <2>1 DEF EdgesLive
  <1>8. relRefs' \in RefsType(RelationIDs)
    BY <1>3 DEF RefsType, noSpeakers
  <1> QED BY <1>1, <1>6, <1>7, <1>8

(* A single relation event is the one-element case of RelationsGood. *)
LEMMA RelationEventGood ==
    ASSUME NEW st, NEW g, NEW m, Good(st, g, m), NEW r \in RelationIDs,
           NEW kind, NEW a,
           \/ kind \in {"added", "changed"} /\ a \in Attributes
           \/ kind = "removed" /\ a = None
    PROVE  LET ev == RelationEvent(kind, r, a)
           IN  /\ Good(stagedApply(st, ev), Apply(g, ev), m)
               /\ \A x \in RelationIDs :
                      Apply(g, ev).relations[x] = IF x = r THEN a ELSE g.relations[x]
               /\ \A x \in EntityIDs : IsLive(Apply(g, ev), x) <=> IsLive(g, x)
  <1> DEFINE ev    == RelationEvent(kind, r, a)
             attrs == [x \in {r} |-> a]
             rels  == [g.relations EXCEPT ![r] = a]
             adj   == IF a = None THEN g.adjacency \ {r} ELSE g.adjacency \cup {r}
             srels == [st.relations EXCEPT ![r] = a]
             srem  == IF a = None THEN st.relRemoved \cup {r} ELSE st.relRemoved \ {r}
  <1>1. g \in GraphType /\ st \in Staged
    BY DEF Good, Consistent
  <1>2. a # None <=> kind \in {"added", "changed"}
    BY ProjectionAssumption
  <1>3. attrs \in [{r} -> Attributes \cup {None}] /\ {r} \in SUBSET RelationIDs
    OBVIOUS
  <1>4. Apply(g, ev) = applyRelations(g, attrs)
    <2>1. Apply(g, ev) = [g EXCEPT !.relations = rels, !.adjacency = adj]
      BY <1>1, <1>2, Zenon DEF Apply, applyRelation, RelationEvent, GraphType
    <2>2. /\ rels = [x \in RelationIDs |-> IF x \in DOMAIN attrs THEN attrs[x] ELSE g.relations[x]]
          /\ adj = {x \in RelationIDs : IF x \in DOMAIN attrs THEN attrs[x] # None
                                        ELSE x \in g.adjacency}
      BY <1>1 DEF GraphType
    <2> HIDE DEF rels, adj
    <2> QED BY <2>1, <2>2 DEF applyRelations
  <1>5. stagedApply(st, ev) = stagedApplyRelations(st, attrs)
    <2>1. stagedApply(st, ev) = [st EXCEPT !.relations = srels, !.relRemoved = srem, !.dirty = TRUE]
      BY <1>1, <1>2, Zenon DEF stagedApply, RelationEvent, Staged
    <2>2. /\ srels = [x \in RelationIDs |-> IF x \in DOMAIN attrs THEN attrs[x] ELSE st.relations[x]]
          /\ srem = {x \in RelationIDs : IF x \in DOMAIN attrs THEN attrs[x] = None
                                         ELSE x \in st.relRemoved}
          /\ TRUE = (st.dirty \/ DOMAIN attrs # {})
      BY <1>1 DEF Staged
    <2> HIDE DEF srels, srem
    <2> QED BY <2>1, <2>2, Zenon DEF stagedApplyRelations
  <1>6. attrs[r] = a
    OBVIOUS
  <1> HIDE DEF ev, attrs
  <1>7. /\ Good(stagedApplyRelations(st, attrs), applyRelations(g, attrs), m)
        /\ applyRelations(g, attrs).relations =
              [x \in RelationIDs |-> IF x \in {r} THEN attrs[x] ELSE g.relations[x]]
        /\ \A x \in EntityIDs : IsLive(applyRelations(g, attrs), x) <=> IsLive(g, x)
    BY <1>3, RelationsGood
  <1> QED BY <1>4, <1>5, <1>6, <1>7 DEF ev

(* Retrying the parked edges. *)
LEMMA FlushPendingGood ==
    ASSUME now \in Nat, pending \subseteq PendingRelation, PendingBounded,
           relRefs \in RefsType(RelationIDs),
           NEW st, NEW g, NEW m, Good(st, g, m), EdgesLive(g),
           NEW rf \in RefsType(EntityIDs),
           flushPending(st, g, rf)
    PROVE  /\ Good(staged', after', m)
           /\ EdgesLive(after')
           /\ relRefs' \in RefsType(RelationIDs)
           /\ pending' \subseteq pending
  <1> DEFINE expired  == {p \in pending : now > p.deadline}
             ready    == {p \in pending \ expired : resolveEndpoints(st, p.edge) # None}
             on(r)    == {p \in ready : resolveEndpoints(st, p.edge) = r}
             by(r, s) == {p \in on(r) : <<p.producer, p.scope>> = s}
             written  == {r \in RelationIDs :
                            /\ on(r) # {}
                            /\ getRelation(st, r) # lastOf(on(r)).attributes}
             attrs    == [r \in written |-> lastOf(on(r)).attributes]
  <1>1. /\ relRefs' = [r \in RelationIDs |-> [s \in Speakers |->
                          IF by(r, s) = {} THEN relRefs[r][s]
                          ELSE edgeRef(rf, r, s, lastOf(by(r, s)).interval)]]
        /\ staged' = stagedApplyRelations(st, attrs)
        /\ after' = applyRelations(g, attrs)
        /\ pending' = pending \ (expired \cup ready)
    BY Zenon DEF flushPending
  <1>2. \A r \in RelationIDs : on(r) # {} => lastOf(on(r)) \in on(r)
    <2>1. ASSUME NEW r \in RelationIDs, on(r) # {} PROVE lastOf(on(r)) \in on(r)
      <3>1. on(r) \subseteq pending
        OBVIOUS
      <3> HIDE DEF on
      <3> QED BY <2>1, <3>1, LastOfMember
    <2> QED BY <2>1
  <1>3. \A r \in RelationIDs, s \in Speakers :
            by(r, s) # {} => lastOf(by(r, s)) \in pending
    <2>1. ASSUME NEW r \in RelationIDs, NEW s \in Speakers, by(r, s) # {}
          PROVE  lastOf(by(r, s)) \in pending
      <3>1. by(r, s) \subseteq pending
        OBVIOUS
      <3> HIDE DEF by
      <3> QED BY <2>1, <3>1, LastOfMember
    <2> QED BY <2>1
  <1>4. written \in SUBSET RelationIDs
    OBVIOUS
  <1>5. \A r \in written : /\ lastOf(on(r)) \in pending
                           /\ resolveEndpoints(st, lastOf(on(r)).edge) = r
    BY <1>2
  <1>6. attrs \in [written -> Attributes \cup {None}]
    BY <1>5 DEF PendingRelation
  <1>7. \A r \in written : IsLive(g, r[1]) /\ IsLive(g, r[2])
    <2>1. ASSUME NEW r \in written PROVE IsLive(g, r[1]) /\ IsLive(g, r[2])
      <3>1. PICK edge \in Edges : resolveEndpoints(st, edge) = r
        BY <1>5 DEF PendingRelation
      <3>2. r # None
        BY <1>5
      <3> QED BY <3>1, <3>2, ResolvedLive
    <2> QED BY <2>1
  <1> HIDE DEF written, attrs
  <1>8. /\ Good(staged', after', m)
        /\ after'.relations = [r \in RelationIDs |->
                                  IF r \in written THEN attrs[r] ELSE g.relations[r]]
        /\ \A x \in EntityIDs : IsLive(after', x) <=> IsLive(g, x)
    <2>1. staged' = stagedApplyRelations(st, attrs) /\ after' = applyRelations(g, attrs)
      BY <1>1
    <2> QED BY <2>1, <1>4, <1>6, RelationsGood, SMTT(40)
  <1>9. EdgesLive(after')
    BY <1>7, <1>8 DEF EdgesLive, RelationIDs
  <1>10. relRefs' \in RefsType(RelationIDs)
    <2>1. ASSUME NEW r \in RelationIDs, NEW s \in Speakers, by(r, s) # {}
          PROVE  edgeRef(rf, r, s, lastOf(by(r, s)).interval) \in LiveRef
      <3>1. lastOf(by(r, s)).interval \in Nat
        BY <1>3, <2>1, EngineAssumption, Zenon DEF PendingRelation
      <3> QED BY <3>1, EdgeRefType
    <2> HIDE DEF by
    <2> QED BY <1>1, <2>1 DEF RefsType
  <1> QED BY <1>1, <1>8, <1>9, <1>10

(* Parking an edge, even at the cap. *)
LEMMA ParkType ==
    ASSUME now \in Nat, pending \subseteq PendingRelation, PendingBounded, staged \in Staged,
           NEW edge \in Edges, NEW a \in Attributes, NEW producer \in Producers,
           NEW interval \in EdgeIntervals, NEW source \in Nat,
           park(edge, a, producer, interval, source)
    PROVE  pending' \subseteq PendingRelation /\ PendingBounded'
  <1> DEFINE kept  == IF Cardinality(pending) >= MaxPending
                      THEN pending \ {firstOf(pending)} ELSE pending
             hold  == IF source > BufferTTL THEN source ELSE BufferTTL
             pos   == IF kept = {} THEN 0 ELSE lastOf(kept).pos + 1
             entry == [pos |-> pos, edge |-> edge, attributes |-> a, producer |-> producer,
                       interval |-> interval, deadline |-> now + hold, scope |-> staged.scope]
  <1>1. pending' = kept \cup {entry}
    BY DEF park
  <1>2. kept \subseteq pending /\ now + hold \in Nat
    BY EngineAssumption
  <1> HIDE DEF kept, hold
  <1>3. pos \in Nat
    <2>1. CASE kept = {}
      BY <2>1
    <2>2. CASE kept # {}
      <3>1. lastOf(kept) \in pending
        BY <1>2, <2>2, LastOfMember
      <3>2. lastOf(kept).pos \in Nat
        BY <3>1 DEF PendingRelation
      <3> QED BY <2>2, <3>2
    <2> QED BY <2>1, <2>2
  <1> HIDE DEF pos
  <1>4. entry \in PendingRelation
    BY <1>2, <1>3 DEF PendingRelation, Staged
  <1>5. PICK n \in Nat : \A p \in pending : p.pos <= n
    BY DEF PendingBounded
  <1>6. PICK b \in Nat : n <= b /\ pos <= b
    <2>1. CASE n <= pos
      BY <1>3, <2>1
    <2>2. CASE ~(n <= pos)
      BY <1>3, <2>2
    <2> QED BY <2>1, <2>2
  <1>7. \A p \in kept : p.pos <= b
    <2>1. ASSUME NEW p \in kept PROVE p.pos <= b
      <3>1. p.pos \in Nat /\ p.pos <= n
        BY <1>2, <1>5 DEF PendingRelation
      <3> QED BY <1>6, <3>1
    <2> QED BY <2>1
  <1>8. entry.pos = pos
    OBVIOUS
  <1> HIDE DEF entry
  <1>9. \A p \in pending' : p.pos <= b
    BY <1>1, <1>6, <1>7, <1>8
  <1> QED BY <1>1, <1>2, <1>4, <1>9 DEF PendingBounded
=============================================================================
