--------------------------- MODULE ProjectionProofs ---------------------------
(***************************************************************************)
(* Facts about the projection's operations, for every value of the          *)
(* constants: what each one leaves of a graph, and that it keeps the        *)
(* graph's indexes in step with its entities and relations.                 *)
(***************************************************************************)
EXTENDS Projection, FiniteSetTheorems, WellFoundedInduction, TLAPS

(* The identity index names the live entities, each under its own identity. *)
IndexExact(g) ==
    /\ \A h \in Identities : g.byHash[h] # None =>
           IsLive(g, g.byHash[h]) /\ g.entities[g.byHash[h]].identity = h
    /\ \A id \in EntityIDs : IsLive(g, id) => g.byHash[g.entities[id].identity] = id

(* The tombstone index names entities of the identity it is asked for. *)
TombstonesNamed(g) ==
    \A h \in Identities : g.tombByHash[h] # None =>
        /\ g.entities[g.tombByHash[h]] # None
        /\ g.entities[g.tombByHash[h]].identity = h

(* The adjacency lists hold the relations, and no edge dangles. *)
AdjacencyExact(g) == g.adjacency = {r \in RelationIDs : g.relations[r] # None}

EdgesLive(g) ==
    \A r \in RelationIDs : g.relations[r] # None => IsLive(g, r[1]) /\ IsLive(g, r[2])

-----------------------------------------------------------------------------
(* Every non-empty set of naturals has a least element. *)
LEMMA LeastNatural ==
    ASSUME NEW S \in SUBSET Nat, S # {}
    PROVE  \E m \in S : \A n \in S : m <= n
  <1>1. PICK m \in S : \A n \in S : <<n, m>> \notin OpToRel(<, Nat)
    BY WFMin, NatLessThanWellFounded
  <1>2. ASSUME NEW n \in S PROVE m <= n
    <2>1. m \in Nat /\ n \in Nat
      OBVIOUS
    <2>2. n < m => <<n, m>> \in OpToRel(<, Nat)
      BY <2>1 DEF OpToRel
    <2>3. ~(n < m)
      BY <1>1, <2>2
    <2> QED BY <2>1, <2>3
  <1> QED BY <1>2

(* And every bounded one a greatest. *)
LEMMA GreatestNatural ==
    ASSUME NEW S \in SUBSET Nat, S # {}, NEW b \in Nat, \A n \in S : n <= b
    PROVE  \E m \in S : \A n \in S : n <= m
  <1> DEFINE T == {b - n : n \in S}
  <1>1. T \in SUBSET Nat /\ T # {}
    <2>1. ASSUME NEW n \in S PROVE b - n \in Nat
      <3>1. n \in Nat /\ n <= b
        OBVIOUS
      <3> QED BY <3>1
    <2> QED BY <2>1, Zenon
  <1>2. PICK t \in T : \A u \in T : t <= u
    BY <1>1, LeastNatural, Zenon
  <1>3. PICK m \in S : t = b - m
    BY <1>2
  <1>4. ASSUME NEW n \in S PROVE n <= m
    <2>1. n \in Nat /\ m \in Nat /\ b - m <= b - n
      BY <1>2, <1>3
    <2> QED BY <2>1
  <1> QED BY <1>4

-----------------------------------------------------------------------------
(* What putEntity leaves of each field of the graph. *)
LEMMA PutEntityFields ==
    ASSUME NEW g \in GraphType, NEW id \in EntityIDs, NEW e \in Entity
    PROVE  LET p == putEntity(g, id, e)
           IN  /\ p \in GraphType
               /\ p.entities = [g.entities EXCEPT ![id] = e]
               /\ p.deleted = g.deleted \ {id}
               /\ p.relations = g.relations
               /\ p.adjacency = g.adjacency
               /\ p.byHash = [g.byHash EXCEPT ![e.identity] = id]
               /\ p.tombByHash = [g.tombByHash EXCEPT ![e.identity] = None]
  <1> DEFINE entities == [g.entities EXCEPT ![id] = e]
             live     == IF id \in g.deleted THEN g.liveTombstones - 1 ELSE g.liveTombstones
             deadline == [g.tombDeadline EXCEPT ![id] =
                             IF id \in g.deleted THEN 0 ELSE g.tombDeadline[id]]
             deleted  == g.deleted \ {id}
             tombs    == [g.tombByHash EXCEPT ![e.identity] = None]
             hashes   == [g.byHash EXCEPT ![e.identity] = id]
             types    == g.byType \cup {id}
  <1>1. /\ entities \in [EntityIDs -> Entity \cup {None}]
        /\ live \in Int
        /\ deadline \in [EntityIDs -> Nat]
        /\ deleted \in SUBSET EntityIDs
    BY DEF GraphType
  <1>2. /\ tombs \in [Identities -> EntityIDs \cup {None}]
        /\ hashes \in [Identities -> EntityIDs \cup {None}]
        /\ types \in SUBSET EntityIDs
    BY DEF GraphType, Entity
  <1>3. putEntity(g, id, e) =
          [g EXCEPT !.entities = entities, !.liveTombstones = live, !.tombDeadline = deadline,
                    !.deleted = deleted, !.tombByHash = tombs, !.byHash = hashes,
                    !.byType = types]
    BY DEF putEntity
  <1> HIDE DEF entities, live, deadline, deleted, tombs, hashes, types
  <1>4. putEntity(g, id, e) \in GraphType
    BY <1>1, <1>2, <1>3, Zenon DEF GraphType
  <1>5. LET p == putEntity(g, id, e)
        IN  /\ p.entities = entities
            /\ p.deleted = deleted
            /\ p.relations = g.relations
            /\ p.adjacency = g.adjacency
            /\ p.byHash = hashes
            /\ p.tombByHash = tombs
    BY <1>3 DEF GraphType
  <1> QED BY <1>4, <1>5 DEF entities, deleted, hashes, tombs

(* What dropTombstone leaves. *)
LEMMA DropTombstoneFields ==
    ASSUME NEW g \in GraphType, NEW id \in EntityIDs
    PROVE  LET d == dropTombstone(g, id)
           IN  /\ d \in GraphType
               /\ d.entities = [g.entities EXCEPT ![id] = None]
               /\ d.deleted = g.deleted \ {id}
               /\ d.relations = g.relations
               /\ d.adjacency = g.adjacency
               /\ d.byHash = g.byHash
               /\ d.tombByHash = [h \in Identities |->
                      IF g.entities[id] # None /\ h = g.entities[id].identity
                         /\ g.tombByHash[h] = id
                      THEN None ELSE g.tombByHash[h]]
  <1> DEFINE entities == [g.entities EXCEPT ![id] = None]
             deleted  == g.deleted \ {id}
             deadline == [g.tombDeadline EXCEPT ![id] = 0]
             live     == g.liveTombstones - 1
             tombs    == [h \in Identities |->
                             IF g.entities[id] # None /\ h = g.entities[id].identity
                                /\ g.tombByHash[h] = id
                             THEN None ELSE g.tombByHash[h]]
  <1>1. /\ entities \in [EntityIDs -> Entity \cup {None}]
        /\ live \in Int
        /\ deadline \in [EntityIDs -> Nat]
        /\ deleted \in SUBSET EntityIDs
        /\ tombs \in [Identities -> EntityIDs \cup {None}]
    BY DEF GraphType
  <1>2. dropTombstone(g, id) =
          [g EXCEPT !.tombByHash = tombs, !.entities = entities, !.deleted = deleted,
                    !.tombDeadline = deadline, !.liveTombstones = live]
    BY DEF dropTombstone
  <1> HIDE DEF entities, deleted, deadline, live, tombs
  <1>3. dropTombstone(g, id) \in GraphType
    BY <1>1, <1>2, Zenon DEF GraphType
  <1>4. LET d == dropTombstone(g, id)
        IN  /\ d.entities = entities
            /\ d.deleted = deleted
            /\ d.relations = g.relations
            /\ d.adjacency = g.adjacency
            /\ d.byHash = g.byHash
            /\ d.tombByHash = tombs
    BY <1>2 DEF GraphType
  <1> QED BY <1>3, <1>4 DEF entities, deleted, tombs

(* What evictTombstones leaves: at most soft-deleted entities go, and the      *)
(* tombstone index forgets those it drops.                                     *)
LEMMA EvictTombstonesFields ==
    ASSUME NEW g \in GraphType
    PROVE  LET v == evictTombstones(g)
           IN  /\ v \in GraphType
               /\ v.relations = g.relations
               /\ v.adjacency = g.adjacency
               /\ v.byHash = g.byHash
               /\ v.deleted \subseteq g.deleted
               /\ \A x \in EntityIDs :
                      v.entities[x] = IF x \in g.deleted \ v.deleted THEN None ELSE g.entities[x]
               /\ TombstonesNamed(g) => TombstonesNamed(v)
  <1> DEFINE queued == {t \in g.tombstones : t.id \in g.deleted}
             oldest == CHOOSE t \in queued : \A u \in queued : t.pos <= u.pos
             popped == [g EXCEPT !.tombstones = {t \in g.tombstones : t.pos > oldest.pos}]
  <1>1. CASE g.liveTombstones <= TombstoneCap
    BY <1>1 DEF evictTombstones, GraphType
  <1>2. CASE ~(g.liveTombstones <= TombstoneCap) /\ queued = {}
    <2>1. evictTombstones(g) = [g EXCEPT !.tombstones = {}]
      BY <1>2 DEF evictTombstones
    <2>2. [g EXCEPT !.tombstones = {}] \in GraphType
      BY DEF GraphType
    <2> QED BY <2>1, <2>2 DEF GraphType, TombstonesNamed
  <1>3. CASE ~(g.liveTombstones <= TombstoneCap) /\ queued # {}
    <2>1. evictTombstones(g) = dropTombstone(popped, oldest.id)
      BY <1>3 DEF evictTombstones
    <2>2. \A t \in queued : t.pos \in Nat /\ t.id \in EntityIDs
      BY DEF GraphType
    <2>3. PICK m \in {t.pos : t \in queued} : \A n \in {t.pos : t \in queued} : m <= n
      BY <1>3, <2>2, LeastNatural, Zenon
    <2>4. oldest \in queued
      BY <2>3
    <2>5. oldest.id \in EntityIDs /\ oldest.id \in g.deleted
      BY <2>2, <2>4
    <2> HIDE DEF oldest
    <2>6. /\ popped \in GraphType
          /\ popped.entities = g.entities /\ popped.deleted = g.deleted
          /\ popped.relations = g.relations /\ popped.adjacency = g.adjacency
          /\ popped.byHash = g.byHash /\ popped.tombByHash = g.tombByHash
      BY DEF GraphType
    <2> HIDE DEF popped
    <2> DEFINE v == dropTombstone(popped, oldest.id)
    <2>7. /\ v \in GraphType
          /\ v.entities = [popped.entities EXCEPT ![oldest.id] = None]
          /\ v.deleted = popped.deleted \ {oldest.id}
          /\ v.relations = popped.relations /\ v.adjacency = popped.adjacency
          /\ v.byHash = popped.byHash
          /\ v.tombByHash = [h \in Identities |->
                 IF popped.entities[oldest.id] # None /\ h = popped.entities[oldest.id].identity
                    /\ popped.tombByHash[h] = oldest.id
                 THEN None ELSE popped.tombByHash[h]]
      BY <2>5, <2>6, DropTombstoneFields, Zenon
    <2> HIDE DEF v
    <2>8. TombstonesNamed(g) => TombstonesNamed(v)
      BY <2>5, <2>6, <2>7 DEF TombstonesNamed, GraphType
    <2>9. \A x \in EntityIDs :
             v.entities[x] = IF x \in g.deleted \ v.deleted THEN None ELSE g.entities[x]
      BY <2>5, <2>6, <2>7 DEF GraphType
    <2> QED BY <2>1, <2>6, <2>7, <2>8, <2>9 DEF v
  <1> QED BY <1>1, <1>2, <1>3

(* The next queue position is a natural number. *)
LEMMA NextPosType ==
    ASSUME NEW g \in GraphType
    PROVE  NextPos(g) \in Nat
  <1> DEFINE last == {t.pos : t \in {u \in g.tombstones :
                                        \A v \in g.tombstones : v.pos <= u.pos}}
  <1>1. last \in SUBSET Nat
    BY DEF GraphType
  <1>2. CASE last = {}
    BY <1>2 DEF NextPos
  <1>3. CASE last # {}
    <2>1. (CHOOSE p \in last : TRUE) \in Nat
      BY <1>1, <1>3
    <2> QED BY <1>3, <2>1 DEF NextPos
  <1> QED BY <1>2, <1>3

(* What deleteEntity leaves of a graph in which id is live: id is dead, and   *)
(* every other live entity is untouched.                                      *)
LEMMA DeleteEntityFields ==
    ASSUME NEW g \in GraphType, NEW id \in EntityIDs, NEW at \in Nat, IsLive(g, id)
    PROVE  LET d == deleteEntity(g, id, at)
           IN  /\ d \in GraphType
               /\ d.relations = g.relations
               /\ d.adjacency = g.adjacency
               /\ d.byHash = [g.byHash EXCEPT ![g.entities[id].identity] = None]
               /\ \A x \in EntityIDs : d.entities[x] \in {g.entities[x], None}
               /\ \A x \in EntityIDs :
                      IsLive(d, x) <=> IsLive(g, x) /\ x # id
               /\ \A x \in EntityIDs : IsLive(d, x) => d.entities[x] = g.entities[x]
               /\ TombstonesNamed(g) => TombstonesNamed(d)
  <1> DEFINE h        == g.entities[id].identity
             hashes   == [g.byHash EXCEPT ![h] = None]
             tombs    == [g.tombByHash EXCEPT ![h] = id]
             types    == g.byType \ {id}
             deleted  == g.deleted \cup {id}
             queue    == g.tombstones \cup {[pos |-> NextPos(g), id |-> id]}
             live     == g.liveTombstones + 1
             deadline == [g.tombDeadline EXCEPT ![id] =
                             IF TombstoneTTL > 0 THEN at + TombstoneTTL ELSE g.tombDeadline[id]]
             marked   == [g EXCEPT !.byHash = hashes, !.tombByHash = tombs, !.byType = types,
                                   !.deleted = deleted, !.tombstones = queue,
                                   !.liveTombstones = live, !.tombDeadline = deadline]
             d        == evictTombstones(marked)
  <1>1. g.entities[id] \in Entity /\ h \in Identities /\ id \notin g.deleted
    BY DEF IsLive, GraphType, Entity
  <1>2. /\ hashes \in [Identities -> EntityIDs \cup {None}]
        /\ tombs \in [Identities -> EntityIDs \cup {None}]
        /\ types \in SUBSET EntityIDs
        /\ deleted \in SUBSET EntityIDs
        /\ live \in Int
    BY <1>1 DEF GraphType
  <1>3. /\ queue \in SUBSET [pos : Nat, id : EntityIDs]
        /\ deadline \in [EntityIDs -> Nat]
    BY NextPosType, ProjectionAssumption DEF GraphType
  <1>4. deleteEntity(g, id, at) = d
    BY <1>1, ProjectionAssumption DEF deleteEntity, IsLive, GraphType
  <1>5. tombs[h] = id /\ \A k \in Identities \ {h} : tombs[k] = g.tombByHash[k]
    BY <1>1 DEF GraphType
  <1> HIDE DEF hashes, tombs, types, queue, live, deadline, deleted
  <1>6. marked \in GraphType
    BY <1>2, <1>3, Zenon DEF GraphType
  <1>7. /\ marked.entities = g.entities /\ marked.deleted = deleted
        /\ marked.relations = g.relations /\ marked.adjacency = g.adjacency
        /\ marked.byHash = hashes /\ marked.tombByHash = tombs
    BY DEF GraphType
  <1> HIDE DEF marked
  <1>8. TombstonesNamed(g) => TombstonesNamed(marked)
    BY <1>1, <1>5, <1>7 DEF TombstonesNamed, IsLive
  <1>9. /\ d \in GraphType
        /\ d.relations = g.relations /\ d.adjacency = g.adjacency
        /\ d.byHash = hashes
        /\ d.deleted \subseteq deleted
        /\ \A x \in EntityIDs :
               d.entities[x] = IF x \in deleted \ d.deleted THEN None ELSE g.entities[x]
        /\ TombstonesNamed(g) => TombstonesNamed(d)
    BY <1>6, <1>7, <1>8, EvictTombstonesFields
  <1> HIDE DEF d
  <1>10. \A x \in EntityIDs : IsLive(d, x) <=> IsLive(g, x) /\ x # id
    BY <1>1, <1>9 DEF IsLive, deleted
  <1>11. \A x \in EntityIDs : /\ d.entities[x] \in {g.entities[x], None}
                               /\ IsLive(d, x) => d.entities[x] = g.entities[x]
    BY <1>9 DEF IsLive
  <1> QED BY <1>4, <1>9, <1>10, <1>11 DEF hashes

(* What the removal or assertion of several relations leaves. *)
LEMMA ApplyRelationsFields ==
    ASSUME NEW g \in GraphType, NEW D \in SUBSET RelationIDs,
           NEW attrs \in [D -> Attributes \cup {None}]
    PROVE  LET a == applyRelations(g, attrs)
           IN  /\ a \in GraphType
               /\ a.entities = g.entities /\ a.deleted = g.deleted
               /\ a.byHash = g.byHash /\ a.tombByHash = g.tombByHash
               /\ a.relations = [r \in RelationIDs |->
                                    IF r \in D THEN attrs[r] ELSE g.relations[r]]
               /\ AdjacencyExact(g) => AdjacencyExact(a)
  <1> DEFINE rels == [r \in RelationIDs |->
                         IF r \in DOMAIN attrs THEN attrs[r] ELSE g.relations[r]]
             adj  == {r \in RelationIDs :
                         IF r \in DOMAIN attrs THEN attrs[r] # None ELSE r \in g.adjacency}
             a    == applyRelations(g, attrs)
  <1>1. rels \in [RelationIDs -> Attributes \cup {None}] /\ adj \in SUBSET RelationIDs
    BY DEF GraphType
  <1>2. a = [g EXCEPT !.relations = rels, !.adjacency = adj]
    BY DEF applyRelations
  <1>3. AdjacencyExact(g) => adj = {r \in RelationIDs : rels[r] # None}
    BY DEF AdjacencyExact
  <1>4. rels = [r \in RelationIDs |-> IF r \in D THEN attrs[r] ELSE g.relations[r]]
    OBVIOUS
  <1> HIDE DEF rels, adj, a
  <1>5. a \in GraphType
    BY <1>1, <1>2, Zenon DEF GraphType
  <1>6. /\ a.entities = g.entities /\ a.deleted = g.deleted
        /\ a.byHash = g.byHash /\ a.tombByHash = g.tombByHash
        /\ a.relations = rels /\ a.adjacency = adj
    BY <1>2 DEF GraphType
  <1> QED BY <1>3, <1>4, <1>5, <1>6 DEF AdjacencyExact, a

(* What the sweep's tombstone pruning leaves: live entities are untouched. *)
LEMMA PruneTombstonesFields ==
    ASSUME NEW g \in GraphType, NEW now \in Nat
    PROVE  LET p == PruneTombstones(g, now)
           IN  /\ p \in GraphType
               /\ p.relations = g.relations /\ p.adjacency = g.adjacency
               /\ p.byHash = g.byHash
               /\ \A x \in EntityIDs : p.entities[x] \in {g.entities[x], None}
               /\ \A x \in EntityIDs : IsLive(p, x) <=> IsLive(g, x)
               /\ \A x \in EntityIDs : IsLive(p, x) => p.entities[x] = g.entities[x]
               /\ TombstonesNamed(g) => TombstonesNamed(p)
  <1> DEFINE lapsed   == {id \in EntityIDs : g.tombDeadline[id] # 0 /\ now > g.tombDeadline[id]}
             gone     == lapsed \cap g.deleted
             entities == [id \in EntityIDs |-> IF id \in gone THEN None ELSE g.entities[id]]
             deleted  == g.deleted \ gone
             tombs    == [h \in Identities |->
                             IF g.tombByHash[h] \in gone THEN None ELSE g.tombByHash[h]]
             deadline == [id \in EntityIDs |-> IF id \in lapsed THEN 0 ELSE g.tombDeadline[id]]
             live     == g.liveTombstones - Cardinality(gone)
             pruned   == [g EXCEPT !.entities = entities, !.deleted = deleted,
                                   !.tombByHash = tombs, !.tombDeadline = deadline,
                                   !.liveTombstones = live]
             p        == PruneTombstones(g, now)
  <1>1. Cardinality(gone) \in Nat
    <2>1. gone \in SUBSET EntityIDs
      OBVIOUS
    <2> QED BY <2>1, FS_Subset, FS_CardinalityType, ProjectionAssumption
  <1>2. /\ entities \in [EntityIDs -> Entity \cup {None}]
        /\ deleted \in SUBSET EntityIDs
        /\ tombs \in [Identities -> EntityIDs \cup {None}]
        /\ deadline \in [EntityIDs -> Nat]
        /\ live \in Int
    BY <1>1 DEF GraphType
  <1>3. \/ p = g
        \/ p = pruned
        \/ p = compactTombstones(pruned)
    BY DEF PruneTombstones
  <1>4. gone \subseteq g.deleted
    OBVIOUS
  <1> HIDE DEF gone, deadline, live, p, lapsed
  <1>5. \A q : \/ q = pruned
               \/ q = compactTombstones(pruned)
             => /\ q \in GraphType
                /\ q.entities = entities /\ q.deleted = deleted
                /\ q.relations = g.relations /\ q.adjacency = g.adjacency
                /\ q.byHash = g.byHash /\ q.tombByHash = tombs
    <2> HIDE DEF entities, deleted, tombs
    <2>1. pruned \in GraphType
      BY <1>2, Zenon DEF GraphType
    <2>2. /\ pruned.entities = entities /\ pruned.deleted = deleted
          /\ pruned.relations = g.relations /\ pruned.adjacency = g.adjacency
          /\ pruned.byHash = g.byHash /\ pruned.tombByHash = tombs
      BY DEF GraphType
    <2> DEFINE queue == {t \in pruned.tombstones :
                           /\ t.id \in pruned.deleted
                           /\ \A u \in pruned.tombstones : u.id = t.id => t.pos <= u.pos}
    <2>3. compactTombstones(pruned) = [pruned EXCEPT !.tombstones = queue]
      BY DEF compactTombstones
    <2>4. queue \in SUBSET [pos : Nat, id : EntityIDs]
      BY <2>1 DEF GraphType
    <2> HIDE DEF queue, pruned
    <2>5. compactTombstones(pruned) \in GraphType
      BY <2>1, <2>3, <2>4 DEF GraphType
    <2>6. LET q == compactTombstones(pruned)
          IN  /\ q.entities = pruned.entities /\ q.deleted = pruned.deleted
              /\ q.relations = pruned.relations /\ q.adjacency = pruned.adjacency
              /\ q.byHash = pruned.byHash /\ q.tombByHash = pruned.tombByHash
      BY <2>1, <2>3 DEF GraphType
    <2> QED BY <2>1, <2>2, <2>5, <2>6
  <1>6. CASE p = g
    BY <1>6 DEF p
  <1>7. CASE p = pruned \/ p = compactTombstones(pruned)
    <2>1. /\ p \in GraphType
          /\ p.entities = entities /\ p.deleted = deleted
          /\ p.relations = g.relations /\ p.adjacency = g.adjacency
          /\ p.byHash = g.byHash /\ p.tombByHash = tombs
      BY <1>5, <1>7, Zenon
    <2>2. \A x \in EntityIDs : p.entities[x] \in {g.entities[x], None}
      BY <2>1
    <2>3. \A x \in EntityIDs : IsLive(p, x) <=> IsLive(g, x)
      BY <1>4, <2>1 DEF IsLive
    <2>4. \A x \in EntityIDs : IsLive(p, x) => p.entities[x] = g.entities[x]
      BY <2>1 DEF IsLive
    <2>5. TombstonesNamed(g) => TombstonesNamed(p)
      BY <1>2, <2>1 DEF TombstonesNamed, GraphType
    <2> QED BY <2>1, <2>2, <2>3, <2>4, <2>5 DEF p
  <1> QED BY <1>3, <1>6, <1>7

-----------------------------------------------------------------------------
(* What every operation keeps of a graph. *)
Consistent(g) ==
    /\ g \in GraphType
    /\ IndexExact(g)
    /\ TombstonesNamed(g)
    /\ AdjacencyExact(g)

(* An empty projection is consistent and has no edges. *)
LEMMA EmptyGraphConsistent == Consistent(EmptyGraph) /\ EdgesLive(EmptyGraph)
  <1>1. EmptyGraph \in GraphType
    BY DEF EmptyGraph, GraphType
  <1>2. AdjacencyExact(EmptyGraph) /\ EdgesLive(EmptyGraph)
    BY DEF EmptyGraph, AdjacencyExact, EdgesLive
  <1>3. IndexExact(EmptyGraph) /\ TombstonesNamed(EmptyGraph)
    BY DEF EmptyGraph, IndexExact, TombstonesNamed, IsLive
  <1> QED BY <1>1, <1>2, <1>3 DEF Consistent

(* putEntity makes id live and keeps the graph consistent, if no other live    *)
(* entity has its identity and id never had another one.                       *)
LEMMA PutEntityConsistent ==
    ASSUME NEW g, Consistent(g), NEW id \in EntityIDs, NEW e \in Entity,
           g.byHash[e.identity] \in {None, id},
           g.entities[id] # None => g.entities[id].identity = e.identity
    PROVE  LET p == putEntity(g, id, e)
           IN  /\ Consistent(p)
               /\ p.relations = g.relations
               /\ p.entities = [g.entities EXCEPT ![id] = e]
               /\ \A x \in EntityIDs : IsLive(p, x) <=> IsLive(g, x) \/ x = id
               /\ p.byHash = [g.byHash EXCEPT ![e.identity] = id]
  <1> DEFINE p == putEntity(g, id, e)
  <1>1. /\ p \in GraphType
        /\ p.entities = [g.entities EXCEPT ![id] = e]
        /\ p.deleted = g.deleted \ {id}
        /\ p.relations = g.relations
        /\ p.adjacency = g.adjacency
        /\ p.byHash = [g.byHash EXCEPT ![e.identity] = id]
        /\ p.tombByHash = [g.tombByHash EXCEPT ![e.identity] = None]
    <2>1. g \in GraphType
      BY DEF Consistent
    <2> QED BY <2>1, PutEntityFields, SMTT(40)
  <1> HIDE DEF p
  <1>2. e # None /\ e.identity \in Identities
    BY ProjectionAssumption DEF Entity
  <1>3. \A x \in EntityIDs : IsLive(p, x) <=> IsLive(g, x) \/ x = id
    BY <1>1, <1>2 DEF IsLive, Consistent, GraphType
  <1>4. IndexExact(p)
    <2>1. ASSUME NEW h \in Identities, p.byHash[h] # None
          PROVE  IsLive(p, p.byHash[h]) /\ p.entities[p.byHash[h]].identity = h
      <3>1. CASE h = e.identity
        BY <1>1, <1>3, <3>1 DEF Consistent, GraphType
      <3>2. CASE h # e.identity
        <4>1. p.byHash[h] = g.byHash[h] /\ g.byHash[h] \in EntityIDs
          BY <1>1, <1>2, <2>1, <3>2 DEF Consistent, GraphType
        <4>2. IsLive(g, g.byHash[h]) /\ g.entities[g.byHash[h]].identity = h
          BY <2>1, <4>1 DEF Consistent, IndexExact
        <4>3. g.byHash[h] # id
          BY <3>2, <4>2 DEF IsLive
        <4> QED BY <1>1, <1>3, <4>1, <4>2, <4>3 DEF Consistent, GraphType
      <3> QED BY <3>1, <3>2
    <2>2. ASSUME NEW x \in EntityIDs, IsLive(p, x)
          PROVE  p.byHash[p.entities[x].identity] = x
      <3>1. CASE x = id
        BY <1>1, <1>2, <3>1 DEF Consistent, GraphType
      <3>2. CASE x # id
        <4>1. IsLive(g, x) /\ p.entities[x] = g.entities[x]
          BY <1>1, <1>3, <2>2, <3>2 DEF Consistent, GraphType
        <4>2. g.byHash[g.entities[x].identity] = x /\ g.entities[x] \in Entity
          BY <4>1 DEF Consistent, IndexExact, IsLive, GraphType
        <4>3. g.entities[x].identity # e.identity
          BY <3>2, <4>2, ProjectionAssumption
        <4> QED BY <1>1, <1>2, <4>1, <4>2, <4>3 DEF Consistent, GraphType, Entity
      <3> QED BY <3>1, <3>2
    <2> QED BY <2>1, <2>2 DEF IndexExact
  <1>5. TombstonesNamed(p)
    BY <1>1, <1>2 DEF TombstonesNamed, Consistent, GraphType
  <1>6. AdjacencyExact(p)
    BY <1>1 DEF AdjacencyExact, Consistent
  <1> QED BY <1>1, <1>3, <1>4, <1>5, <1>6 DEF Consistent, p

(* deleteEntity kills exactly the live entity id and keeps the graph           *)
(* consistent.                                                                 *)
LEMMA DeleteEntityConsistent ==
    ASSUME NEW g, Consistent(g), NEW id \in EntityIDs, NEW at \in Nat, IsLive(g, id)
    PROVE  LET d == deleteEntity(g, id, at)
           IN  /\ Consistent(d)
               /\ d.relations = g.relations
               /\ \A x \in EntityIDs : d.entities[x] \in {g.entities[x], None}
               /\ \A x \in EntityIDs : IsLive(d, x) <=> IsLive(g, x) /\ x # id
               /\ \A x \in EntityIDs : IsLive(d, x) => d.entities[x] = g.entities[x]
               /\ d.byHash = [g.byHash EXCEPT ![g.entities[id].identity] = None]
  <1> DEFINE d == deleteEntity(g, id, at)
  <1>1. /\ d \in GraphType
        /\ d.relations = g.relations
        /\ d.adjacency = g.adjacency
        /\ d.byHash = [g.byHash EXCEPT ![g.entities[id].identity] = None]
        /\ \A x \in EntityIDs : d.entities[x] \in {g.entities[x], None}
        /\ \A x \in EntityIDs : IsLive(d, x) <=> IsLive(g, x) /\ x # id
        /\ \A x \in EntityIDs : IsLive(d, x) => d.entities[x] = g.entities[x]
        /\ TombstonesNamed(g) => TombstonesNamed(d)
    BY DeleteEntityFields DEF Consistent
  <1> HIDE DEF d
  <1>2. g.entities[id].identity \in Identities /\ g.byHash[g.entities[id].identity] = id
    BY DEF Consistent, IndexExact, IsLive, GraphType, Entity
  <1>3. IndexExact(d)
    <2>1. ASSUME NEW h \in Identities, d.byHash[h] # None
          PROVE  IsLive(d, d.byHash[h]) /\ d.entities[d.byHash[h]].identity = h
      <3>1. h # g.entities[id].identity /\ d.byHash[h] = g.byHash[h]
            /\ g.byHash[h] \in EntityIDs
        BY <1>1, <1>2, <2>1 DEF Consistent, GraphType
      <3>2. IsLive(g, g.byHash[h]) /\ g.entities[g.byHash[h]].identity = h
        BY <2>1, <3>1 DEF Consistent, IndexExact
      <3> QED BY <1>1, <3>1, <3>2
    <2>2. ASSUME NEW x \in EntityIDs, IsLive(d, x)
          PROVE  d.byHash[d.entities[x].identity] = x
      <3>1. IsLive(g, x) /\ x # id /\ d.entities[x] = g.entities[x]
        BY <1>1, <2>2
      <3>2. g.byHash[g.entities[x].identity] = x /\ g.entities[x] \in Entity
        BY <3>1 DEF Consistent, IndexExact, IsLive, GraphType
      <3> QED BY <1>1, <1>2, <3>1, <3>2 DEF Consistent, GraphType, Entity
    <2> QED BY <2>1, <2>2 DEF IndexExact
  <1>4. AdjacencyExact(d)
    BY <1>1 DEF AdjacencyExact, Consistent
  <1> QED BY <1>1, <1>3, <1>4 DEF Consistent, d

(* Relation events keep the graph consistent. *)
LEMMA ApplyRelationsConsistent ==
    ASSUME NEW g, Consistent(g), NEW D \in SUBSET RelationIDs,
           NEW attrs \in [D -> Attributes \cup {None}]
    PROVE  Consistent(applyRelations(g, attrs))
  <1> DEFINE a == applyRelations(g, attrs)
  <1>0. g \in GraphType
    BY DEF Consistent
  <1>1. /\ a \in GraphType
        /\ a.entities = g.entities /\ a.deleted = g.deleted
        /\ a.byHash = g.byHash /\ a.tombByHash = g.tombByHash
        /\ a.relations = [r \in RelationIDs |->
                             IF r \in D THEN attrs[r] ELSE g.relations[r]]
        /\ AdjacencyExact(g) => AdjacencyExact(a)
    BY <1>0, ApplyRelationsFields, Zenon
  <1> HIDE DEF a
  <1>2. IndexExact(a)
    BY <1>1 DEF IndexExact, IsLive, Consistent
  <1>3. TombstonesNamed(a)
    BY <1>1 DEF TombstonesNamed, Consistent
  <1> QED BY <1>1, <1>2, <1>3 DEF Consistent, a

(* Tombstone pruning keeps the graph consistent. *)
LEMMA PruneTombstonesConsistent ==
    ASSUME NEW g, Consistent(g), NEW now \in Nat
    PROVE  Consistent(PruneTombstones(g, now))
  <1> DEFINE p == PruneTombstones(g, now)
  <1>1. /\ p \in GraphType
        /\ p.relations = g.relations /\ p.adjacency = g.adjacency
        /\ p.byHash = g.byHash
        /\ \A x \in EntityIDs : IsLive(p, x) <=> IsLive(g, x)
        /\ \A x \in EntityIDs : IsLive(p, x) => p.entities[x] = g.entities[x]
        /\ TombstonesNamed(g) => TombstonesNamed(p)
    BY PruneTombstonesFields DEF Consistent
  <1> HIDE DEF p
  <1>2. IndexExact(p)
    BY <1>1 DEF IndexExact, Consistent, GraphType
  <1> QED BY <1>1, <1>2 DEF Consistent, AdjacencyExact, p
=============================================================================
