--------------------------- MODULE OverlayProofs ----------------------------
(***************************************************************************)
(* The batch overlay and the staged projection move together: whatever event*)
(* an operation stages, the overlay that answers as the projection answers  *)
(* before the event still does after it.  One lemma for each entity         *)
(* event: created, updated, unchanged, deleted.                             *)
(***************************************************************************)
EXTENDS Engine, ProjectionProofs

(* The overlay st over graph answers as g does. *)
Overlay(st, g) ==
    /\ \A h \in Identities : matchIdentity(st, h) = MatchIdentity(g, h)
    /\ \A id \in EntityIDs : IsLive(g, id) => getEntity(st, id) = g.entities[id]
    /\ \A r \in RelationIDs : getRelation(st, r) = g.relations[r]
    /\ \A r \in st.relRemoved : st.relations[r] = None

(* An id keeps its identity from the projection to g, and only minted ids are  *)
(* in use.                                                                     *)
SameIdentities(g) ==
    \A id \in EntityIDs : graph.entities[id] # None /\ g.entities[id] # None =>
        graph.entities[id].identity = g.entities[id].identity

OnlyMinted(st, g, m) ==
    /\ \A id \in EntityIDs : graph.entities[id] # None \/ g.entities[id] # None => id \in m
    /\ st.deleted \subseteq m

(* What the operations of a batch, and the steps of a sweep, keep of the       *)
(* overlay st and the staged projection g.                                     *)
Good(st, g, m) ==
    /\ st \in Staged
    /\ Consistent(graph)
    /\ Consistent(g)
    /\ Overlay(st, g)
    /\ SameIdentities(g)
    /\ OnlyMinted(st, g, m)

-----------------------------------------------------------------------------
(* What the index says of an identity in a consistent graph. *)
LEMMA MatchIdentityExact ==
    ASSUME NEW g, Consistent(g), NEW h \in Identities, NEW id \in EntityIDs
    PROVE  MatchIdentity(g, h) = id <=> IsLive(g, id) /\ g.entities[id].identity = h
  <1>1. id # None
    BY ProjectionAssumption
  <1>2. ASSUME MatchIdentity(g, h) = id PROVE IsLive(g, id) /\ g.entities[id].identity = h
    BY <1>1, <1>2 DEF MatchIdentity, Consistent, IndexExact
  <1>3. ASSUME IsLive(g, id), g.entities[id].identity = h PROVE MatchIdentity(g, h) = id
    BY <1>1, <1>3 DEF MatchIdentity, Consistent, IndexExact, IsLive
  <1> QED BY <1>2, <1>3

(* MatchIdentity answers an id or None. *)
LEMMA MatchIdentityType ==
    ASSUME NEW g \in GraphType, NEW h \in Identities
    PROVE  MatchIdentity(g, h) \in EntityIDs \cup {None}
  BY DEF MatchIdentity, GraphType

(* In a consistent graph an identity without a live entity has no index entry. *)
LEMMA MatchIdentityNone ==
    ASSUME NEW g, Consistent(g), NEW h \in Identities, MatchIdentity(g, h) = None
    PROVE  g.byHash[h] = None
  BY DEF MatchIdentity, Consistent, IndexExact, IsLive

(* Over a step that leaves the projection alone, Good is about the new values. *)
LEMMA GoodPrime ==
    ASSUME graph' = graph, Good(staged', after', minted')
    PROVE  Good(staged, after, minted)'
  <1>1. Overlay(staged, after)'
    BY DEF Good, Overlay, matchIdentity, MatchIdentity, getEntity, getRelation
  <1>2. SameIdentities(after)' /\ OnlyMinted(staged, after, minted)'
    BY DEF Good, SameIdentities, OnlyMinted
  <1> QED BY <1>1, <1>2 DEF Good

(* The empty overlay answers as the projection does. *)
LEMMA FreshGood ==
    ASSUME NEW g, Consistent(g), NEW m,
           \A id \in EntityIDs : g.entities[id] # None => id \in m,
           graph = g
    PROVE  Good(newStaged, g, m)
  <1>1. newStaged \in Staged
    BY EngineAssumption DEF newStaged, Staged
  <1>2. Overlay(newStaged, g)
    BY DEF Overlay, newStaged, matchIdentity, getEntity, getRelation
  <1> QED BY <1>1, <1>2 DEF Good, SameIdentities, OnlyMinted, newStaged

-----------------------------------------------------------------------------
(* What one staged entity event leaves of the overlay. *)

(* entity.created. *)
LEMMA StagedCreated ==
    ASSUME NEW st \in Staged, NEW id \in EntityIDs, NEW e \in Entity, NEW at
    PROVE  LET s == stagedApply(st, EntityEvent("created", id, e, at))
           IN  /\ s \in Staged
               /\ s.entities = [st.entities EXCEPT ![id] = e]
               /\ s.deleted = st.deleted \ {id}
               /\ s.byHash = [st.byHash EXCEPT ![e.identity] = id]
               /\ s.relations = st.relations /\ s.relRemoved = st.relRemoved
  <1> DEFINE entities == [st.entities EXCEPT ![id] = e]
             deleted  == st.deleted \ {id}
             hashes   == [st.byHash EXCEPT ![e.identity] = id]
             s        == stagedApply(st, EntityEvent("created", id, e, at))
  <1>1. /\ entities \in [EntityIDs -> Entity \cup {None}]
        /\ deleted \in SUBSET EntityIDs
        /\ hashes \in [Identities -> EntityIDs \cup {None}]
    BY DEF Staged, Entity
  <1>2. s = [st EXCEPT !.entities = entities, !.deleted = deleted, !.byHash = hashes,
                       !.dirty = TRUE]
    BY DEF stagedApply, EntityEvent
  <1> HIDE DEF entities, deleted, hashes, s
  <1>3. s \in Staged
    BY <1>1, <1>2, Zenon DEF Staged
  <1>4. /\ s.entities = entities /\ s.deleted = deleted /\ s.byHash = hashes
        /\ s.relations = st.relations /\ s.relRemoved = st.relRemoved
    BY <1>2 DEF Staged
  <1> QED BY <1>3, <1>4 DEF entities, deleted, hashes, s

(* entity.attribute_updated and entity.state_changed. *)
LEMMA StagedUpdated ==
    ASSUME NEW st \in Staged, NEW id \in EntityIDs, NEW e \in Entity, NEW at
    PROVE  LET s == stagedApply(st, EntityEvent("updated", id, e, at))
           IN  /\ s \in Staged
               /\ s.entities = [st.entities EXCEPT ![id] = e]
               /\ s.deleted = st.deleted /\ s.byHash = st.byHash
               /\ s.relations = st.relations /\ s.relRemoved = st.relRemoved
  <1> DEFINE entities == [st.entities EXCEPT ![id] = e]
             s        == stagedApply(st, EntityEvent("updated", id, e, at))
  <1>1. entities \in [EntityIDs -> Entity \cup {None}]
    BY DEF Staged
  <1>2. s = [st EXCEPT !.entities = entities, !.dirty = TRUE]
    BY DEF stagedApply, EntityEvent
  <1> HIDE DEF entities, s
  <1>3. s \in Staged
    BY <1>1, <1>2, Zenon DEF Staged
  <1>4. /\ s.entities = entities /\ s.deleted = st.deleted /\ s.byHash = st.byHash
        /\ s.relations = st.relations /\ s.relRemoved = st.relRemoved
    BY <1>2 DEF Staged
  <1> QED BY <1>3, <1>4 DEF entities, s

(* entity.unchanged. *)
LEMMA StagedUnchanged ==
    ASSUME NEW st \in Staged, NEW id, NEW e, NEW at
    PROVE  LET s == stagedApply(st, EntityEvent("unchanged", id, e, at))
           IN  /\ s \in Staged
               /\ s.entities = st.entities
               /\ s.deleted = st.deleted /\ s.byHash = st.byHash
               /\ s.relations = st.relations /\ s.relRemoved = st.relRemoved
  <1> DEFINE s == stagedApply(st, EntityEvent("unchanged", id, e, at))
  <1>1. s = [st EXCEPT !.dirty = TRUE]
    BY DEF stagedApply, EntityEvent
  <1> HIDE DEF s
  <1> QED BY <1>1, Zenon DEF Staged, s

(* entity.deleted. *)
LEMMA StagedDeleted ==
    ASSUME NEW st \in Staged, NEW id \in EntityIDs, NEW e, NEW at
    PROVE  LET s == stagedApply(st, EntityEvent("deleted", id, e, at))
           IN  /\ s \in Staged
               /\ s.entities = st.entities
               /\ s.deleted = st.deleted \cup {id} /\ s.byHash = st.byHash
               /\ s.relations = st.relations /\ s.relRemoved = st.relRemoved
  <1> DEFINE deleted == st.deleted \cup {id}
             s       == stagedApply(st, EntityEvent("deleted", id, e, at))
  <1>1. deleted \in SUBSET EntityIDs
    BY DEF Staged
  <1>2. s = [st EXCEPT !.deleted = deleted, !.dirty = TRUE]
    BY DEF stagedApply, EntityEvent
  <1> HIDE DEF deleted, s
  <1> QED BY <1>1, <1>2, Zenon DEF Staged, deleted, s

(* Several relation events. *)
LEMMA StagedRelations ==
    ASSUME NEW st \in Staged, NEW D \in SUBSET RelationIDs,
           NEW attrs \in [D -> Attributes \cup {None}]
    PROVE  LET s == stagedApplyRelations(st, attrs)
           IN  /\ s \in Staged
               /\ s.entities = st.entities
               /\ s.deleted = st.deleted /\ s.byHash = st.byHash
               /\ \A r \in RelationIDs :
                      s.relations[r] = IF r \in D THEN attrs[r] ELSE st.relations[r]
               /\ \A r \in RelationIDs :
                      r \in s.relRemoved <=> IF r \in D THEN attrs[r] = None
                                             ELSE r \in st.relRemoved
  <1> DEFINE rels    == [r \in RelationIDs |->
                            IF r \in DOMAIN attrs THEN attrs[r] ELSE st.relations[r]]
             removed == {r \in RelationIDs :
                            IF r \in DOMAIN attrs THEN attrs[r] = None ELSE r \in st.relRemoved}
             dirty   == st.dirty \/ DOMAIN attrs # {}
             s       == stagedApplyRelations(st, attrs)
  <1>1. /\ rels \in [RelationIDs -> Attributes \cup {None}]
        /\ removed \in SUBSET RelationIDs
        /\ dirty \in BOOLEAN
    BY DEF Staged
  <1>2. s = [st EXCEPT !.relations = rels, !.relRemoved = removed, !.dirty = dirty]
    BY DEF stagedApplyRelations
  <1>3. \A r \in RelationIDs :
           /\ rels[r] = IF r \in D THEN attrs[r] ELSE st.relations[r]
           /\ r \in removed <=> IF r \in D THEN attrs[r] = None ELSE r \in st.relRemoved
    OBVIOUS
  <1> HIDE DEF rels, removed, dirty, s
  <1>4. s \in Staged
    BY <1>1, <1>2, Zenon DEF Staged
  <1>5. /\ s.entities = st.entities /\ s.deleted = st.deleted /\ s.byHash = st.byHash
        /\ s.relations = rels /\ s.relRemoved = removed
    BY <1>2 DEF Staged
  <1> QED BY <1>3, <1>4, <1>5 DEF s

-----------------------------------------------------------------------------
(* In a consistent graph the identity index alone answers MatchIdentity. *)
LEMMA MatchIdentityHash ==
    ASSUME NEW g, Consistent(g), NEW h \in Identities
    PROVE  MatchIdentity(g, h) = g.byHash[h]
  BY DEF MatchIdentity, Consistent, IndexExact, IsLive

(* An observation of an identity without a live entity, under a fresh id or    *)
(* under a tombstone's: overlay and projection still agree.                    *)
LEMMA CreateGood ==
    ASSUME NEW st, NEW g, NEW m, Good(st, g, m),
           NEW h \in Identities, NEW a \in Attributes, NEW id \in EntityIDs,
           matchIdentity(st, h) = None,
           id \notin m \/ matchTombstone(st, h) = id
    PROVE  LET ev == EntityEvent("created", id, [identity |-> h, attributes |-> a], now)
           IN  /\ Good(stagedApply(st, ev), Apply(g, ev), m \cup {id})
               /\ Apply(g, ev).relations = g.relations
               /\ \A x \in EntityIDs : IsLive(g, x) => IsLive(Apply(g, ev), x)
  <1> DEFINE e  == [identity |-> h, attributes |-> a]
             ev == EntityEvent("created", id, e, now)
             s  == stagedApply(st, ev)
             p  == putEntity(g, id, e)
  <1>1. e \in Entity /\ e.identity = h /\ e # None /\ id # None
    BY ProjectionAssumption DEF Entity
  <1>2. g.byHash[h] = None
    BY MatchIdentityHash DEF Good, Overlay
  <1>3. /\ id \notin st.deleted
        /\ ~IsLive(graph, id)
        /\ graph.entities[id] # None => graph.entities[id].identity = h
        /\ g.entities[id] # None => g.entities[id].identity = h
    <2>1. CASE id \notin m
      BY <2>1 DEF Good, OnlyMinted, IsLive
    <2>2. CASE matchTombstone(st, h) = id
      <3>1. id \notin st.deleted /\ graph.tombByHash[h] = id /\ id \in graph.deleted
        BY <1>1, <2>2 DEF matchTombstone, MatchTombstone
      <3>2. graph.entities[id] # None /\ graph.entities[id].identity = h
        BY <1>1, <3>1 DEF Good, Consistent, TombstonesNamed
      <3> QED BY <3>1, <3>2 DEF Good, SameIdentities, IsLive
    <2> QED BY <2>1, <2>2
  <1>4. /\ Consistent(p)
        /\ p.relations = g.relations
        /\ p.entities = [g.entities EXCEPT ![id] = e]
        /\ \A x \in EntityIDs : IsLive(p, x) <=> IsLive(g, x) \/ x = id
        /\ p.byHash = [g.byHash EXCEPT ![h] = id]
    BY <1>1, <1>2, <1>3, PutEntityConsistent DEF Good
  <1>5. /\ s \in Staged
        /\ s.entities = [st.entities EXCEPT ![id] = e]
        /\ s.deleted = st.deleted
        /\ s.byHash = [st.byHash EXCEPT ![h] = id]
        /\ s.relations = st.relations /\ s.relRemoved = st.relRemoved
    <2>1. st \in Staged
      BY DEF Good
    <2>2. /\ s \in Staged
          /\ s.entities = [st.entities EXCEPT ![id] = e]
          /\ s.deleted = st.deleted \ {id}
          /\ s.byHash = [st.byHash EXCEPT ![e.identity] = id]
          /\ s.relations = st.relations /\ s.relRemoved = st.relRemoved
      BY <1>1, <2>1, StagedCreated
    <2>3. st.deleted \ {id} = st.deleted
      BY <1>3
    <2>4. [st.byHash EXCEPT ![e.identity] = id] = [st.byHash EXCEPT ![h] = id]
      BY <1>1
    <2> HIDE DEF s, e
    <2> QED BY <2>2, <2>3, <2>4, Zenon
  <1>6. Apply(g, ev) = p
    BY DEF Apply, applyEntity, EntityEvent
  <1> HIDE DEF s, p, e
  <1>7. Overlay(s, p)
    <2>1. ASSUME NEW k \in Identities PROVE matchIdentity(s, k) = MatchIdentity(p, k)
      <3>1. MatchIdentity(p, k) = p.byHash[k]
        BY <1>4, MatchIdentityHash, Zenon
      <3>2. CASE k = h
        BY <1>1, <1>3, <1>4, <1>5, <3>1, <3>2, SMTT(40) DEF matchIdentity, Good, Staged, Consistent, GraphType
      <3>3. CASE k # h
        <4>1. matchIdentity(s, k) = matchIdentity(st, k)
          BY <1>5, <3>3 DEF matchIdentity, Good, Staged
        <4>2. matchIdentity(st, k) = g.byHash[k]
          BY MatchIdentityHash DEF Good, Overlay
        <4> QED BY <1>4, <3>1, <3>3, <4>1, <4>2 DEF Good, Consistent, GraphType
      <3> QED BY <3>2, <3>3
    <2>2. ASSUME NEW x \in EntityIDs, IsLive(p, x) PROVE getEntity(s, x) = p.entities[x]
      BY <1>1, <1>4, <1>5, <2>2 DEF getEntity, Good, Overlay, Staged, Consistent, GraphType
    <2>3. \A r \in RelationIDs : getRelation(s, r) = p.relations[r]
      BY <1>4, <1>5 DEF getRelation, Good, Overlay
    <2>4. \A r \in s.relRemoved : s.relations[r] = None
      BY <1>5 DEF Good, Overlay
    <2> QED BY <2>1, <2>2, <2>3, <2>4 DEF Overlay
  <1>8. SameIdentities(p)
    BY <1>1, <1>3, <1>4, SMTT(40) DEF SameIdentities, Good, Consistent, GraphType
  <1>9. OnlyMinted(s, p, m \cup {id})
    BY <1>4, <1>5 DEF OnlyMinted, Good, Consistent, GraphType
  <1>10. Good(s, p, m \cup {id})
    BY <1>4, <1>5, <1>7, <1>8, <1>9 DEF Good
  <1> QED BY <1>4, <1>6, <1>10 DEF s, e

(* An observation of a live entity whose attributes differ. *)
LEMMA UpdateGood ==
    ASSUME NEW st, NEW g, NEW m, Good(st, g, m),
           NEW h \in Identities, NEW a \in Attributes, NEW id \in EntityIDs,
           matchIdentity(st, h) = id
    PROVE  LET ev == EntityEvent("updated", id, [identity |-> h, attributes |-> a], now)
           IN  /\ Good(stagedApply(st, ev), Apply(g, ev), m \cup {id})
               /\ Apply(g, ev).relations = g.relations
               /\ \A x \in EntityIDs : IsLive(g, x) => IsLive(Apply(g, ev), x)
  <1> DEFINE e  == [identity |-> h, attributes |-> a]
             ev == EntityEvent("updated", id, e, now)
             s  == stagedApply(st, ev)
             p  == putEntity(g, id, e)
  <1>1. e \in Entity /\ e.identity = h /\ e # None
    BY ProjectionAssumption DEF Entity
  <1>2. g.byHash[h] = id
    BY MatchIdentityHash DEF Good, Overlay
  <1>3. IsLive(g, id) /\ g.entities[id].identity = h
    BY MatchIdentityExact DEF Good, Overlay
  <1>4. /\ Consistent(p)
        /\ p.relations = g.relations
        /\ p.entities = [g.entities EXCEPT ![id] = e]
        /\ \A x \in EntityIDs : IsLive(p, x) <=> IsLive(g, x) \/ x = id
        /\ p.byHash = [g.byHash EXCEPT ![h] = id]
    BY <1>1, <1>2, <1>3, PutEntityConsistent, SMTT(40) DEF Good
  <1>5. /\ s \in Staged
        /\ s.entities = [st.entities EXCEPT ![id] = e]
        /\ s.deleted = st.deleted /\ s.byHash = st.byHash
        /\ s.relations = st.relations /\ s.relRemoved = st.relRemoved
    BY <1>1, StagedUpdated, SMTT(40) DEF Good
  <1>6. Apply(g, ev) = p
    BY DEF Apply, applyEntity, EntityEvent
  <1> HIDE DEF s, p, e
  <1>7. Overlay(s, p)
    <2>1. ASSUME NEW k \in Identities PROVE matchIdentity(s, k) = MatchIdentity(p, k)
      <3>1. MatchIdentity(p, k) = p.byHash[k]
        BY <1>4, MatchIdentityHash, Zenon
      <3>2. matchIdentity(s, k) = matchIdentity(st, k)
        BY <1>5 DEF matchIdentity
      <3>3. matchIdentity(st, k) = g.byHash[k]
        BY MatchIdentityHash DEF Good, Overlay
      <3> QED BY <1>2, <1>4, <3>1, <3>2, <3>3 DEF Good, Consistent, GraphType
    <2>2. ASSUME NEW x \in EntityIDs, IsLive(p, x) PROVE getEntity(s, x) = p.entities[x]
      BY <1>1, <1>4, <1>5, <2>2, SMTT(40) DEF getEntity, Good, Overlay, Staged, Consistent, GraphType
    <2>3. \A r \in RelationIDs : getRelation(s, r) = p.relations[r]
      BY <1>4, <1>5 DEF getRelation, Good, Overlay
    <2>4. \A r \in s.relRemoved : s.relations[r] = None
      BY <1>5 DEF Good, Overlay
    <2> QED BY <2>1, <2>2, <2>3, <2>4 DEF Overlay
  <1>8. SameIdentities(p)
    BY <1>1, <1>3, <1>4, SMTT(40) DEF SameIdentities, Good, Consistent, GraphType, IsLive
  <1>9. OnlyMinted(s, p, m \cup {id})
    BY <1>4, <1>5 DEF OnlyMinted, Good, Consistent, GraphType
  <1>10. Good(s, p, m \cup {id})
    BY <1>4, <1>5, <1>7, <1>8, <1>9 DEF Good
  <1> QED BY <1>4, <1>6, <1>10 DEF s, e

(* A heartbeat: the observation of a live entity as it is. *)
LEMMA UnchangedGood ==
    ASSUME NEW st, NEW g, NEW m, Good(st, g, m),
           NEW h \in Identities, NEW a \in Attributes, NEW id \in EntityIDs,
           matchIdentity(st, h) = id
    PROVE  LET ev == EntityEvent("unchanged", id, [identity |-> h, attributes |-> a], now)
           IN  Good(stagedApply(st, ev), Apply(g, ev), m \cup {id}) /\ Apply(g, ev) = g
  <1> DEFINE ev == EntityEvent("unchanged", id, [identity |-> h, attributes |-> a], now)
             s  == stagedApply(st, ev)
  <1>1. IsLive(g, id)
    BY MatchIdentityExact DEF Good, Overlay
  <1>2. Apply(g, ev) = g
    BY <1>1 DEF Apply, applyEntity, EntityEvent, IsLive
  <1>3. /\ s \in Staged
        /\ s.entities = st.entities
        /\ s.deleted = st.deleted /\ s.byHash = st.byHash
        /\ s.relations = st.relations /\ s.relRemoved = st.relRemoved
    BY StagedUnchanged DEF Good
  <1> HIDE DEF s, ev
  <1>4. Overlay(s, g)
    BY <1>3, SMTT(40) DEF Overlay, Good, matchIdentity, getEntity, getRelation
  <1>5. OnlyMinted(s, g, m \cup {id})
    BY <1>3 DEF OnlyMinted, Good
  <1>6. Good(s, g, m \cup {id})
    BY <1>3, <1>4, <1>5 DEF Good
  <1> QED BY <1>2, <1>6 DEF s, ev

(* The deletion or expiry of a live entity, before its edges go. *)
LEMMA DeleteGood ==
    ASSUME NEW st, NEW g, NEW m, Good(st, g, m),
           NEW id \in EntityIDs, IsLive(g, id), NEW e, NEW at \in Nat
    PROVE  LET ev == EntityEvent("deleted", id, e, at)
           IN  /\ Good(stagedApply(st, ev), Apply(g, ev), m)
               /\ Apply(g, ev).relations = g.relations
               /\ \A x \in EntityIDs : IsLive(Apply(g, ev), x) <=> IsLive(g, x) /\ x # id
  <1> DEFINE ev == EntityEvent("deleted", id, e, at)
             s  == stagedApply(st, ev)
             d  == deleteEntity(g, id, at)
             i  == g.entities[id].identity
  <1>1. /\ Consistent(d)
        /\ d.relations = g.relations
        /\ \A x \in EntityIDs : d.entities[x] \in {g.entities[x], None}
        /\ \A x \in EntityIDs : IsLive(d, x) <=> IsLive(g, x) /\ x # id
        /\ \A x \in EntityIDs : IsLive(d, x) => d.entities[x] = g.entities[x]
        /\ d.byHash = [g.byHash EXCEPT ![i] = None]
    BY DeleteEntityConsistent DEF Good
  <1>2. /\ s \in Staged
        /\ s.entities = st.entities
        /\ s.deleted = st.deleted \cup {id} /\ s.byHash = st.byHash
        /\ s.relations = st.relations /\ s.relRemoved = st.relRemoved
    BY StagedDeleted, SMTT(40) DEF Good
  <1>3. Apply(g, ev) = d
    BY DEF Apply, applyEntity, EntityEvent
  <1>4. i \in Identities /\ id # None
    BY ProjectionAssumption DEF Good, Consistent, GraphType, IsLive, Entity
  <1> HIDE DEF s, d, ev
  <1>5. Overlay(s, d)
    <2>1. ASSUME NEW k \in Identities PROVE matchIdentity(s, k) = MatchIdentity(d, k)
      <3>1. MatchIdentity(d, k) = d.byHash[k]
        BY <1>1, MatchIdentityHash, Zenon
      <3>2. matchIdentity(st, k) = MatchIdentity(g, k) /\ MatchIdentity(g, k) = g.byHash[k]
        BY MatchIdentityHash DEF Good, Overlay
      <3>3. MatchIdentity(g, k) = id <=> k = i
        BY MatchIdentityExact DEF Good
      <3>4. CASE k = i
        <4>1. matchIdentity(st, k) = id /\ d.byHash[k] = None
          BY <1>1, <1>4, <3>2, <3>3, <3>4 DEF Good, Consistent, GraphType
        <4>2. matchIdentity(s, k) = None
          BY <1>2, <1>4, <4>1 DEF matchIdentity
        <4> QED BY <3>1, <4>1, <4>2
      <3>5. CASE k # i
        <4>1. matchIdentity(st, k) # id /\ d.byHash[k] = g.byHash[k]
          BY <1>1, <3>2, <3>3, <3>5 DEF Good, Consistent, GraphType
        <4>2. matchIdentity(s, k) = matchIdentity(st, k)
          BY <1>2, <4>1 DEF matchIdentity
        <4> QED BY <3>1, <3>2, <4>1, <4>2
      <3> QED BY <3>4, <3>5
    <2>2. ASSUME NEW x \in EntityIDs, IsLive(d, x) PROVE getEntity(s, x) = d.entities[x]
      BY <1>1, <1>2, <2>2 DEF getEntity, Good, Overlay
    <2>3. \A r \in RelationIDs : getRelation(s, r) = d.relations[r]
      BY <1>1, <1>2 DEF getRelation, Good, Overlay
    <2>4. \A r \in s.relRemoved : s.relations[r] = None
      BY <1>2 DEF Good, Overlay
    <2> QED BY <2>1, <2>2, <2>3, <2>4 DEF Overlay
  <1>6. SameIdentities(d)
    BY <1>1 DEF SameIdentities, Good
  <1>7. OnlyMinted(s, d, m)
    <2>1. id \in m
      BY DEF Good, OnlyMinted, IsLive
    <2> QED BY <1>1, <1>2, <2>1 DEF OnlyMinted, Good
  <1>8. Good(s, d, m)
    BY <1>1, <1>2, <1>5, <1>6, <1>7 DEF Good
  <1> QED BY <1>1, <1>3, <1>8 DEF s, ev
=============================================================================
