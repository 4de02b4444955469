----------------------------- MODULE Projection -----------------------------
(***************************************************************************)
(* The in-memory projection of the event log: internal/projection/graph.go. *)
(* The module holds the graph's data structure and its operations as        *)
(* operators on a graph value g; Durability feeds one the event log         *)
(* and Engine drives one through the change engine.                         *)
(*                                                                          *)
(* Abstractions.  An entity is its identity and one attribute value; the    *)
(* identity stands for its hash.  A relation is identified by its endpoint  *)
(* ids (one relation type) and carries one attribute value.  The out and in *)
(* adjacency maps are always written together, so they are one set of       *)
(* relation ids; byType is the set of ids some type lists.  The tombstones  *)
(* slice is a set of entries with their position: popping the front removes *)
(* the lowest positions, appending takes the next one.  Times are naturals  *)
(* and 0 is Go's zero time.                                                 *)
(***************************************************************************)
EXTENDS Integers, FiniteSets

CONSTANTS EntityIDs,      \* logical entity ids (ULIDs)
          Identities,     \* identity hashes
          Attributes,     \* attribute payloads
          TombstoneCap,   \* Graph.tombstoneCap
          TombstoneTTL,   \* Graph.tombstoneTTL, 0 for "no time bound"
          None            \* an absent map entry

ASSUME ProjectionAssumption ==
    /\ TombstoneCap \in Nat \ {0}
    /\ TombstoneTTL \in Nat
    /\ IsFiniteSet(EntityIDs)
    /\ None \notin EntityIDs
    /\ None \notin Attributes
    /\ None \notin [identity : Identities, attributes : Attributes]

RelationIDs == EntityIDs \X EntityIDs

Entity == [identity : Identities, attributes : Attributes]

GraphType ==
    [entities       : [EntityIDs -> Entity \cup {None}],
     deleted        : SUBSET EntityIDs,
     relations      : [RelationIDs -> Attributes \cup {None}],
     adjacency      : SUBSET RelationIDs,
     byHash         : [Identities -> EntityIDs \cup {None}],
     byType         : SUBSET EntityIDs,
     tombstones     : SUBSET [pos : Nat, id : EntityIDs],
     liveTombstones : Int,
     tombByHash     : [Identities -> EntityIDs \cup {None}],
     tombDeadline   : [EntityIDs -> Nat]]

EmptyGraph ==
    [entities       |-> [id \in EntityIDs |-> None],
     deleted        |-> {},
     relations      |-> [r \in RelationIDs |-> None],
     adjacency      |-> {},
     byHash         |-> [h \in Identities |-> None],
     byType         |-> {},
     tombstones     |-> {},
     liveTombstones |-> 0,
     tombByHash     |-> [h \in Identities |-> None],
     tombDeadline   |-> [id \in EntityIDs |-> 0]]

-----------------------------------------------------------------------------
(* Events: the qualified events the engine emits.  "updated" stands for      *)
(* entity.attribute_updated and entity.state_changed, which every consumer   *)
(* here treats alike.  entity.identity_changed is never emitted.             *)

EntityEvent(kind, id, e, at) ==
    [kind |-> kind, id |-> id, entity |-> e, recordedAt |-> at]

RelationEvent(kind, r, a) ==
    [kind |-> kind, relation |-> r, attributes |-> a]

-----------------------------------------------------------------------------
(* Reads. *)

IsLive(g, id) == g.entities[id] # None /\ id \notin g.deleted

Live(g) == {id \in EntityIDs : IsLive(g, id)}

MatchIdentity(g, h) ==
    IF g.byHash[h] # None /\ g.byHash[h] \notin g.deleted
    THEN g.byHash[h] ELSE None

MatchTombstone(g, h, now) ==
    LET id == g.tombByHash[h]
        lapsed == TombstoneTTL > 0 /\ g.tombDeadline[id] # 0 /\ now > g.tombDeadline[id]
    IN  IF id # None /\ id \in g.deleted /\ ~lapsed THEN id ELSE None

Touches(r, id) == r[1] = id \/ r[2] = id

-----------------------------------------------------------------------------
(* Writes. *)

putEntity(g, id, e) ==
    LET tombstoned == id \in g.deleted
    IN  [g EXCEPT !.entities[id] = e,
                  !.liveTombstones = IF tombstoned THEN @ - 1 ELSE @,
                  !.tombDeadline[id] = IF tombstoned THEN 0 ELSE @,
                  !.deleted = @ \ {id},
                  !.tombByHash[e.identity] = None,
                  !.byHash[e.identity] = id,
                  !.byType = @ \cup {id}]

(* Mutant: an eviction clears the hash of a newer incarnation. *)
dropTombstoneAnyOwner(g, id) ==
    [g EXCEPT !.tombByHash[g.entities[id].identity] = None,
              !.entities[id] = None,
              !.deleted = @ \ {id},
              !.tombDeadline[id] = 0,
              !.liveTombstones = @ - 1]

dropTombstone(g, id) ==
    LET e == g.entities[id]
    IN  [g EXCEPT !.tombByHash = [h \in Identities |->
                      IF e # None /\ h = e.identity /\ @[h] = id THEN None ELSE @[h]],
                  !.entities[id] = None,
                  !.deleted = @ \ {id},
                  !.tombDeadline[id] = 0,
                  !.liveTombstones = @ - 1]

(* The loop pops stale entries until it has dropped enough tombstones.  One  *)
(* delete adds one tombstone to at most TombstoneCap, so it drops one.       *)
evictTombstones(g) ==
    LET queued == {t \in g.tombstones : t.id \in g.deleted}
        oldest == CHOOSE t \in queued : \A u \in queued : t.pos <= u.pos
    IN  IF g.liveTombstones <= TombstoneCap THEN g
        ELSE IF queued = {} THEN [g EXCEPT !.tombstones = {}]
        ELSE dropTombstone(
                 [g EXCEPT !.tombstones = {t \in @ : t.pos > oldest.pos}], oldest.id)

NextPos(g) ==
    LET last == {t.pos : t \in {u \in g.tombstones :
                                   \A v \in g.tombstones : v.pos <= u.pos}}
    IN  IF last = {} THEN 0 ELSE 1 + (CHOOSE p \in last : TRUE)

deleteEntity(g, id, at) ==
    LET e == g.entities[id]
        unindexed == IF e = None THEN g
                     ELSE [g EXCEPT !.byHash[e.identity] = None,
                                    !.tombByHash[e.identity] = id,
                                    !.byType = @ \ {id}]
    IN  IF id \in g.deleted THEN unindexed
        ELSE evictTombstones(
                 [unindexed EXCEPT
                     !.deleted = @ \cup {id},
                     !.tombstones = @ \cup {[pos |-> NextPos(g), id |-> id]},
                     !.liveTombstones = @ + 1,
                     !.tombDeadline[id] = IF TombstoneTTL > 0 THEN at + TombstoneTTL ELSE @])

applyEntity(g, ev) ==
    CASE ev.kind \in {"created", "updated"} -> putEntity(g, ev.id, ev.entity)
      [] ev.kind = "deleted" -> deleteEntity(g, ev.id, ev.recordedAt)
      [] ev.kind = "unchanged" ->
             IF g.entities[ev.id] = None THEN putEntity(g, ev.id, ev.entity) ELSE g

applyRelation(g, ev) ==
    CASE ev.kind \in {"added", "changed"} ->
             [g EXCEPT !.relations[ev.relation] = ev.attributes,
                       !.adjacency = @ \cup {ev.relation}]
      [] ev.kind = "removed" ->
             [g EXCEPT !.relations[ev.relation] = None,
                       !.adjacency = @ \ {ev.relation}]

(* The effect of several relation events on distinct relations, in any order: *)
(* attrs gives the attributes each one leaves, None for a removal.            *)
applyRelations(g, attrs) ==
    [g EXCEPT !.relations = [r \in RelationIDs |->
                  IF r \in DOMAIN attrs THEN attrs[r] ELSE @[r]],
              !.adjacency = {r \in RelationIDs :
                  IF r \in DOMAIN attrs THEN attrs[r] # None ELSE r \in @}]

Apply(g, ev) ==
    IF ev.kind \in {"added", "changed", "removed"}
    THEN applyRelation(g, ev) ELSE applyEntity(g, ev)

compactTombstones(g) ==
    [g EXCEPT !.tombstones =
        {t \in @ : /\ t.id \in g.deleted
                   /\ \A u \in @ : u.id = t.id => t.pos <= u.pos}]

PruneTombstones(g, now) ==
    LET lapsed == {id \in EntityIDs : g.tombDeadline[id] # 0 /\ now > g.tombDeadline[id]}
        gone == lapsed \cap g.deleted
        pruned == [g EXCEPT
                     !.entities = [id \in EntityIDs |-> IF id \in gone THEN None ELSE @[id]],
                     !.deleted = @ \ gone,
                     !.tombByHash = [h \in Identities |-> IF @[h] \in gone THEN None ELSE @[h]],
                     !.tombDeadline = [id \in EntityIDs |-> IF id \in lapsed THEN 0 ELSE @[id]],
                     !.liveTombstones = @ - Cardinality(gone)]
    IN  IF TombstoneTTL = 0 THEN g
        ELSE IF Cardinality(pruned.tombstones) > 2 * pruned.liveTombstones
        THEN compactTombstones(pruned)
        ELSE pruned

-----------------------------------------------------------------------------
(* What the tombstone cache promises of a graph g. *)

(* The cache is bounded: no more soft-deleted entities than the cap, the       *)
(* counter that drives eviction counts exactly them, and each is queued, so    *)
(* none can escape eviction (evictTombstones, PruneTombstones, putEntity).     *)
TombstonesBoundedIn(g) ==
    /\ g.liveTombstones = Cardinality(g.deleted)
    /\ g.liveTombstones <= TombstoneCap
    /\ \A id \in g.deleted : \E t \in g.tombstones : t.id = id

(* A tombstone stays claimable: while an identity has a soft-deleted entity    *)
(* and no live one, the tombstone index names one of its soft-deleted          *)
(* entities, although newer incarnations, evictions and prunings write it too  *)
(* (tombByHash in applyEntity, putEntity, dropTombstone).                      *)
TombstonesClaimableIn(g) ==
    \A h \in Identities :
        LET dead == {id \in g.deleted : g.entities[id] # None /\ g.entities[id].identity = h}
        IN  /\ g.tombByHash[h] # None => g.tombByHash[h] \in dead
            /\ dead # {} /\ MatchIdentity(g, h) = None => g.tombByHash[h] # None
=============================================================================
