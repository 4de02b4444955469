------------------------------- MODULE Engine -------------------------------
(***************************************************************************)
(* The change engine of one tenant (internal/change/engine.go): it          *)
(* classifies observations against the projection, stages the resulting     *)
(* events in a batch, appends them durably, applies them to the projection, *)
(* and keeps one liveness reference per entity (or edge) and speaker.       *)
(*                                                                          *)
(* The engine's mutex obsMu is held for a whole Batch and a whole Sweep, so *)
(* `mode` says who holds it and only the clock moves meanwhile.  A batch is *)
(* a run of operations between Begin and Flush; a sweep is a run of         *)
(* SweepEntity steps between SweepBegin and SweepEnd, because the order in  *)
(* which Go visits the orphans is arbitrary.                                *)
(*                                                                          *)
(* Abstractions.  staged.events is represented by its effect: `after` is    *)
(* the projection that applying the staged events in order would leave, and *)
(* staged.dirty says that there is at least one.  A flush therefore sets    *)
(* graph to `after`.  The overlay maps of staged are modelled as they are,  *)
(* since every classification reads through them.  No same_as is asserted,  *)
(* so endpoints resolve by exact identity.  The display-name and            *)
(* refused-promise reports, which nothing here reads, are left out.         *)
(***************************************************************************)
EXTENDS Projection

CONSTANTS Producers,          \* service.instance.id of the producing agents
          Scopes,             \* instrumentation scopes (collection methods)
          NoScope,            \* the scope a batch starts with
          Edges,              \* the edges observed, as pairs of identities
          Intervals,          \* heartbeat intervals declared for an entity
          EdgeIntervals,      \* the same for an edge; 0 for an embedded edge
          MaxPromise,         \* maxPlausibleLivenessPromise
          BufferTTL,          \* bufferTTL; 0 disables the reconciliation buffer
          MaxPending,         \* maxPendingRelations
          FailingAppends,     \* which durable appends may fail: "batch", "sweep"
          MaxTime,            \* bound: the clock stops here
          MaxOps,             \* bound: operations per batch
          MaxQueue            \* bound: no batch begins with a longer tombstone queue

ASSUME EngineAssumption ==
    /\ NoScope \in Scopes
    /\ Edges \subseteq Identities \X Identities
    /\ Intervals \subseteq Nat /\ EdgeIntervals \subseteq Nat
    /\ MaxPromise \in Nat /\ BufferTTL \in Nat /\ MaxPending \in Nat \ {0}
    /\ FailingAppends \subseteq {"batch", "sweep"}
    /\ MaxTime \in Nat /\ MaxOps \in Nat /\ MaxQueue \in Nat
    /\ None \notin [deadline : Nat, interval : Nat]

VARIABLES now,      \* the engine's clock
          graph,    \* Engine.graph, the projection
          mode,     \* who holds obsMu: "idle", "batch" or "sweep"
          staged,   \* Engine.staged: the batch's scope and overlay
          after,    \* the projection that applying staged.events would leave
          minted,   \* the entity ids NewEntityID has returned
          refs,     \* Engine.refs: entity -> speaker -> liveRef
          relRefs,  \* Engine.relRefs: relation -> speaker -> liveRef
          pending,  \* Engine.pending, as a set with queue positions
          orphaned, \* the orphans a running Sweep has still to expire
          sweepNow, \* the clock as the running Sweep read it, else 0
          ops       \* operations routed so far by the running batch

vars == <<now, graph, mode, staged, after, minted, refs, relRefs, pending,
          orphaned, sweepNow, ops>>

-----------------------------------------------------------------------------
(* A speaker is a producer and the collection method it speaks through: what *)
(* refKey encodes and splitRefKey reads back.                                *)
Speakers == Producers \X Scopes

LiveRef == [deadline : Nat, interval : Nat]

PendingRelation ==
    [pos : Nat, edge : Edges, attributes : Attributes, producer : Producers,
     interval : EdgeIntervals, deadline : Nat, scope : Scopes]

Staged ==
    [scope      : Scopes,
     dirty      : BOOLEAN,
     entities   : [EntityIDs -> Entity \cup {None}],
     deleted    : SUBSET EntityIDs,
     byHash     : [Identities -> EntityIDs \cup {None}],
     relations  : [RelationIDs -> Attributes \cup {None}],
     relRemoved : SUBSET RelationIDs]

newStaged ==
    [scope      |-> NoScope,
     dirty      |-> FALSE,
     entities   |-> [id \in EntityIDs |-> None],
     deleted    |-> {},
     byHash     |-> [h \in Identities |-> None],
     relations  |-> [r \in RelationIDs |-> None],
     relRemoved |-> {}]

(* staged.apply: the effect of one staged event on the overlay. *)
stagedApply(st, ev) ==
    [CASE ev.kind = "created" ->
              [st EXCEPT !.entities[ev.id] = ev.entity,
                         !.deleted = @ \ {ev.id},
                         !.byHash[ev.entity.identity] = ev.id]
       [] ev.kind = "updated" -> [st EXCEPT !.entities[ev.id] = ev.entity]
       [] ev.kind = "deleted" -> [st EXCEPT !.deleted = @ \cup {ev.id}]
       [] ev.kind = "unchanged" -> st
       [] ev.kind \in {"added", "changed"} ->
              [st EXCEPT !.relations[ev.relation] = ev.attributes,
                         !.relRemoved = @ \ {ev.relation}]
       [] ev.kind = "removed" ->
              [st EXCEPT !.relations[ev.relation] = None,
                         !.relRemoved = @ \cup {ev.relation}]
     EXCEPT !.dirty = TRUE]

(* Mutant: a removal leaves the projection's relation visible in the batch. *)
stagedApplyRelationsNotRemoved(st, attrs) ==
    [st EXCEPT !.relations = [r \in RelationIDs |->
                   IF r \in DOMAIN attrs THEN attrs[r] ELSE @[r]],
               !.dirty = @ \/ DOMAIN attrs # {}]

(* The same for several relation events on distinct relations: attrs gives   *)
(* the attributes each one leaves, None for a removal.                       *)
stagedApplyRelations(st, attrs) ==
    [st EXCEPT !.relations = [r \in RelationIDs |->
                   IF r \in DOMAIN attrs THEN attrs[r] ELSE @[r]],
               !.relRemoved = {r \in RelationIDs :
                   IF r \in DOMAIN attrs THEN attrs[r] = None ELSE r \in @},
               !.dirty = @ \/ DOMAIN attrs # {}]

-----------------------------------------------------------------------------
(* The classification reads: the overlay layered over the projection. *)

(* Mutants: the projection alone answers; a staged delete goes unnoticed. *)
matchIdentityUnstaged(st, h) == MatchIdentity(graph, h)

matchIdentityUndeleted(st, h) ==
    IF st.byHash[h] # None
    THEN IF st.byHash[h] \in st.deleted THEN None ELSE st.byHash[h]
    ELSE MatchIdentity(graph, h)

matchIdentity(st, h) ==
    IF st.byHash[h] # None
    THEN IF st.byHash[h] \in st.deleted THEN None ELSE st.byHash[h]
    ELSE IF MatchIdentity(graph, h) \in st.deleted THEN None
    ELSE MatchIdentity(graph, h)

matchTombstone(st, h) ==
    IF MatchTombstone(graph, h, now) \in st.deleted THEN None
    ELSE MatchTombstone(graph, h, now)

getEntity(st, id) ==
    IF st.entities[id] # None THEN st.entities[id] ELSE graph.entities[id]

getRelation(st, r) ==
    IF r \in st.relRemoved THEN None
    ELSE IF st.relations[r] # None THEN st.relations[r]
    ELSE graph.relations[r]

(* Mutant: a cascade misses the edges staged in its own batch. *)
listRelationsTouchingUnstaged(st, id) ==
    {r \in RelationIDs : Touches(r, id) /\ graph.relations[r] # None /\ r \notin st.relRemoved}

listRelationsTouching(st, id) ==
    {r \in RelationIDs :
        /\ Touches(r, id)
        /\ \/ st.relations[r] # None
           \/ graph.relations[r] # None /\ r \notin st.relRemoved}

(* resolveEndpoints: the relation id an edge resolves to, None when an        *)
(* endpoint is missing (errEndpointMissing).                                  *)
resolveEndpoints(st, edge) ==
    LET from == matchIdentity(st, edge[1])
        to   == matchIdentity(st, edge[2])
    IN  IF from = None \/ to = None THEN None ELSE <<from, to>>

-----------------------------------------------------------------------------
(* Liveness references. *)

zeroRef == [deadline |-> 0, interval |-> 0]

(* A refused promise yields 0: no cadence rather than a false one. *)
promise(declared) == IF declared <= MaxPromise THEN declared ELSE 0

armedRef(declared) ==
    IF promise(declared) > 0
    THEN [deadline |-> now + promise(declared), interval |-> promise(declared)]
    ELSE zeroRef

inheritedRef(rf, from, speaker) ==
    IF rf[from][speaker] # None THEN rf[from][speaker] ELSE zeroRef

(* The reference observeRelationLocked writes: its own promise, else the      *)
(* deadline its speaker holds on the edge's source in rf.                     *)
edgeRef(rf, r, speaker, declared) ==
    IF promise(declared) > 0 THEN armedRef(declared)
    ELSE inheritedRef(rf, r[1], speaker)

lapsed(ref, at) == ref # None /\ ref.deadline # 0 /\ at > ref.deadline

(* releaseSpeaker (no reference is legacy here). *)
releaseSpeaker(speakers, speaker) == [speakers EXCEPT ![speaker] = None]

noSpeakers == [s \in Speakers |-> None]

dropLapsed(speakers, at) ==
    [s \in Speakers |-> IF lapsed(speakers[s], at) THEN None ELSE speakers[s]]

-----------------------------------------------------------------------------
(* The out-of-order reconciliation buffer. *)

(* Mutant: only the source endpoint is waited on. *)
pendingHashesFrom == {p.edge[1] : p \in pending}

(* rebuildPendingHashes keeps this set up to date with pending. *)
pendingHashes == {p.edge[1] : p \in pending} \cup {p.edge[2] : p \in pending}

firstOf(S) == CHOOSE p \in S : \A q \in S : p.pos <= q.pos

lastOf(S) == CHOOSE p \in S : \A q \in S : q.pos <= p.pos

(* Mutant: an edge still missing an endpoint is not put back. *)
flushPendingForgets(st, g, rf) ==
    LET ready == {p \in pending : ~(now > p.deadline) /\ resolveEndpoints(st, p.edge) # None}
        attrs == [r \in {resolveEndpoints(st, p.edge) : p \in ready} |->
                     lastOf({p \in ready : resolveEndpoints(st, p.edge) = r}).attributes]
    IN  /\ relRefs' = [r \in RelationIDs |-> [s \in Speakers |->
                          IF \E p \in ready : /\ resolveEndpoints(st, p.edge) = r
                                              /\ <<p.producer, p.scope>> = s
                          THEN edgeRef(rf, r, s, 0) ELSE relRefs[r][s]]]
        /\ staged' = stagedApplyRelations(st, attrs)
        /\ after' = applyRelations(g, attrs)
        /\ pending' = {}

(* flushPending, from the overlay st, the staged projection g and the          *)
(* references rf that the entity observation leaves.  The parked edges are     *)
(* retried in order, so of two on one relation the last one's attributes, and  *)
(* the last reference of each speaker, remain.                                 *)
flushPending(st, g, rf) ==
    LET expired == {p \in pending : now > p.deadline}
        ready == {p \in pending \ expired : resolveEndpoints(st, p.edge) # None}
        on(r) == {p \in ready : resolveEndpoints(st, p.edge) = r}
        by(r, s) == {p \in on(r) : <<p.producer, p.scope>> = s}
        written == {r \in RelationIDs :
                      /\ on(r) # {}
                      /\ getRelation(st, r) # lastOf(on(r)).attributes}
        attrs == [r \in written |-> lastOf(on(r)).attributes]
    IN  /\ relRefs' = [r \in RelationIDs |-> [s \in Speakers |->
                          IF by(r, s) = {} THEN relRefs[r][s]
                          ELSE edgeRef(rf, r, s, lastOf(by(r, s)).interval)]]
        /\ staged' = stagedApplyRelations(st, attrs)
        /\ after' = applyRelations(g, attrs)
        /\ pending' = pending \ (expired \cup ready)

park(edge, a, producer, interval, sourceInterval) ==
    LET kept == IF Cardinality(pending) >= MaxPending
                THEN pending \ {firstOf(pending)} ELSE pending
        hold == IF sourceInterval > BufferTTL THEN sourceInterval ELSE BufferTTL
        pos  == IF kept = {} THEN 0 ELSE lastOf(kept).pos + 1
    IN  pending' = kept \cup
            {[pos |-> pos, edge |-> edge, attributes |-> a, producer |-> producer,
              interval |-> interval, deadline |-> now + hold, scope |-> staged.scope]}

-----------------------------------------------------------------------------
Init ==
    /\ now = 1
    /\ graph = EmptyGraph
    /\ mode = "idle"
    /\ staged = newStaged
    /\ after = EmptyGraph
    /\ minted = {}
    /\ refs = [id \in EntityIDs |-> noSpeakers]
    /\ relRefs = [r \in RelationIDs |-> noSpeakers]
    /\ pending = {}
    /\ orphaned = {}
    /\ sweepNow = 0
    /\ ops = 0

(* Engine.Batch takes obsMu and installs an empty staged slot. *)
Begin ==
    /\ mode = "idle"
    /\ NextPos(graph) <= MaxQueue
    /\ mode' = "batch"
    /\ UNCHANGED <<now, graph, staged, after, minted, refs, relRefs, pending,
                   orphaned, sweepNow, ops>>

(* An operation of the running batch. *)
Routing ==
    /\ mode = "batch"
    /\ ops < MaxOps
    /\ ops' = ops + 1

SetScope(scope) ==
    /\ Routing
    /\ staged' = [staged EXCEPT !.scope = scope]
    /\ UNCHANGED <<now, graph, mode, after, minted, refs, relRefs, pending,
                   orphaned, sweepNow>>

(* The ids an observation of h may be recorded under: the matched entity, a    *)
(* tombstone within its grace window, or a fresh ULID.                         *)
observedIDs(h) ==
    CASE matchIdentity(staged, h) # None -> {matchIdentity(staged, h)}
      [] matchIdentity(staged, h) = None /\ matchTombstone(staged, h) # None ->
             {matchTombstone(staged, h)}
      [] OTHER -> EntityIDs \ minted

ObserveEntity(producer, h, a, interval) ==
    /\ Routing
    /\ \E id \in observedIDs(h) :
         LET kind == IF matchIdentity(staged, h) = None THEN "created"
                     ELSE IF getEntity(staged, id).attributes = a THEN "unchanged"
                     ELSE "updated"
             ev == EntityEvent(kind, id, [identity |-> h, attributes |-> a], now)
             st == stagedApply(staged, ev)
             g  == Apply(after, ev)
             rf == [refs EXCEPT ![id][<<producer, staged.scope>>] = armedRef(interval)]
         IN  /\ minted' = minted \cup {id}
             /\ refs' = rf
             /\ IF h \in pendingHashes THEN flushPending(st, g, rf)
                ELSE /\ staged' = st
                     /\ after' = g
                     /\ UNCHANGED <<relRefs, pending>>
    /\ UNCHANGED <<now, graph, mode, orphaned, sweepNow>>

(* The entity.deleted event of id and, through removeIncidentRelations, the    *)
(* relation.removed of every edge touching it.                                 *)
deleteCascade(id, e, at) ==
    LET ev == EntityEvent("deleted", id, e, at)
        incident == listRelationsTouching(stagedApply(staged, ev), id)
        removals == [r \in incident |-> None]
    IN  /\ staged' = stagedApplyRelations(stagedApply(staged, ev), removals)
        /\ after' = applyRelations(Apply(after, ev), removals)
        /\ relRefs' = [r \in RelationIDs |->
                          IF r \in incident THEN noSpeakers ELSE relRefs[r]]

(* Mutant: one speaker's delete removes the entity whoever else claims it. *)
DeleteEntityOutright(producer, h) ==
    LET id == matchIdentity(staged, h)
    IN  /\ Routing
        /\ IF id = None THEN UNCHANGED <<staged, after, refs, relRefs>>
           ELSE /\ refs' = [refs EXCEPT ![id] = noSpeakers]
                /\ deleteCascade(id, getEntity(staged, id), now)
        /\ UNCHANGED <<now, graph, mode, minted, pending, orphaned, sweepNow>>

DeleteEntity(producer, h) ==
    LET id == matchIdentity(staged, h)
        left == releaseSpeaker(refs[id], <<producer, staged.scope>>)
    IN  /\ Routing
        /\ IF id = None THEN UNCHANGED <<staged, after, refs, relRefs>>
           ELSE /\ refs' = [refs EXCEPT ![id] = left]
                /\ IF left # noSpeakers THEN UNCHANGED <<staged, after, relRefs>>
                   ELSE deleteCascade(id, getEntity(staged, id), now)
        /\ UNCHANGED <<now, graph, mode, minted, pending, orphaned, sweepNow>>

ObserveRelation(producer, edge, a, interval, sourceInterval) ==
    LET r == resolveEndpoints(staged, edge)
        speaker == <<producer, staged.scope>>
        ev == RelationEvent(IF getRelation(staged, r) = None THEN "added" ELSE "changed", r, a)
    IN  /\ Routing
        /\ IF r # None
           THEN /\ relRefs' = [relRefs EXCEPT ![r][speaker] =
                                  edgeRef(refs, r, speaker, interval)]
                /\ IF getRelation(staged, r) = a THEN UNCHANGED <<staged, after>>
                   ELSE /\ staged' = stagedApply(staged, ev)
                        /\ after' = Apply(after, ev)
                /\ UNCHANGED pending
           ELSE /\ IF BufferTTL > 0 THEN park(edge, a, producer, interval, sourceInterval)
                   ELSE UNCHANGED pending
                /\ UNCHANGED <<staged, after, relRefs>>
        /\ UNCHANGED <<now, graph, mode, minted, refs, orphaned, sweepNow>>

(* Mutant: one speaker's removal removes the edge whoever else claims it. *)
RemoveRelationOutright(producer, edge) ==
    LET r == resolveEndpoints(staged, edge)
        ev == RelationEvent("removed", r, None)
    IN  /\ Routing
        /\ IF r = None THEN UNCHANGED <<staged, after, relRefs>>
           ELSE /\ relRefs' = [relRefs EXCEPT ![r] = noSpeakers]
                /\ IF getRelation(staged, r) = None THEN UNCHANGED <<staged, after>>
                   ELSE /\ staged' = stagedApply(staged, ev)
                        /\ after' = Apply(after, ev)
        /\ UNCHANGED <<now, graph, mode, minted, refs, pending, orphaned, sweepNow>>

RemoveRelation(producer, edge) ==
    LET r == resolveEndpoints(staged, edge)
        left == releaseSpeaker(relRefs[r], <<producer, staged.scope>>)
        ev == RelationEvent("removed", r, None)
    IN  /\ Routing
        /\ IF r = None THEN UNCHANGED <<staged, after, relRefs>>
           ELSE /\ relRefs' = [relRefs EXCEPT ![r] = left]
                /\ IF left # noSpeakers \/ getRelation(staged, r) = None
                   THEN UNCHANGED <<staged, after>>
                   ELSE /\ staged' = stagedApply(staged, ev)
                        /\ after' = Apply(after, ev)
        /\ UNCHANGED <<now, graph, mode, minted, refs, pending, orphaned, sweepNow>>

(* flushStaged on success: the events are durable, then applied in order. *)
Flush ==
    /\ mode = "batch"
    /\ mode' = "idle"
    /\ graph' = after
    /\ staged' = newStaged
    /\ ops' = 0
    /\ UNCHANGED <<now, after, minted, refs, relRefs, pending, orphaned, sweepNow>>

(* flushStaged when the append fails: the projection keeps matching the log    *)
(* and the bookkeeping the batch touched is not rolled back.                   *)
FlushFail ==
    /\ "batch" \in FailingAppends
    /\ mode = "batch" /\ staged.dirty
    /\ mode' = "idle"
    /\ after' = graph
    /\ staged' = newStaged
    /\ ops' = 0
    /\ UNCHANGED <<now, graph, minted, refs, relRefs, pending, orphaned, sweepNow>>

(* Mutant: the orphans are looked up before the lapsed references go. *)
SweepBeginStale ==
    /\ mode = "idle"
    /\ mode' = "sweep"
    /\ sweepNow' = now
    /\ refs' = [id \in EntityIDs |-> dropLapsed(refs[id], now)]
    /\ orphaned' = {}
    /\ UNCHANGED <<now, graph, staged, after, minted, relRefs, pending, ops>>

(* Sweep up to the list of orphans: every lapsed reference is dropped. *)
SweepBegin ==
    /\ mode = "idle"
    /\ mode' = "sweep"
    /\ sweepNow' = now
    /\ refs' = [id \in EntityIDs |-> dropLapsed(refs[id], now)]
    /\ orphaned' = {id \in EntityIDs : refs[id] # noSpeakers /\ refs'[id] = noSpeakers}
    /\ UNCHANGED <<now, graph, staged, after, minted, relRefs, pending, ops>>

SweepEntity(id) ==
    /\ mode = "sweep"
    /\ id \in orphaned
    /\ orphaned' = orphaned \ {id}
    /\ IF IsLive(graph, id) THEN deleteCascade(id, graph.entities[id], sweepNow)
       ELSE UNCHANGED <<staged, after, relRefs>>
    /\ UNCHANGED <<now, graph, mode, minted, refs, pending, sweepNow, ops>>

(* Mutant: a lapsed edge loses its references and stays in the projection. *)
SweepEndKeepsEdges(appended) ==
    /\ mode = "sweep" /\ orphaned = {} /\ appended
    /\ mode' = "idle"
    /\ pending' = {p \in pending : ~(sweepNow > p.deadline)}
    /\ relRefs' = [r \in RelationIDs |-> dropLapsed(relRefs[r], sweepNow)]
    /\ graph' = PruneTombstones(after, now)
    /\ after' = graph'
    /\ staged' = newStaged
    /\ sweepNow' = 0
    /\ UNCHANGED <<now, minted, refs, orphaned, ops>>

(* The rest of Sweep: parked edges past their deadline, edges whose last       *)
(* reference lapsed, the flush, and the tombstones past their grace window.    *)
SweepEnd(appended) ==
    LET left == [r \in RelationIDs |-> dropLapsed(relRefs[r], sweepNow)]
        expired == {r \in RelationIDs : /\ relRefs[r] # noSpeakers
                                        /\ left[r] = noSpeakers
                                        /\ graph.relations[r] # None}
        flushed == applyRelations(after, [r \in expired |-> None])
    IN  /\ mode = "sweep" /\ orphaned = {}
        /\ appended \/ ("sweep" \in FailingAppends /\ (staged.dirty \/ expired # {}))
        /\ mode' = "idle"
        /\ pending' = {p \in pending : ~(sweepNow > p.deadline)}
        /\ relRefs' = left
        /\ graph' = PruneTombstones(IF appended THEN flushed ELSE graph, now)
        /\ after' = graph'
        /\ staged' = newStaged
        /\ sweepNow' = 0
        /\ UNCHANGED <<now, minted, refs, orphaned, ops>>

Tick ==
    /\ now < MaxTime
    /\ now' = now + 1
    /\ UNCHANGED <<graph, mode, staged, after, minted, refs, relRefs, pending,
                   orphaned, sweepNow, ops>>

Operation ==
    \/ \E scope \in Scopes : SetScope(scope)
    \/ \E p \in Producers, h \in Identities, a \in Attributes, i \in Intervals :
          ObserveEntity(p, h, a, i)
    \/ \E p \in Producers, h \in Identities : DeleteEntity(p, h)
    \/ \E p \in Producers, edge \in Edges, a \in Attributes, i \in EdgeIntervals,
         j \in Intervals : ObserveRelation(p, edge, a, i, j)
    \/ \E p \in Producers, edge \in Edges : RemoveRelation(p, edge)

Next ==
    \/ Begin \/ Operation \/ Flush \/ FlushFail
    \/ SweepBegin
    \/ \E id \in EntityIDs : SweepEntity(id)
    \/ \E appended \in BOOLEAN : SweepEnd(appended)
    \/ Tick

Spec == Init /\ [][Next]_vars

-----------------------------------------------------------------------------
(* What a reader of the projection sees of an identity and of an edge. *)

EntityPresent(h) == MatchIdentity(graph, h) # None

EdgePresent(edge) ==
    /\ EntityPresent(edge[1]) /\ EntityPresent(edge[2])
    /\ graph.relations[<<MatchIdentity(graph, edge[1]),
                          MatchIdentity(graph, edge[2])>>] # None

-----------------------------------------------------------------------------
(* The type invariant. *)
TypeOK ==
    /\ now \in Nat /\ sweepNow \in Nat /\ ops \in Nat
    /\ mode \in {"idle", "batch", "sweep"}
    /\ graph \in GraphType
    /\ after \in GraphType
    /\ staged \in Staged
    /\ minted \subseteq EntityIDs /\ orphaned \subseteq EntityIDs
    /\ refs \in [EntityIDs -> [Speakers -> LiveRef \cup {None}]]
    /\ relRefs \in [RelationIDs -> [Speakers -> LiveRef \cup {None}]]
    /\ pending \subseteq PendingRelation

(* staged.apply mirrors Graph.Apply: every classification read through the     *)
(* overlay answers what the projection will answer once the staged events are  *)
(* applied (engine.go: matchIdentity, getEntity, getRelation,                  *)
(* listRelationsTouching).                                                     *)
OverlayMirrorsApply ==
    /\ \A h \in Identities : matchIdentity(staged, h) = MatchIdentity(after, h)
    /\ \A id \in Live(after) : getEntity(staged, id) = after.entities[id]
    /\ \A r \in RelationIDs : getRelation(staged, r) = after.relations[r]
    /\ \A id \in EntityIDs : listRelationsTouching(staged, id) =
                               {r \in after.adjacency : Touches(r, id)}

(* A deleted node takes its edges with it: between batches and sweeps no edge   *)
(* of the projection has a missing or deleted endpoint                          *)
(* (removeIncidentRelations, on the delete and on the expiry path).             *)
EdgesHaveLiveEndpoints ==
    \A r \in RelationIDs :
        graph.relations[r] # None => IsLive(graph, r[1]) /\ IsLive(graph, r[2])

(* One identity, one live entity, and the identity index finds exactly it:      *)
(* observations of one identity never fork into two live entities, whatever     *)
(* batches fail and whatever tombstones are revived.                            *)
OneLiveEntityPerIdentity ==
    \A id \in EntityIDs, h \in Identities :
        MatchIdentity(graph, h) = id <=>
            IsLive(graph, id) /\ graph.entities[id].identity = h

(* An entity or edge of the projection always has a reference that some         *)
(* retraction or some lapse can release: nothing is immortal by accident.       *)
(* Only while no append fails.                                                  *)
LiveIsReferenced ==
    mode # "sweep" =>
        /\ \A id \in Live(after) : refs[id] # noSpeakers
        /\ \A r \in RelationIDs : after.relations[r] # None => relRefs[r] # noSpeakers

(* No wakeup is lost: an edge whose two endpoints are present is never left     *)
(* parked, although only observations of a waited-on identity retry the buffer. *)
(* Only while no append fails.                                                  *)
NoReadyEdgeParked ==
    \A p \in pending : resolveEndpoints(staged, p.edge) = None

(* A deleted identity stays claimable by its tombstone, so that a resurrection  *)
(* keeps the logical id, while the cache of tombstones stays bounded, counted   *)
(* and evictable, under batches, failed flushes and sweeps (engine.go:          *)
(* matchTombstone; graph.go: tombByHash, liveTombstones, tombstoneCap).         *)
TombstonesClaimable == TombstonesClaimableIn(graph) /\ TombstonesBoundedIn(graph)

-----------------------------------------------------------------------------
(* Liveness.  main.go drives Sweep from a ticker, a batch always reaches its    *)
(* flush, and Go's mutex does not starve a waiter, so a sweep begins infinitely *)
(* often although batches compete with it for obsMu.  An append may fail, but   *)
(* not in every sweep.                                                          *)
Fairness ==
    /\ WF_vars(Flush)
    /\ SF_vars(SweepBegin)
    /\ WF_vars(\E id \in EntityIDs : SweepEntity(id))
    /\ SF_vars(SweepEnd(TRUE))

FairSpec == Spec /\ Fairness

(* Every speaker of the live entity id has gone silent. *)
Silent(id) ==
    /\ IsLive(graph, id)
    /\ \A s \in Speakers : refs[id][s] = None \/ lapsed(refs[id][s], now)

(* The liveness backstop: an entity all of whose speakers went silent does not  *)
(* stay silently live; it expires or is observed again (Sweep).                 *)
SilentEntityExpires == \A id \in EntityIDs : Silent(id) ~> ~Silent(id)
=============================================================================
