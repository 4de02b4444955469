-------------------------- MODULE OperationProofs ---------------------------
(***************************************************************************)
(* The inductive invariant of the change engine, and that each operation a  *)
(* batch may hold keeps it.                                                 *)
(***************************************************************************)
EXTENDS BatchProofs

(* The inductive invariant. *)
IInv ==
    /\ TypeOK
    /\ Good(staged, after, minted)
    /\ EdgesLive(graph)
    /\ EdgesLive(after)
    /\ PendingBounded
    /\ mode = "idle" => after = graph
    /\ mode = "sweep" => \A id \in orphaned : IsLive(graph, id) => IsLive(after, id)

-----------------------------------------------------------------------------
(* The initial state. *)
LEMMA InitIInv == Init => IInv
  <1> SUFFICES ASSUME Init PROVE IInv
    OBVIOUS
  <1>1. Consistent(EmptyGraph) /\ EdgesLive(EmptyGraph)
    BY EmptyGraphConsistent
  <1>2. Good(staged, after, minted)
    <2>1. \A id \in EntityIDs : EmptyGraph.entities[id] = None
      BY DEF EmptyGraph
    <2>2. Good(newStaged, EmptyGraph, {})
      BY <1>1, <2>1, FreshGood DEF Init
    <2> QED BY <2>2 DEF Init
  <1>3. TypeOK
    BY <1>1, <1>2 DEF Init, TypeOK, Good, Consistent, noSpeakers
  <1>4. PendingBounded
    BY DEF Init, PendingBounded
  <1> QED BY <1>1, <1>2, <1>3, <1>4 DEF Init, IInv

(* A step that leaves the projection alone keeps the invariant when it keeps   *)
(* the parts it may disturb.                                                   *)
LEMMA StepIInv ==
    ASSUME IInv, graph' = graph, TypeOK', Good(staged', after', minted'),
           EdgesLive(after'), PendingBounded', mode' # "idle",
           mode' = "sweep" => \A id \in orphaned' : IsLive(graph, id) => IsLive(after', id)
    PROVE  IInv'
  <1>1. Good(staged, after, minted)'
    BY GoodPrime
  <1>2. EdgesLive(graph)' /\ EdgesLive(after)'
    BY DEF IInv, EdgesLive, IsLive
  <1>3. (mode = "sweep" => \A id \in orphaned : IsLive(graph, id) => IsLive(after, id))'
    BY DEF IsLive
  <1> QED BY <1>1, <1>2, <1>3 DEF IInv

(* A step that ends with an empty overlay over a new projection. *)
LEMMA FreshIInv ==
    ASSUME IInv, TypeOK', staged' = newStaged, Consistent(graph'), EdgesLive(graph'),
           \A id \in EntityIDs : graph'.entities[id] # None => id \in minted',
           after' = graph', PendingBounded', mode' = "idle"
    PROVE  IInv'
  <1>1. Overlay(newStaged, graph)'
    BY DEF Overlay, newStaged, matchIdentity, getEntity, getRelation, MatchIdentity
  <1>2. Good(staged, after, minted)'
    BY <1>1, Zenon DEF Good, SameIdentities, OnlyMinted, newStaged, Overlay, TypeOK, Consistent
  <1> QED BY <1>2 DEF IInv, EdgesLive

-----------------------------------------------------------------------------
(* One lemma per action: it keeps the inductive invariant. *)

(* Begin. *)
LEMMA BeginStep == IInv /\ Begin => IInv'
  <1> SUFFICES ASSUME IInv, Begin PROVE IInv'
    OBVIOUS
  <1>1. TypeOK' /\ PendingBounded'
    BY Zenon DEF IInv, Begin, TypeOK, PendingBounded
  <1> QED BY <1>1, StepIInv DEF IInv, Begin

(* SetScope. *)
LEMMA SetScopeStep ==
    ASSUME IInv, NEW scope \in Scopes, SetScope(scope)
    PROVE  IInv'
  <1>1. /\ staged' \in Staged
        /\ staged'.entities = staged.entities /\ staged'.deleted = staged.deleted
        /\ staged'.byHash = staged.byHash
        /\ staged'.relations = staged.relations /\ staged'.relRemoved = staged.relRemoved
    BY DEF IInv, TypeOK, SetScope, Staged
  <1>2. TypeOK' /\ PendingBounded' /\ mode' = "batch"
    BY <1>1 DEF IInv, SetScope, Routing, TypeOK, PendingBounded
  <1>3. after' = after /\ minted' = minted /\ graph' = graph
    BY DEF SetScope
  <1>4. Good(staged', after', minted')
    <2>1. Overlay(staged', after)
      BY <1>1, SMTT(40) DEF IInv, Good, Overlay, matchIdentity, getEntity, getRelation
    <2>2. OnlyMinted(staged', after, minted)
      BY <1>1 DEF IInv, Good, OnlyMinted
    <2> QED BY <1>1, <1>3, <2>1, <2>2 DEF IInv, Good
  <1> QED BY <1>2, <1>3, <1>4, StepIInv DEF IInv

(* ObserveEntity, with the retry of the parked edges it may trigger. *)
LEMMA ObserveEntityStep ==
    ASSUME IInv, NEW producer \in Producers, NEW h \in Identities, NEW a \in Attributes,
           NEW interval \in Intervals, ObserveEntity(producer, h, a, interval)
    PROVE  IInv'
  <1> DEFINE e        == [identity |-> h, attributes |-> a]
             kind(id) == IF matchIdentity(staged, h) = None THEN "created"
                         ELSE IF getEntity(staged, id).attributes = a THEN "unchanged"
                         ELSE "updated"
             ev(id)   == EntityEvent(kind(id), id, e, now)
             st(id)   == stagedApply(staged, ev(id))
             g(id)    == Apply(after, ev(id))
             rf(id)   == [refs EXCEPT ![id][<<producer, staged.scope>>] = armedRef(interval)]
  <1>1. PICK id \in observedIDs(h) :
          /\ minted' = minted \cup {id}
          /\ refs' = rf(id)
          /\ IF h \in pendingHashes THEN flushPending(st(id), g(id), rf(id))
             ELSE staged' = st(id) /\ after' = g(id) /\ UNCHANGED <<relRefs, pending>>
    BY Zenon DEF ObserveEntity
  <1>2. /\ UNCHANGED <<now, graph, mode, orphaned, sweepNow>>
        /\ mode = "batch" /\ ops' = ops + 1
    BY Zenon DEF ObserveEntity, Routing
  <1>3. Good(staged, after, minted) /\ EdgesLive(after) /\ TypeOK /\ PendingBounded
    BY DEF IInv
  <1>4. matchIdentity(staged, h) \in EntityIDs \cup {None}
    BY <1>3, MatchIdentityType DEF Good, Overlay, Consistent
  <1>5. matchTombstone(staged, h) \in EntityIDs \cup {None}
    BY <1>3 DEF matchTombstone, MatchTombstone, Good, Consistent, GraphType
  <1>6. /\ id \in EntityIDs
        /\ matchIdentity(staged, h) = None =>
              id \notin minted \/ matchTombstone(staged, h) = id
        /\ matchIdentity(staged, h) # None => matchIdentity(staged, h) = id
    BY <1>1, <1>4, <1>5 DEF observedIDs
  <1>7. /\ Good(st(id), g(id), minted \cup {id})
        /\ g(id).relations = after.relations
        /\ \A x \in EntityIDs : IsLive(after, x) => IsLive(g(id), x)
    <2>1. CASE matchIdentity(staged, h) = None
      <3>1. kind(id) = "created"
        BY <2>1
      <3> HIDE DEF kind
      <3> QED BY <1>3, <1>6, <2>1, <3>1, CreateGood, SMTT(40)
    <2>2. CASE matchIdentity(staged, h) # None
      <3>1. kind(id) \in {"unchanged", "updated"}
        BY <2>2
      <3> HIDE DEF kind
      <3>2. CASE kind(id) = "unchanged"
        BY <1>3, <1>6, <2>2, <3>2, UnchangedGood, SMTT(40)
      <3>3. CASE kind(id) = "updated"
        BY <1>3, <1>6, <2>2, <3>3, UpdateGood, SMTT(40)
      <3> QED BY <3>1, <3>2, <3>3
    <2> QED BY <2>1, <2>2
  <1> HIDE DEF st, g, ev, kind, e
  <1>8. EdgesLive(g(id))
    BY <1>3, <1>7 DEF EdgesLive, RelationIDs
  <1>9. refs \in RefsType(EntityIDs) /\ relRefs \in RefsType(RelationIDs)
    BY <1>3 DEF TypeOK, RefsType
  <1>10. rf(id) \in RefsType(EntityIDs)
    <2>1. armedRef(interval) \in LiveRef
      BY <1>3, ArmedRefType, EngineAssumption DEF TypeOK
    <2> QED BY <1>9, <2>1, Zenon DEF RefsType
  <1> HIDE DEF rf
  <1>11. /\ Good(staged', after', minted')
         /\ EdgesLive(after')
         /\ relRefs' \in RefsType(RelationIDs)
         /\ pending' \subseteq pending
    <2>1. CASE h \in pendingHashes
      <3>1. now \in Nat /\ pending \subseteq PendingRelation /\ PendingBounded
        BY <1>3 DEF TypeOK
      <3>2. flushPending(st(id), g(id), rf(id))
        BY <1>1, <2>1
      <3>3. /\ Good(staged', after', minted \cup {id})
            /\ EdgesLive(after')
            /\ relRefs' \in RefsType(RelationIDs)
            /\ pending' \subseteq pending
        BY <1>7, <1>8, <1>9, <1>10, <3>1, <3>2, FlushPendingGood
      <3> QED BY <1>1, <3>3
    <2>2. CASE h \notin pendingHashes
      BY <1>1, <1>7, <1>8, <1>9, <2>2
    <2> QED BY <2>1, <2>2
  <1>12. TypeOK' /\ PendingBounded'
    <2>1. after' \in GraphType /\ staged' \in Staged
      BY <1>11 DEF Good, Consistent
    <2>2. refs' \in RefsType(EntityIDs)
      BY <1>1, <1>10
    <2>3. minted' \subseteq EntityIDs /\ pending' \subseteq PendingRelation
      BY <1>1, <1>3, <1>6, <1>11 DEF TypeOK
    <2>4. ops' \in Nat
      BY <1>2, <1>3 DEF TypeOK
    <2>5. TypeOK'
      BY <1>2, <1>3, <1>11, <2>1, <2>2, <2>3, <2>4 DEF TypeOK, RefsType
    <2>6. PendingBounded'
      BY <1>3, <1>11 DEF PendingBounded
    <2> QED BY <2>5, <2>6
  <1> QED BY <1>2, <1>11, <1>12, StepIInv

(* DeleteEntity. *)
LEMMA DeleteEntityStep ==
    ASSUME IInv, NEW producer \in Producers, NEW h \in Identities,
           DeleteEntity(producer, h)
    PROVE  IInv'
  <1> DEFINE id   == matchIdentity(staged, h)
             left == releaseSpeaker(refs[id], <<producer, staged.scope>>)
  <1>1. /\ IF id = None THEN UNCHANGED <<staged, after, refs, relRefs>>
           ELSE /\ refs' = [refs EXCEPT ![id] = left]
                /\ IF left # noSpeakers THEN UNCHANGED <<staged, after, relRefs>>
                   ELSE deleteCascade(id, getEntity(staged, id), now)
        /\ UNCHANGED <<now, graph, mode, minted, pending, orphaned, sweepNow>>
        /\ mode = "batch" /\ ops' = ops + 1
    BY Zenon DEF DeleteEntity, Routing
  <1>2. Good(staged, after, minted) /\ EdgesLive(after) /\ TypeOK /\ PendingBounded
    BY DEF IInv
  <1>3. refs \in RefsType(EntityIDs) /\ relRefs \in RefsType(RelationIDs) /\ now \in Nat
    BY <1>2 DEF TypeOK, RefsType
  <1>4. id = MatchIdentity(after, h) /\ id \in EntityIDs \cup {None}
    BY <1>2, MatchIdentityType DEF Good, Overlay, Consistent
  <1> HIDE DEF id
  <1>5. /\ Good(staged', after', minted)
        /\ EdgesLive(after')
        /\ relRefs' \in RefsType(RelationIDs)
        /\ refs' \in RefsType(EntityIDs)
    <2>1. CASE id = None
      BY <1>1, <1>2, <1>3, <2>1
    <2>2. CASE id # None
      <3>1. id \in EntityIDs /\ IsLive(after, id)
        BY <1>2, <1>4, <2>2, MatchIdentityExact DEF Good
      <3>2. left \in [Speakers -> LiveRef \cup {None}]
        BY <1>3, <3>1, Zenon DEF releaseSpeaker, RefsType
      <3> HIDE DEF left
      <3>3. refs' \in RefsType(EntityIDs)
        BY <1>1, <1>3, <2>2, <3>2 DEF RefsType
      <3>4. CASE left # noSpeakers
        BY <1>1, <1>2, <1>3, <2>2, <3>3, <3>4
      <3>5. CASE left = noSpeakers
        <4>1. deleteCascade(id, getEntity(staged, id), now)
          BY <1>1, <2>2, <3>5
        <4> QED BY <1>2, <1>3, <3>1, <3>3, <4>1, CascadeGood
      <3> QED BY <3>4, <3>5
    <2> QED BY <2>1, <2>2
  <1>6. TypeOK'
    <2>1. after' \in GraphType /\ staged' \in Staged
      BY <1>5 DEF Good, Consistent
    <2>2. ops' \in Nat
      BY <1>1, <1>2, SMTT(40) DEF TypeOK
    <2> QED BY <1>1, <1>2, <1>5, <2>1, <2>2 DEF TypeOK, RefsType
  <1>7. PendingBounded' /\ minted' = minted /\ graph' = graph /\ mode' = "batch"
    BY <1>1, <1>2 DEF PendingBounded
  <1> QED BY <1>5, <1>6, <1>7, StepIInv

(* The projection and overlay after at most one relation event between live    *)
(* endpoints, or a removal.                                                    *)
LEMMA RelationEventLive ==
    ASSUME NEW st, NEW g, NEW m, Good(st, g, m), EdgesLive(g), NEW r \in RelationIDs,
           NEW kind, NEW a,
           \/ /\ kind \in {"added", "changed"} /\ a \in Attributes
              /\ IsLive(g, r[1]) /\ IsLive(g, r[2])
           \/ kind = "removed" /\ a = None
    PROVE  LET ev == RelationEvent(kind, r, a)
           IN  Good(stagedApply(st, ev), Apply(g, ev), m) /\ EdgesLive(Apply(g, ev))
  <1> DEFINE p == Apply(g, RelationEvent(kind, r, a))
             s == stagedApply(st, RelationEvent(kind, r, a))
  <1>1. /\ Good(s, p, m)
        /\ \A x \in RelationIDs : p.relations[x] = IF x = r THEN a ELSE g.relations[x]
        /\ \A x \in EntityIDs : IsLive(p, x) <=> IsLive(g, x)
    BY RelationEventGood
  <1> HIDE DEF p, s
  <1>2. EdgesLive(p)
    BY <1>1 DEF EdgesLive, RelationIDs
  <1> QED BY <1>1, <1>2 DEF p, s

(* ObserveRelation, with the parking of an edge that lacks an endpoint. *)
LEMMA ObserveRelationStep ==
    ASSUME IInv, NEW producer \in Producers, NEW edge \in Edges, NEW a \in Attributes,
           NEW interval \in EdgeIntervals, NEW source \in Intervals,
           ObserveRelation(producer, edge, a, interval, source)
    PROVE  IInv'
  <1> DEFINE r       == resolveEndpoints(staged, edge)
             speaker == <<producer, staged.scope>>
             kind    == IF getRelation(staged, r) = None THEN "added" ELSE "changed"
             ev      == RelationEvent(kind, r, a)
  <1>1. /\ IF r # None
           THEN /\ relRefs' = [relRefs EXCEPT ![r][speaker] =
                                  edgeRef(refs, r, speaker, interval)]
                /\ IF getRelation(staged, r) = a THEN UNCHANGED <<staged, after>>
                   ELSE staged' = stagedApply(staged, ev) /\ after' = Apply(after, ev)
                /\ UNCHANGED pending
           ELSE /\ IF BufferTTL > 0 THEN park(edge, a, producer, interval, source)
                   ELSE UNCHANGED pending
                /\ UNCHANGED <<staged, after, relRefs>>
        /\ UNCHANGED <<now, graph, mode, minted, refs, orphaned, sweepNow>>
        /\ mode = "batch" /\ ops' = ops + 1
    BY Zenon DEF ObserveRelation, Routing
  <1>2. Good(staged, after, minted) /\ EdgesLive(after) /\ TypeOK /\ PendingBounded
    BY DEF IInv
  <1>3. /\ refs \in RefsType(EntityIDs) /\ relRefs \in RefsType(RelationIDs)
        /\ now \in Nat /\ pending \subseteq PendingRelation /\ staged \in Staged
        /\ speaker \in Speakers
    BY <1>2, Zenon DEF TypeOK, RefsType, Speakers, Staged
  <1>4. interval \in Nat /\ source \in Nat
    BY EngineAssumption
  <1>5. kind \in {"added", "changed"}
    OBVIOUS
  <1> HIDE DEF r, speaker, kind
  <1>6. /\ Good(staged', after', minted)
        /\ EdgesLive(after')
        /\ relRefs' \in RefsType(RelationIDs)
        /\ pending' \subseteq PendingRelation /\ PendingBounded'
    <2>1. CASE r # None
      <3>1. r \in RelationIDs /\ IsLive(after, r[1]) /\ IsLive(after, r[2])
        BY <1>2, <2>1, ResolvedLive DEF r
      <3>2. edgeRef(refs, r, speaker, interval) \in LiveRef
        BY <1>3, <1>4, <3>1, EdgeRefType
      <3>3. relRefs' \in RefsType(RelationIDs)
        BY <1>1, <1>3, <2>1, <3>1, <3>2, SMTT(40) DEF RefsType
      <3>4. pending' \subseteq PendingRelation /\ PendingBounded'
        BY <1>1, <1>2, <1>3, <2>1 DEF PendingBounded
      <3>5. Good(staged', after', minted) /\ EdgesLive(after')
        <4>1. CASE getRelation(staged, r) = a
          BY <1>1, <1>2, <2>1, <4>1
        <4>2. CASE getRelation(staged, r) # a
          <5>1. staged' = stagedApply(staged, ev) /\ after' = Apply(after, ev)
            BY <1>1, <2>1, <4>2
          <5> QED BY <1>2, <1>5, <3>1, <5>1, RelationEventLive
        <4> QED BY <4>1, <4>2
      <3> QED BY <3>3, <3>4, <3>5
    <2>2. CASE r = None
      <3>1. pending' \subseteq PendingRelation /\ PendingBounded'
        <4>1. CASE BufferTTL > 0
          <5>1. park(edge, a, producer, interval, source)
            BY <1>1, <2>2, <4>1
          <5> QED BY <1>2, <1>3, <1>4, <5>1, ParkType
        <4>2. CASE ~(BufferTTL > 0)
          BY <1>1, <1>2, <1>3, <2>2, <4>2 DEF PendingBounded
        <4> QED BY <4>1, <4>2
      <3> QED BY <1>1, <1>2, <1>3, <2>2, <3>1
    <2> QED BY <2>1, <2>2
  <1>7. TypeOK'
    <2>1. after' \in GraphType /\ staged' \in Staged
      BY <1>6 DEF Good, Consistent
    <2>2. ops' \in Nat
      BY <1>1, <1>2, SMTT(40) DEF TypeOK
    <2> QED BY <1>1, <1>2, <1>6, <2>1, <2>2 DEF TypeOK, RefsType
  <1>8. minted' = minted /\ graph' = graph /\ mode' = "batch"
    BY <1>1
  <1> QED BY <1>6, <1>7, <1>8, StepIInv

(* RemoveRelation. *)
LEMMA RemoveRelationStep ==
    ASSUME IInv, NEW producer \in Producers, NEW edge \in Edges,
           RemoveRelation(producer, edge)
    PROVE  IInv'
  <1> DEFINE r    == resolveEndpoints(staged, edge)
             left == releaseSpeaker(relRefs[r], <<producer, staged.scope>>)
             ev   == RelationEvent("removed", r, None)
  <1>1. /\ IF r = None THEN UNCHANGED <<staged, after, relRefs>>
           ELSE /\ relRefs' = [relRefs EXCEPT ![r] = left]
                /\ IF left # noSpeakers \/ getRelation(staged, r) = None
                   THEN UNCHANGED <<staged, after>>
                   ELSE staged' = stagedApply(staged, ev) /\ after' = Apply(after, ev)
        /\ UNCHANGED <<now, graph, mode, minted, refs, pending, orphaned, sweepNow>>
        /\ mode = "batch" /\ ops' = ops + 1
    BY Zenon DEF RemoveRelation, Routing
  <1>2. Good(staged, after, minted) /\ EdgesLive(after) /\ TypeOK /\ PendingBounded
    BY DEF IInv
  <1>3. relRefs \in RefsType(RelationIDs)
    BY <1>2 DEF TypeOK, RefsType
  <1> HIDE DEF r
  <1>4. /\ Good(staged', after', minted)
        /\ EdgesLive(after')
        /\ relRefs' \in RefsType(RelationIDs)
    <2>1. CASE r = None
      BY <1>1, <1>2, <1>3, <2>1
    <2>2. CASE r # None
      <3>1. r \in RelationIDs
        BY <1>2, <2>2, ResolvedLive DEF r
      <3>2. left \in [Speakers -> LiveRef \cup {None}]
        BY <1>3, <3>1, Zenon DEF releaseSpeaker, RefsType
      <3> HIDE DEF left
      <3>3. relRefs' \in RefsType(RelationIDs)
        BY <1>1, <1>3, <2>2, <3>2 DEF RefsType
      <3>4. CASE left # noSpeakers \/ getRelation(staged, r) = None
        BY <1>1, <1>2, <2>2, <3>3, <3>4
      <3>5. CASE ~(left # noSpeakers \/ getRelation(staged, r) = None)
        <4>1. staged' = stagedApply(staged, ev) /\ after' = Apply(after, ev)
          BY <1>1, <2>2, <3>5
        <4> QED BY <1>2, <3>1, <3>3, <4>1, RelationEventLive
      <3> QED BY <3>4, <3>5
    <2> QED BY <2>1, <2>2
  <1>5. TypeOK'
    <2>1. after' \in GraphType /\ staged' \in Staged
      BY <1>4 DEF Good, Consistent
    <2>2. ops' \in Nat
      BY <1>1, <1>2, SMTT(40) DEF TypeOK
    <2> QED BY <1>1, <1>2, <1>4, <2>1, <2>2 DEF TypeOK, RefsType
  <1>6. PendingBounded' /\ minted' = minted /\ graph' = graph /\ mode' = "batch"
    BY <1>1, <1>2 DEF PendingBounded
  <1> QED BY <1>4, <1>5, <1>6, StepIInv
=============================================================================
