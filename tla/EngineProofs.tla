---------------------------- MODULE EngineProofs ----------------------------
(***************************************************************************)
(* The change engine keeps its type invariant, never forks an identity,     *)
(* never leaves a dangling edge, and classifies every observation of a      *)
(* batch as the projection will answer once the batch is applied: for any   *)
(* number of entities, identities, producers, scopes and edges, any batch   *)
(* size and any failing append.                                             *)
(*                                                                          *)
(* The four facts hold together only.  What a batch does to the projection  *)
(* depends on what it reads through the overlay, so the overlay must answer *)
(* as `after` does; that it keeps doing so when a tombstone is revived or   *)
(* an entity deleted depends on both graphs' indexes being exact and on an  *)
(* id never changing its identity; and a cascade removes every edge of the  *)
(* deleted node only because the overlay lists them all.                    *)
(***************************************************************************)
EXTENDS OperationProofs

(* Flush, on success and on failure. *)
LEMMA FlushStep == IInv /\ (Flush \/ FlushFail) => IInv'
  <1> SUFFICES ASSUME IInv, Flush \/ FlushFail PROVE IInv'
    OBVIOUS
  <1>1. /\ graph' \in {graph, after} /\ after' = graph' /\ staged' = newStaged
        /\ mode' = "idle" /\ ops' = 0
        /\ UNCHANGED <<now, minted, refs, relRefs, pending, orphaned, sweepNow>>
    BY DEF Flush, FlushFail
  <1>2. Consistent(graph') /\ EdgesLive(graph')
    BY <1>1 DEF IInv, Good
  <1>3. \A id \in EntityIDs : graph'.entities[id] # None => id \in minted'
    BY <1>1 DEF IInv, Good, OnlyMinted
  <1>4. newStaged \in Staged
    BY EngineAssumption DEF newStaged, Staged
  <1>5. TypeOK' /\ PendingBounded'
    BY <1>1, <1>2, <1>4, Zenon DEF IInv, TypeOK, Consistent, PendingBounded
  <1> QED BY <1>1, <1>2, <1>3, <1>5, FreshIInv

(* SweepBegin. *)
LEMMA SweepBeginStep == IInv /\ SweepBegin => IInv'
  <1> SUFFICES ASSUME IInv, SweepBegin PROVE IInv'
    OBVIOUS
  <1>1. /\ mode = "idle" /\ mode' = "sweep" /\ sweepNow' = now
        /\ refs' = [id \in EntityIDs |-> dropLapsed(refs[id], now)]
        /\ orphaned' \subseteq EntityIDs
        /\ UNCHANGED <<now, graph, staged, after, minted, relRefs, pending, ops>>
    BY DEF SweepBegin
  <1>2. refs' \in RefsType(EntityIDs)
    BY <1>1, DropLapsedType DEF IInv, TypeOK, RefsType
  <1>3. TypeOK'
    BY <1>1, <1>2 DEF IInv, TypeOK, RefsType
  <1>4. /\ PendingBounded' /\ Good(staged', after', minted') /\ EdgesLive(after')
        /\ after' = graph
    BY <1>1 DEF IInv, PendingBounded
  <1> QED BY <1>1, <1>3, <1>4, StepIInv

(* SweepEntity: an orphan is live in the staged projection if it is in the     *)
(* projection, since a sweep deletes each orphan once and no other entity.     *)
LEMMA SweepEntityStep ==
    ASSUME IInv, NEW id \in EntityIDs, SweepEntity(id)
    PROVE  IInv'
  <1>1. /\ mode = "sweep" /\ id \in orphaned /\ orphaned' = orphaned \ {id}
        /\ IF IsLive(graph, id) THEN deleteCascade(id, graph.entities[id], sweepNow)
           ELSE UNCHANGED <<staged, after, relRefs>>
        /\ UNCHANGED <<now, graph, mode, minted, refs, pending, sweepNow, ops>>
    BY Zenon DEF SweepEntity
  <1>2. Good(staged, after, minted) /\ EdgesLive(after) /\ TypeOK /\ PendingBounded
    BY DEF IInv
  <1>3. relRefs \in RefsType(RelationIDs) /\ sweepNow \in Nat /\ orphaned \subseteq EntityIDs
    BY <1>2 DEF TypeOK, RefsType
  <1>4. \A x \in orphaned : IsLive(graph, x) => IsLive(after, x)
    BY <1>1 DEF IInv
  <1>5. /\ Good(staged', after', minted)
        /\ EdgesLive(after')
        /\ relRefs' \in RefsType(RelationIDs)
        /\ \A x \in EntityIDs : IsLive(after, x) /\ x # id => IsLive(after', x)
    <2>1. CASE IsLive(graph, id)
      <3>1. deleteCascade(id, graph.entities[id], sweepNow) /\ IsLive(after, id)
        BY <1>1, <1>4, <2>1
      <3> QED BY <1>2, <1>3, <3>1, CascadeGood
    <2>2. CASE ~IsLive(graph, id)
      BY <1>1, <1>2, <1>3, <2>2
    <2> QED BY <2>1, <2>2
  <1>6. \A x \in orphaned' : IsLive(graph, x) => IsLive(after', x)
    BY <1>1, <1>3, <1>4, <1>5
  <1>7. TypeOK'
    <2>1. after' \in GraphType /\ staged' \in Staged
      BY <1>5 DEF Good, Consistent
    <2> QED BY <1>1, <1>2, <1>5, <2>1 DEF TypeOK, RefsType
  <1>8. PendingBounded' /\ minted' = minted /\ graph' = graph /\ mode' = "sweep"
    BY <1>1, <1>2 DEF PendingBounded
  <1> QED BY <1>5, <1>6, <1>7, <1>8, StepIInv

(* SweepEnd, on success and on failure, with the pruning of the tombstones. *)
LEMMA SweepEndStep ==
    ASSUME IInv, NEW appended \in BOOLEAN, SweepEnd(appended)
    PROVE  IInv'
  <1> DEFINE left     == [r \in RelationIDs |-> dropLapsed(relRefs[r], sweepNow)]
             expired  == {r \in RelationIDs : /\ relRefs[r] # noSpeakers
                                              /\ left[r] = noSpeakers
                                              /\ graph.relations[r] # None}
             removals == [r \in expired |-> None]
             kept     == IF appended THEN applyRelations(after, removals) ELSE graph
  <1>1. /\ mode' = "idle" /\ relRefs' = left
        /\ pending' \subseteq pending
        /\ graph' = PruneTombstones(kept, now)
        /\ after' = graph' /\ staged' = newStaged /\ sweepNow' = 0
        /\ UNCHANGED <<now, minted, refs, orphaned, ops>>
    BY DEF SweepEnd
  <1>2. Good(staged, after, minted) /\ EdgesLive(after) /\ EdgesLive(graph) /\ TypeOK
    BY DEF IInv
  <1>3. expired \in SUBSET RelationIDs /\ removals \in [expired -> Attributes \cup {None}]
    OBVIOUS
  <1>4. \A r \in expired : removals[r] = None
    OBVIOUS
  <1>5. relRefs' \in RefsType(RelationIDs)
    BY <1>1, <1>2, DropLapsedType DEF TypeOK, RefsType
  <1> HIDE DEF left, expired, removals
  <1>6. /\ Consistent(kept) /\ EdgesLive(kept)
        /\ \A id \in EntityIDs : kept.entities[id] # None => id \in minted
    <2>1. CASE appended
      <3> DEFINE a == applyRelations(after, removals)
      <3>1. /\ Good(stagedApplyRelations(staged, removals), a, minted)
            /\ a.relations = [r \in RelationIDs |->
                                 IF r \in expired THEN removals[r] ELSE after.relations[r]]
            /\ \A x \in EntityIDs : IsLive(a, x) <=> IsLive(after, x)
        BY <1>2, <1>3, RelationsGood
      <3> HIDE DEF a
      <3>2. EdgesLive(a)
        BY <1>2, <1>4, <3>1, SMTT(40) DEF EdgesLive, RelationIDs
      <3>3. kept = a
        BY <2>1 DEF a
      <3> HIDE DEF kept
      <3> QED BY <3>1, <3>2, <3>3 DEF Good, OnlyMinted
    <2>2. CASE ~appended
      BY <1>2, <2>2 DEF Good, OnlyMinted
    <2> QED BY <2>1, <2>2
  <1> HIDE DEF kept
  <1>7. now \in Nat /\ kept \in GraphType
    BY <1>2, <1>6 DEF TypeOK, Consistent
  <1>8. Consistent(graph')
    BY <1>1, <1>6, <1>7, PruneTombstonesConsistent
  <1>9. /\ graph'.relations = kept.relations
        /\ \A x \in EntityIDs : graph'.entities[x] \in {kept.entities[x], None}
        /\ \A x \in EntityIDs : IsLive(graph', x) <=> IsLive(kept, x)
    BY <1>1, <1>7, PruneTombstonesFields
  <1>10. EdgesLive(graph')
    BY <1>6, <1>9 DEF EdgesLive, RelationIDs
  <1>11. \A id \in EntityIDs : graph'.entities[id] # None => id \in minted'
    BY <1>1, <1>6, <1>9
  <1>12. newStaged \in Staged
    BY EngineAssumption DEF newStaged, Staged
  <1>13. TypeOK'
    BY <1>1, <1>2, <1>5, <1>8, <1>12 DEF TypeOK, Consistent, RefsType
  <1>14. PendingBounded'
    BY <1>1 DEF IInv, PendingBounded
  <1> QED BY <1>1, <1>8, <1>10, <1>11, <1>13, <1>14, FreshIInv

(* A step that only moves the clock, or nothing. *)
LEMMA ClockStep ==
    ASSUME IInv, now' \in Nat,
           UNCHANGED <<graph, mode, staged, after, minted, refs, relRefs, pending,
                       orphaned, sweepNow, ops>>
    PROVE  IInv'
  <1>1. Good(staged, after, minted)'
    BY GoodPrime DEF IInv
  <1>2. TypeOK' /\ PendingBounded'
    BY DEF IInv, TypeOK, PendingBounded
  <1>3. EdgesLive(graph)' /\ EdgesLive(after)'
    BY DEF IInv, EdgesLive, IsLive
  <1>4. (mode = "sweep" => \A id \in orphaned : IsLive(graph, id) => IsLive(after, id))'
    BY DEF IInv, IsLive
  <1> QED BY <1>1, <1>2, <1>3, <1>4 DEF IInv

(* The invariant is inductive. *)
LEMMA NextIInv == IInv /\ [Next]_vars => IInv'
  <1> SUFFICES ASSUME IInv, [Next]_vars PROVE IInv'
    OBVIOUS
  <1>1. CASE Begin
    BY <1>1, BeginStep
  <1>2. ASSUME NEW scope \in Scopes, SetScope(scope) PROVE IInv'
    BY <1>2, SetScopeStep
  <1>3. ASSUME NEW p \in Producers, NEW h \in Identities, NEW a \in Attributes,
               NEW i \in Intervals, ObserveEntity(p, h, a, i)
        PROVE  IInv'
    BY <1>3, ObserveEntityStep
  <1>4. ASSUME NEW p \in Producers, NEW h \in Identities, DeleteEntity(p, h) PROVE IInv'
    BY <1>4, DeleteEntityStep
  <1>5. ASSUME NEW p \in Producers, NEW edge \in Edges, NEW a \in Attributes,
               NEW i \in EdgeIntervals, NEW j \in Intervals, ObserveRelation(p, edge, a, i, j)
        PROVE  IInv'
    BY <1>5, ObserveRelationStep
  <1>6. ASSUME NEW p \in Producers, NEW edge \in Edges, RemoveRelation(p, edge) PROVE IInv'
    BY <1>6, RemoveRelationStep
  <1>7. CASE Flush \/ FlushFail
    BY <1>7, FlushStep
  <1>8. CASE SweepBegin
    BY <1>8, SweepBeginStep
  <1>9. ASSUME NEW id \in EntityIDs, SweepEntity(id) PROVE IInv'
    BY <1>9, SweepEntityStep
  <1>10. ASSUME NEW appended \in BOOLEAN, SweepEnd(appended) PROVE IInv'
    BY <1>10, SweepEndStep
  <1>11. CASE Tick
    <2>1. now' \in Nat
      BY <1>11, SMTT(40) DEF Tick, IInv, TypeOK
    <2> QED BY <1>11, <2>1, ClockStep DEF Tick
  <1>12. CASE UNCHANGED vars
    <2>1. now' \in Nat
      BY <1>12 DEF vars, IInv, TypeOK
    <2> QED BY <1>12, <2>1, ClockStep DEF vars
  <1> QED BY Zenon, <1>1, <1>2, <1>3, <1>4, <1>5, <1>6, <1>7, <1>8, <1>9, <1>10, <1>11,
             <1>12 DEF Next, Operation

-----------------------------------------------------------------------------
(* The results. *)

(* The inductive invariant holds in every reachable state. *)
THEOREM EngineInvariant == Spec => []IInv
  BY InitIInv, NextIInv, PTL DEF Spec

(* The engine's state always has its type. *)
THEOREM TypeCorrect == Spec => []TypeOK
  <1>1. IInv => TypeOK
    BY DEF IInv
  <1> QED BY <1>1, EngineInvariant, PTL

(* Between and during batches, one identity has at most one live entity and    *)
(* the identity index finds exactly it, whatever batches and sweeps fail.      *)
THEOREM IdentitiesNeverFork == Spec => []OneLiveEntityPerIdentity
  <1>1. IInv => OneLiveEntityPerIdentity
    BY MatchIdentityExact DEF IInv, Good, OneLiveEntityPerIdentity
  <1> QED BY <1>1, EngineInvariant, PTL

(* No edge of the projection ever has a missing or deleted endpoint.           *)
THEOREM NoDanglingEdges == Spec => []EdgesHaveLiveEndpoints
  <1>1. IInv => EdgesHaveLiveEndpoints
    BY DEF IInv, EdgesLive, EdgesHaveLiveEndpoints
  <1> QED BY <1>1, EngineInvariant, PTL

(* Every read of the batch overlay answers what the projection will answer     *)
(* once the staged events are applied: classifying against the overlay is      *)
(* classifying against the future projection.                                  *)
THEOREM OverlayFaithful == Spec => []OverlayMirrorsApply
  <1>1. ASSUME IInv PROVE OverlayMirrorsApply
    <2>1. Good(staged, after, minted)
      BY <1>1 DEF IInv
    <2>2. \A id \in Live(after) : getEntity(staged, id) = after.entities[id]
      BY <2>1 DEF Good, Overlay, Live
    <2>3. ASSUME NEW id \in EntityIDs
          PROVE  listRelationsTouching(staged, id) = {r \in after.adjacency : Touches(r, id)}
      <3>1. after.adjacency = {r \in RelationIDs : after.relations[r] # None}
        BY <2>1 DEF Good, Consistent, AdjacencyExact
      <3>2. \A r \in RelationIDs :
               after.relations[r] # None <=>
                   \/ staged.relations[r] # None
                   \/ graph.relations[r] # None /\ r \notin staged.relRemoved
        BY <2>1 DEF Good, Overlay, getRelation, Staged
      <3> QED BY <3>1, <3>2 DEF listRelationsTouching
    <2> QED BY <2>1, <2>2, <2>3 DEF Good, Overlay, OverlayMirrorsApply
  <1>2. IInv => OverlayMirrorsApply
    BY <1>1
  <1> QED BY <1>2, EngineInvariant, PTL
=============================================================================
