----------------------------- MODULE Durability -----------------------------
(***************************************************************************)
(* One tenant's event log and what is rebuilt from it: the append and the   *)
(* application of a batch (store.Append, change.flushStaged), the           *)
(* projection snapshot (main.writeTenantSnapshot), heartbeat coalescing and *)
(* retention pruning (store/retention.go), a crash at any point, the boot   *)
(* that rebuilds the projection (registry.openStack) and the as-of fold     *)
(* (projection.At).                                                         *)
(*                                                                          *)
(* Abstractions.  A log entry is its sequence number, its time and its      *)
(* event: recorded_at and event_time are the same clock reading.  The       *)
(* engine is reduced to the batches of events it may append on top of the   *)
(* projection; module Engine has the details.  The liveness memento that    *)
(* rides on a snapshot is left out.                                         *)
(***************************************************************************)
EXTENDS Projection, SequencesExt

CONSTANTS Deployments, \* sets of the maintenance jobs "snapshot", "coalesce", "prune"
                       \* that a deployment may run
          Overlaps,  \* the overlaps that may happen: "snapshot" lets a snapshot read
                     \* its sequence between an append and its application, "prune"
                     \* lets a batch be appended between a prune's scan and its commit
          Retentions, \* RetentionMaxAge, one value of which holds until a restart
          MaxSeq,    \* bound: the last sequence number
          MaxTime    \* bound: the clock stops here

ASSUME DurabilityAssumption ==
    /\ Deployments \subseteq SUBSET {"snapshot", "coalesce", "prune"}
    /\ Overlaps \subseteq {"snapshot", "prune"}
    /\ Retentions \subseteq Nat \ {0} /\ Retentions # {}
    /\ MaxSeq \in Nat /\ MaxTime \in Nat

VARIABLES now,       \* the clock
          jobs,      \* the maintenance jobs this deployment runs
          up,        \* the server runs
          retention, \* the RetentionMaxAge it was started with
          log,       \* the primary records, in sequence order
          seq,       \* Store.seq
          graph,     \* the projection
          unapplied, \* events of the running flush: durable, not yet applied
          minted,    \* entity ids in use
          snapshot,  \* the value under snapshotKey, None if there is none
          snapping,  \* writeTenantSnapshot in progress
          maint,     \* the maintenance pass that holds maintMu
          horizon,   \* metaPruneHorizonKey, 0 if never pruned
          pruned,    \* Store.pruneHorizon, its copy in memory
          truth,     \* history: every acknowledged event applied to a graph
          since,     \* history: when a live entity was created
          lived,     \* history: who was live at some moment of each instant
          cutoffs    \* history: the cutoffs of all committed prunes

vars == <<now, jobs, up, retention, log, seq, graph, unapplied, minted, snapshot, snapping, maint,
          horizon, pruned, truth, since, lived, cutoffs>>

store == <<log, seq, snapshot, horizon>>
history == <<truth, since, lived, cutoffs>>

noMaint == [job |-> "none", doomed |-> {}, baselines |-> <<>>, cutoff |-> 0]

noSnapping == [step |-> "idle", seq |-> 0, events |-> None]

ApplyAll(g, evs) == FoldLeft(Apply, g, evs)

Events(entries) == [i \in 1..Len(entries) |-> entries[i].ev]

(* Mutant: the numbering restarts from the number of records in the log. *)
storeAppendRecounted(evs, at) ==
    /\ Len(log) + Len(evs) <= MaxSeq
    /\ log' = log \o [i \in 1..Len(evs) |-> [seq |-> Len(log) + i, at |-> at, ev |-> evs[i]]]
    /\ seq' = Len(log) + Len(evs)

(* Store.Append: the records of evs, numbered on from seq, in one durable batch. *)
storeAppend(evs, at) ==
    /\ seq + Len(evs) <= MaxSeq
    /\ log' = log \o [i \in 1..Len(evs) |-> [seq |-> seq + i, at |-> at, ev |-> evs[i]]]
    /\ seq' = seq + Len(evs)

without(doomed) == SelectSeq(log, LAMBDA x : x.seq \notin doomed)

-----------------------------------------------------------------------------
(* The batches the engine may append on top of the projection graph. *)

observed ==
    {<<EntityEvent("created", id, [identity |-> h, attributes |-> a], now)>> :
        <<id, h, a>> \in {<<i, x, b>> \in EntityIDs \X Identities \X Attributes :
            /\ MatchIdentity(graph, x) = None
            /\ IF MatchTombstone(graph, x, now) # None
               THEN i = MatchTombstone(graph, x, now) ELSE i \notin minted}}
    \cup
    {<<EntityEvent(IF graph.entities[id].attributes = a THEN "unchanged" ELSE "updated",
                   id, [graph.entities[id] EXCEPT !.attributes = a], now)>> :
        <<id, a>> \in Live(graph) \X Attributes}

removals(rels) == [i \in 1..Cardinality(rels) |-> RelationEvent("removed", SetToSeq(rels)[i], None)]

deletions ==
    {<<EntityEvent("deleted", id, graph.entities[id], now)>>
        \o removals({r \in graph.adjacency : Touches(r, id)}) : id \in Live(graph)}

relinked ==
    {<<RelationEvent(IF graph.relations[r] = None THEN "added" ELSE "changed", r, a)>> :
        <<r, a>> \in {<<x, b>> \in RelationIDs \X Attributes :
            /\ IsLive(graph, x[1]) /\ IsLive(graph, x[2])
            /\ graph.relations[x] # b}}
    \cup {<<RelationEvent("removed", r, None)>> : r \in graph.adjacency}

Batches == observed \cup deletions \cup relinked

-----------------------------------------------------------------------------
Init ==
    /\ now = 1
    /\ jobs \in Deployments
    /\ up = TRUE
    /\ retention \in Retentions
    /\ log = <<>>
    /\ seq = 0
    /\ graph = EmptyGraph
    /\ unapplied = <<>>
    /\ minted = {}
    /\ snapshot = None
    /\ snapping = noSnapping
    /\ maint = noMaint
    /\ horizon = 0
    /\ pruned = 0
    /\ truth = EmptyGraph
    /\ since = [id \in EntityIDs |-> 0]
    /\ lived = {}
    /\ cutoffs = {}

(* flushStaged up to the durable append of a batch. *)
Commit ==
    /\ up /\ unapplied = <<>>
    /\ maint.job # "prune" \/ "prune" \in Overlaps
    /\ \E evs \in Batches :
         /\ storeAppend(evs, now)
         /\ unapplied' = evs
         /\ truth' = ApplyAll(truth, evs)
         /\ since' = [id \in EntityIDs |->
                         IF IsLive(truth, id) = IsLive(truth', id) THEN since[id]
                         ELSE IF IsLive(truth', id) THEN now ELSE 0]
         /\ minted' = minted \cup {id \in EntityIDs : IsLive(truth', id)}
         /\ lived' = lived \cup {<<id, now>> : id \in Live(truth')}
    /\ UNCHANGED <<now, jobs, up, retention, graph, snapshot, snapping, maint, horizon, pruned,
                   cutoffs>>

(* The rest of flushStaged: the events reach the projection one at a time. *)
ApplyOne ==
    /\ up /\ unapplied # <<>>
    /\ graph' = Apply(graph, Head(unapplied))
    /\ unapplied' = Tail(unapplied)
    /\ UNCHANGED <<now, jobs, up, retention, minted, snapping, maint, pruned, store, history>>

-----------------------------------------------------------------------------
(* writeTenantSnapshot: the sequence, then the graph, neither under obsMu. *)

SnapshotSequence ==
    /\ up /\ "snapshot" \in jobs /\ snapping.step = "idle"
    /\ unapplied = <<>> \/ "snapshot" \in Overlaps
    /\ snapping' = [noSnapping EXCEPT !.step = "sequence", !.seq = seq]
    /\ UNCHANGED <<now, jobs, up, retention, graph, unapplied, minted, maint, pruned, store, history>>

(* Mutant: soft-deleted entities are sampled too. *)
SnapshotEventsWithDeleted(g) == [entities |-> g.entities, relations |-> g.relations]

(* SnapshotEvents: the live entities and the relations of g. *)
SnapshotEvents(g) ==
    [entities  |-> [id \in EntityIDs |-> IF id \in g.deleted THEN None ELSE g.entities[id]],
     relations |-> g.relations]

SnapshotSample ==
    /\ up /\ snapping.step = "sequence"
    /\ snapping' = [snapping EXCEPT !.step = "sampled", !.events = SnapshotEvents(graph)]
    /\ UNCHANGED <<now, jobs, up, retention, graph, unapplied, minted, maint, pruned, store, history>>

(* LivenessBlob waits for obsMu, so for the end of a running flush; then       *)
(* WriteSnapshot.                                                              *)
SnapshotWrite ==
    /\ up /\ snapping.step = "sampled" /\ unapplied = <<>>
    /\ snapshot' = [seq |-> snapping.seq, events |-> snapping.events]
    /\ snapping' = noSnapping
    /\ UNCHANGED <<now, jobs, up, retention, log, seq, graph, unapplied, minted, maint, horizon, pruned, history>>

-----------------------------------------------------------------------------
(* Maintenance, on a Pebble snapshot of the log and under maintMu only. *)

thing(ev) == IF ev.kind \in {"added", "changed", "removed"} THEN ev.relation ELSE ev.id

records(x) == {i \in 1..Len(log) : thing(log[i].ev) = x}

latest(x) == log[Max(records(x))]

Things == {thing(log[i].ev) : i \in 1..Len(log)}

(* The middles of the runs of consecutive heartbeats of one entity. *)
redundant ==
    {log[i].seq : i \in {j \in 1..Len(log) :
        /\ log[j].ev.kind = "unchanged"
        /\ LET own == records(log[j].ev.id)
               previous == {k \in own : k < j}
               following == {k \in own : k > j}
           IN  /\ previous # {} /\ log[Max(previous)].ev.kind = "unchanged"
               /\ following # {} /\ log[Min(following)].ev.kind = "unchanged"}}

CoalesceScan ==
    /\ up /\ "coalesce" \in jobs /\ maint.job = "none"
    /\ redundant # {}
    /\ maint' = [noMaint EXCEPT !.job = "coalesce", !.doomed = redundant]
    /\ UNCHANGED <<now, jobs, up, retention, graph, unapplied, minted, snapping, pruned, store, history>>

CoalesceCommit ==
    /\ up /\ maint.job = "coalesce"
    /\ log' = without(maint.doomed)
    /\ maint' = noMaint
    /\ UNCHANGED <<now, jobs, up, retention, seq, graph, unapplied, minted, snapshot, snapping, horizon,
                   pruned, history>>

alive(x) == latest(x).ev.kind \notin {"deleted", "removed"}

(* The keep set protects the latest record of every live thing. *)
expendable(cutoff) ==
    {log[i].seq : i \in {j \in 1..Len(log) :
        /\ log[j].at < cutoff
        /\ ~(alive(thing(log[j].ev)) /\ latest(thing(log[j].ev)) = log[j])}}

(* Mutant: no horizon baselines. *)
needsBaselineNever(cutoff) == {}

needsBaseline(cutoff) ==
    {x \in Things : /\ alive(x)
                    /\ \E i \in records(x) : log[i].at <= cutoff
                    /\ latest(x).at > cutoff}

baselineEvent(ev, cutoff) ==
    IF "recordedAt" \in DOMAIN ev THEN [ev EXCEPT !.recordedAt = cutoff] ELSE ev

(* Entities before relations. *)
baselines(cutoff) ==
    LET of(things) == [i \in 1..Cardinality(things) |->
                          baselineEvent(latest(SetToSeq(things)[i]).ev, cutoff)]
    IN  of(needsBaseline(cutoff) \cap EntityIDs) \o of(needsBaseline(cutoff) \cap RelationIDs)

(* The compaction loop calls PruneOlderThan with the cutoff now - maxAge. *)
PruneScan ==
    LET cutoff == now - retention
    IN  /\ up /\ "prune" \in jobs /\ maint.job = "none"
        /\ expendable(cutoff) # {}
        /\ maint' = [job |-> "prune", doomed |-> expendable(cutoff),
                     baselines |-> baselines(cutoff), cutoff |-> cutoff]
        /\ UNCHANGED <<now, jobs, up, retention, graph, unapplied, minted, snapping, pruned, store, history>>

PruneBaselines ==
    /\ up /\ maint.job = "prune" /\ maint.baselines # <<>>
    /\ storeAppend(maint.baselines, maint.cutoff)
    /\ maint' = [maint EXCEPT !.baselines = <<>>]
    /\ UNCHANGED <<now, jobs, up, retention, graph, unapplied, minted, snapshot, snapping, horizon, pruned, history>>

PruneCommit ==
    /\ up /\ maint.job = "prune" /\ maint.baselines = <<>>
    /\ log' = without(maint.doomed)
    /\ horizon' = maint.cutoff
    /\ pruned' = IF maint.cutoff > pruned THEN maint.cutoff ELSE pruned
    /\ cutoffs' = cutoffs \cup {maint.cutoff}
    /\ maint' = noMaint
    /\ UNCHANGED <<now, jobs, up, retention, seq, graph, unapplied, minted, snapshot, snapping, truth, since,
                   lived>>

-----------------------------------------------------------------------------
(* Failures, crash and boot. *)

(* An append or a commit of a maintenance pass fails: the pass is abandoned,   *)
(* whatever it had already appended stays.                                     *)
MaintFail ==
    /\ up /\ maint.job # "none"
    /\ maint' = noMaint
    /\ UNCHANGED <<now, jobs, up, retention, graph, unapplied, minted, snapping, pruned,
                   store, history>>

Crash ==
    /\ up
    /\ up' = FALSE
    /\ graph' = EmptyGraph
    /\ unapplied' = <<>>
    /\ snapping' = noSnapping
    /\ maint' = noMaint
    /\ UNCHANGED <<now, jobs, retention, minted, pruned, store, history>>

(* The synthetic events of a snapshot, applied to an empty graph. *)
restored(events) ==
    LET ids == {id \in EntityIDs : events.entities[id] # None}
        created == [i \in 1..Cardinality(ids) |->
                       EntityEvent("created", SetToSeq(ids)[i],
                                   events.entities[SetToSeq(ids)[i]], now)]
        added == [r \in {x \in RelationIDs : events.relations[x] # None} |->
                     events.relations[r]]
    IN  applyRelations(ApplyAll(EmptyGraph, created), added)

(* ScanFrom: the records after a sequence, in order. *)
tail(afterSeq) == SelectSeq(log, LAMBDA x : x.seq > afterSeq)

(* recoverSeq: the sequence and the horizon are the markers'; the former is       *)
(* written in the batch that makes it so.                                        *)
recoverSeq == pruned' = horizon /\ UNCHANGED seq

(* openStack: the snapshot, then the tail of the log. *)
Boot ==
    /\ ~up
    /\ up' = TRUE
    /\ retention' \in Retentions
    /\ graph' = IF snapshot = None THEN ApplyAll(EmptyGraph, Events(tail(0)))
                ELSE ApplyAll(restored(snapshot.events), Events(tail(snapshot.seq)))
    /\ recoverSeq
    /\ UNCHANGED <<now, jobs, unapplied, minted, snapping, maint, log, snapshot, horizon, history>>

(* toise-server drop-snapshot, a cold tool. *)
DropSnapshot ==
    /\ ~up /\ snapshot # None
    /\ snapshot' = None
    /\ UNCHANGED <<now, jobs, up, retention, log, seq, graph, unapplied, minted, snapping, maint, horizon,
                   pruned, history>>

Tick ==
    /\ now < MaxTime
    /\ now' = now + 1
    /\ lived' = lived \cup {<<id, now'>> : id \in Live(truth)}
    /\ UNCHANGED <<jobs, up, retention, graph, unapplied, minted, snapping, maint, pruned, store,
                   truth, since, cutoffs>>

Next ==
    \/ Commit \/ ApplyOne
    \/ SnapshotSequence \/ SnapshotSample \/ SnapshotWrite
    \/ CoalesceScan \/ CoalesceCommit
    \/ PruneScan \/ PruneBaselines \/ PruneCommit
    \/ MaintFail \/ Crash \/ Boot \/ DropSnapshot \/ Tick

Spec == Init /\ [][Next]_vars

-----------------------------------------------------------------------------
Entry == [seq : 1..MaxSeq, at : 1..MaxTime]

(* The type invariant. *)
TypeOK ==
    /\ now \in 1..MaxTime /\ jobs \in Deployments /\ up \in BOOLEAN /\ retention \in Retentions
    /\ seq \in 0..MaxSeq
    /\ \A i \in 1..Len(log) : [seq |-> log[i].seq, at |-> log[i].at] \in Entry
    /\ graph \in GraphType /\ truth \in GraphType
    /\ minted \subseteq EntityIDs
    /\ snapping.step \in {"idle", "sequence", "sampled"}
    /\ maint.job \in {"none", "coalesce", "prune"}
    /\ horizon \in 0..MaxTime /\ pruned \in 0..MaxTime

(* What readers see of a graph: its live entities and its relations. *)
View(g) == [entities  |-> [id \in Live(g) |-> g.entities[id]],
            relations |-> g.relations]

(* Nothing acknowledged is lost and nothing deleted comes back: whenever no     *)
(* flush is running the projection shows exactly the acknowledged events,       *)
(* across crashes, from a snapshot and its tail or from the whole log, pruned   *)
(* and coalesced or not (openStack, WriteSnapshot, PruneOlderThan).             *)
ProjectionMatchesLog ==
    up /\ unapplied = <<>> => View(graph) = View(truth)

(* The sequence marker never falls behind a record, so a restart never issues   *)
(* a sequence number twice, and the log stays in sequence order although a      *)
(* prune rewrites it (Append, recoverSeq).                                      *)
SequencesUnique ==
    /\ \A i \in 1..Len(log) : log[i].seq <= seq
    /\ \A i, j \in 1..Len(log) : i < j => log[i].seq < log[j].seq

(* PruneHorizon returns the latest retention cutoff ever applied.               *)
HorizonIsLatestCutoff ==
    up /\ cutoffs # {} => pruned = Max(cutoffs)

(* projection.At: the log folded up to t in event-time order. *)
At(t) ==
    LET upTo == {i \in 1..Len(log) : log[i].at <= t}
        before(i, j) == log[i].at < log[j].at \/ (log[i].at = log[j].at /\ i < j)
        order == SetToSortSeq(upTo, before)
    IN  ApplyAll(EmptyGraph, [i \in 1..Len(order) |-> log[order[i]].ev])

(* The horizon baselines: an as-of read at or after the horizon never drops an  *)
(* entity that existed then and still lives (PruneOlderThan, At).               *)
AsOfSeesTheLiving ==
    up => \A t \in 1..now : t >= pruned =>
        \A id \in Live(truth) : since[id] <= t => IsLive(At(t), id)

(* A baseline is not back-dated into a past its entity did not exist in: an     *)
(* as-of read at or after the horizon shows only entities that were live then   *)
(* (PruneOlderThan, baselineEvent, At).                                         *)
AsOfShowsOnlyTheLiving ==
    up => \A t \in 1..now : t >= pruned =>
        \A id \in Live(At(t)) : <<id, t>> \in lived

(* The weaker form that survives revivals: nothing is shown before the first    *)
(* moment it existed.                                                           *)
AsOfShowsOnlyTheBorn ==
    up => \A t \in 1..now : t >= pruned =>
        \A id \in Live(At(t)) : \E u \in 1..t : <<id, u>> \in lived

(* What pruning owes an as-of reader: the horizon on disk is the latest cutoff  *)
(* applied, although a crash or a failure may come between any two steps of a   *)
(* prune; at or after it a read drops nothing that still lives and dates        *)
(* nothing before its birth (PruneOlderThan, PruneHorizon, baselineEvent, At).  *)
AsOfSound == HorizonIsLatestCutoff /\ AsOfSeesTheLiving /\ AsOfShowsOnlyTheBorn
=============================================================================
