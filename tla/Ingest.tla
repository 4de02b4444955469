------------------------------- MODULE Ingest -------------------------------
(***************************************************************************)
(* OTLP ingest (internal/ingest): an export is handled one resource at a time,  *)
(* each as one batch of its tenant's engine; embedded relationships are turned  *)
(* into edge observations and removals by diffing what the speaker's entity      *)
(* listed last.  Producers resend an export until it is acknowledged.            *)
(*                                                                           *)
(* Abstractions.  A record is what routing tells apart.  Records declare no      *)
(* report interval, so nothing lapses, and the reconciliation buffer holds an    *)
(* edge until it resolves; modules Engine and Aliases have both in full.         *)
(***************************************************************************)
EXTENDS Integers, Sequences, FiniteSets, SequencesExt

CONSTANTS IngestTenants,
          Standing,     \* entities that other producers keep alive
          Senders,      \* <<producer, scope>> pairs, each with its own stream
          Exports,      \* by sender: the exports it may send, sequences of resources
                        \* [tenant, records]
          BufferModes,  \* the settings of relation_buffer_ttl > 0
          MaxFailures   \* bound: failing appends and tenant resolutions

ASSUME IngestAssumption ==
    /\ BufferModes \subseteq BOOLEAN /\ MaxFailures \in Nat
    /\ \A x \in Senders : \A ex \in Exports[x] : \A i \in DOMAIN ex : ex[i].tenant \in IngestTenants

VARIABLES buffered,  \* relation_buffer_ttl > 0
          graph,     \* by tenant: its engine, see Empty
          recon,     \* by tenant: embeddedReconciler.state
          batches,   \* by tenant: the batch that holds its engine's obsMu, or NoBatch
          calls,     \* by sender: its call, or Idle
          failures,  \* failures so far
          word       \* history, by tenant: <<speaker, source, target>> last listed

ingestVars == <<buffered, graph, recon, batches, calls, failures, word>>

Idle == [export |-> <<>>, at |-> 0, tally |-> 0, rejected |-> 0]

NoBatch == [by |-> <<>>]

(* An engine: the references on entities and edges, the projection, the buffer. *)
Empty == [refs |-> {<<e, <<"other", "">>>> : e \in Standing}, relRefs |-> {},
          ents |-> Standing, edges |-> {}, parked |-> {}]

IngestInit ==
    /\ buffered \in BufferModes
    /\ graph = [t \in IngestTenants |-> Empty]
    /\ recon = [t \in IngestTenants |-> <<>>]
    /\ batches = [t \in IngestTenants |-> NoBatch]
    /\ calls = [x \in Senders |-> Idle]
    /\ failures = 0
    /\ word = [t \in IngestTenants |-> {}]

-----------------------------------------------------------------------------
(* A running batch b: the engine g with what is staged, the reconciler state r,   *)
(* the undos most recent first, the words, the tallies and an error.              *)

(* observeRelationLocked with flushPending: the edges whose endpoints are there.  *)
attach(g, claims) ==
    LET ready == {c \in claims : c[1] \in g.ents /\ c[2] \in g.ents}
    IN  [g EXCEPT !.relRefs = @ \cup ready, !.parked = (@ \cup claims) \ ready,
                  !.edges = @ \cup {<<c[1], c[2]>> : c \in ready}]

(* observeEntityLocked *)
observeEntity(g, e, x) ==
    LET there == [g EXCEPT !.ents = @ \cup {e}, !.refs = @ \cup {<<e, x>>}]
    IN  attach(there, there.parked)

(* removeRelationLocked: released, and removed when nobody holds it any more. *)
removeRelations(g, claims) ==
    LET there == {c \in claims : c[1] \in g.ents /\ c[2] \in g.ents}
        left == g.relRefs \ there
    IN  [g EXCEPT !.relRefs = left,
                  !.edges = @ \ {<<c[1], c[2]>> : c \in {d \in there :
                                   ~\E o \in left : o[1] = d[1] /\ o[2] = d[2]}}]

(* deleteEntityLocked, with the cascade of its edges. *)
deleteEntity(g, e, x) ==
    LET left == g.refs \ {<<e, x>>}
        free == {c \in g.relRefs : e \notin {c[1], c[2]}}
    IN  CASE e \notin g.ents         -> g
          [] \E r \in left : r[1] = e -> [g EXCEPT !.refs = left]
          [] OTHER -> [g EXCEPT !.refs = left, !.relRefs = free, !.ents = @ \ {e},
                                !.edges = {d \in @ : e \notin {d[1], d[2]}}]

(* Mutant: the methods of a producer share one set. *)
producerKeyUnscoped(x, e) == <<x[1], e>>

producerKey(x, e) == <<x, e>>

listed(r, k) == IF k \in DOMAIN r THEN r[k] ELSE {}
listing(r, k, want) ==
    [j \in IF want = {} THEN DOMAIN r \ {k} ELSE DOMAIN r \cup {k} |->
        IF j = k THEN want ELSE r[j]]

(* OnRollback: flushStaged undoes the most recent first. *)
onRollback(b, k) == <<<<k, listed(b.r, k)>>>> \o b.undo

(* embeddedReconciler.handleVocab for a state: observe what is listed, remove what *)
(* no longer is, and advance whatever became of them.                              *)
reconcile(b, rec, x) ==
    LET k == producerKey(x, rec.of)
        claims(ts) == {<<rec.of, t, x>> : t \in ts}
        missing == {t \in rec.edges : t \notin b.g.ents}
        seen == attach(b.g, claims(IF buffered THEN rec.edges ELSE rec.edges \ missing))
    IN  [b EXCEPT !.g = removeRelations(seen, claims(listed(b.r, k) \ rec.edges)),
                  !.r = listing(b.r, k, rec.edges),
                  !.undo = onRollback(b, k),
                  !.err = ~buffered /\ missing # {}]

saidBy(b, rec, x) == {w \in b.word : w[1] # x \/ w[2] # rec.of}

(* routeRecordVocab, then handleVocab: an entity state. *)
routeState(b, rec, x) ==
    LET there == [b EXCEPT !.g = observeEntity(@, rec.of, x),
                           !.word = saidBy(b, rec, x) \cup {<<x, rec.of, t>> : t \in rec.edges},
                           !.events = TRUE]
        done == reconcile(there, rec, x)
    IN  IF done.err THEN done
        ELSE [done EXCEPT !.tally = @ + 1, !.rejected = @ + (IF rec.unknown THEN 1 ELSE 0)]

(* The same for a delete: the reconciler only forgets.  A deleted entity takes the *)
(* words about it along.                                                           *)
routeDelete(b, rec, x) ==
    LET k == producerKey(x, rec.of)
        g == deleteEntity(b.g, rec.of, x)
    IN  [b EXCEPT !.g = g, !.r = listing(b.r, k, {}),
                  !.undo = IF k \in DOMAIN b.r THEN onRollback(b, k) ELSE b.undo,
                  !.word = {w \in saidBy(b, rec, x) : rec.of \in g.ents \/ w[3] # rec.of},
                  !.events = @ \/ g.ents # b.g.ents,
                  !.tally = @ + 1]

(* errInvalidRecord: this record alone is refused. *)
reject(b) == [b EXCEPT !.tally = @ + 1, !.rejected = @ + 1]

route(b, rec, x) ==
    CASE b.err                -> b
      [] rec.kind = "state"   -> routeState(b, rec, x)
      [] rec.kind = "delete"  -> routeDelete(b, rec, x)
      [] rec.kind = "invalid" -> reject(b)
      [] rec.kind = "other"   -> [b EXCEPT !.tally = @ + 1]

reconcilerFor(t) == t

resource(x) == calls[x].export[calls[x].at]

tenantOf(x) == resource(x).tenant

-----------------------------------------------------------------------------
SendExport(x) ==
    /\ calls[x] = Idle
    /\ \E ex \in Exports[x] : calls' = [calls EXCEPT ![x] = [Idle EXCEPT !.export = ex, !.at = 1]]
    /\ UNCHANGED <<buffered, graph, recon, batches, failures, word>>

(* Unavailable: the producer sends the same export again. *)
resend(x) == calls' = [calls EXCEPT ![x] = [Idle EXCEPT !.export = calls[x].export, !.at = 1]]

inResource(x) == calls[x].at \in 1..Len(calls[x].export)
holdsBatch(x) == inResource(x) /\ batches[tenantOf(x)].by = x

(* Export: resolving the tenant fails for now. *)
TenantUnavailable(x) ==
    /\ inResource(x) /\ ~holdsBatch(x) /\ failures < MaxFailures
    /\ failures' = failures + 1
    /\ resend(x)
    /\ UNCHANGED <<buffered, graph, recon, batches, word>>

(* Engine.Batch takes obsMu. *)
BeginBatch(x) ==
    /\ inResource(x) /\ batches[tenantOf(x)] = NoBatch
    /\ batches' = [batches EXCEPT ![tenantOf(x)] =
          [by |-> x, next |-> 1, g |-> graph[tenantOf(x)], r |-> recon[reconcilerFor(tenantOf(x))],
           word |-> word[tenantOf(x)], undo |-> <<>>, events |-> FALSE, err |-> FALSE,
           tally |-> calls[x].tally, rejected |-> calls[x].rejected]]
    /\ UNCHANGED <<buffered, graph, recon, calls, failures, word>>

(* Export's Batch closure, one record; an error other than a refusal ends it. *)
RouteRecord(x) ==
    /\ holdsBatch(x)
    /\ LET b == batches[tenantOf(x)]
       IN  /\ ~b.err /\ b.next <= Len(resource(x).records)
           /\ batches' = [batches EXCEPT ![tenantOf(x)] =
                 [route(b, resource(x).records[b.next], x) EXCEPT !.next = b.next + 1]]
    /\ UNCHANGED <<buffered, graph, recon, calls, failures, word>>

routed(x) ==
    holdsBatch(x) /\ LET b == batches[tenantOf(x)] IN b.err \/ b.next > Len(resource(x).records)

(* flushStaged, the append succeeding; a routing error is returned after what came   *)
(* before it was flushed.                                                            *)
FlushBatch(x) ==
    /\ routed(x)
    /\ LET t == tenantOf(x)
           b == batches[t]
       IN  /\ graph' = [graph EXCEPT ![t] = b.g]
           /\ recon' = [recon EXCEPT ![reconcilerFor(t)] = b.r]
           /\ word' = [word EXCEPT ![t] = b.word]
           /\ batches' = [batches EXCEPT ![t] = NoBatch]
           /\ \/ b.err /\ resend(x)
              \/ /\ ~b.err
                 /\ calls' = [calls EXCEPT ![x] =
                       [@ EXCEPT !.at = @ + 1, !.tally = b.tally, !.rejected = b.rejected]]
    /\ UNCHANGED <<buffered, failures>>

rolledBack(b) == FoldLeft(LAMBDA r, u : listing(r, u[1], u[2]), b.r, b.undo)

(* The append fails: the projection stays, references and buffer do not. *)
FlushFails(x) ==
    /\ routed(x) /\ failures < MaxFailures
    /\ LET t == tenantOf(x)
           b == batches[t]
       IN  /\ b.events
           /\ graph' = [graph EXCEPT ![t] = [b.g EXCEPT !.ents = graph[t].ents, !.edges = graph[t].edges]]
           /\ recon' = [recon EXCEPT ![reconcilerFor(t)] = rolledBack(b)]
           /\ batches' = [batches EXCEPT ![t] = NoBatch]
    /\ failures' = failures + 1
    /\ resend(x)
    /\ UNCHANGED <<buffered, word>>

(* The response, with the rejected records as partial success. *)
Acknowledge(x) ==
    /\ calls[x].export # <<>> /\ ~inResource(x)
    /\ calls' = [calls EXCEPT ![x] = Idle]
    /\ UNCHANGED <<buffered, graph, recon, batches, failures, word>>

IngestNext ==
    \E x \in Senders : \/ SendExport(x) \/ TenantUnavailable(x) \/ BeginBatch(x)
                       \/ RouteRecord(x) \/ FlushBatch(x) \/ FlushFails(x) \/ Acknowledge(x)

(* A call in progress goes on, and obsMu is handed to whoever keeps waiting for it. *)
IngestFairness ==
    \A x \in Senders : /\ WF_ingestVars(RouteRecord(x) \/ FlushBatch(x) \/ Acknowledge(x))
                       /\ SF_ingestVars(BeginBatch(x))

-----------------------------------------------------------------------------
claimsOf(t) == graph[t].relRefs \cup graph[t].parked

(* Between exports the edges of each tenant are those its speakers listed last on    *)
(* the entities they assert: an edge a speaker stopped listing is gone although      *)
(* batches failed on the way, one a speaker lists is there or waits, and no other    *)
(* speaker, method or tenant takes part (reconcile, OnRollback, reconcilerFor).      *)
WordsHonoured ==
    (\A x \in Senders : calls[x] = Idle) =>
        \A t \in IngestTenants, x \in Senders :
          /\ \A c \in claimsOf(t) : c[3] = x /\ <<c[1], x>> \in graph[t].refs
                                      => <<x, c[1], c[2]>> \in word[t]
          /\ \A w \in word[t] : <<w[2], w[3], w[1]>> \in claimsOf(t)
          /\ graph[t].edges = {<<c[1], c[2]>> : c \in graph[t].relRefs}

(* A producer is told OK only when each of its records was applied, ignored or        *)
(* counted as rejected, once, whatever its siblings were (Export).                   *)
AcksAccountForRecords ==
    \A x \in Senders : calls[x].export # <<>> /\ ~inResource(x) =>
        LET of(kinds) == {<<i, j>> \in (1..Len(calls[x].export)) \X (1..4) :
                            /\ j <= Len(calls[x].export[i].records)
                            /\ calls[x].export[i].records[j].kind \in kinds}
        IN  /\ calls[x].tally = Cardinality(of({"state", "delete", "invalid", "other"}))
            /\ calls[x].rejected = Cardinality(of({"invalid"})) +
                 Cardinality({p \in of({"state"}) : calls[x].export[p[1]].records[p[2]].unknown})

(* What an export was answered is what became of it: the edges each source still    *)
(* lists are asserted for it and no others, and every record is accounted for       *)
(* (Export, reconcile, OnRollback).                                                 *)
ExportsHonoured ==
    WordsHonoured /\ AcksAccountForRecords

(* A producer that resends on Unavailable is acknowledged in the end: no record of   *)
(* its own can make every attempt fail (Export, errInvalidRecord).                   *)
ExportsAcknowledged ==
    IngestFairness => \A x \in Senders : calls[x].at > 0 ~> calls[x] = Idle

(* A speaker that deletes an entity takes back the edges it listed on it              *)
(* (embeddedReconciler.handleVocab).                                                  *)
DeletedSourceLeavesNoEdges ==
    \A t \in IngestTenants : \A c \in graph[t].relRefs :
        (\A x \in Senders : calls[x] = Idle) => <<c[1], c[3]>> \in graph[t].refs
=============================================================================
