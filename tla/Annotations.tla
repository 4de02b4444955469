---------------------------- MODULE Annotations ----------------------------
(***************************************************************************)
(* The operator annotations of one entity on several nodes                  *)
(* (internal/annotations): each node keeps a sidecar row per key, and the    *)
(* maintenance loop of each node reconciles its rows with those in the       *)
(* shared object store, last writer wins (SyncOnce).  The nodes meet only    *)
(* there, and the store has no conditional write.                            *)
(*                                                                           *)
(* A row is keyed by the entity's identity fingerprint, the same on every    *)
(* node; rows written by an earlier release sit under the logical id, which  *)
(* each node minted for itself, and GetAt migrates them when it meets them.  *)
(*                                                                           *)
(* Abstractions.  Of a row's values only the keys present are kept, and its  *)
(* author is left out.  Clocks agree and no two writes carry one timestamp,  *)
(* as SyncOnce assumes.  A pass is a step per object pulled and pushed.      *)
(***************************************************************************)
EXTENDS Naturals, FiniteSets, Functions, TLC

CONSTANTS Nodes,
          Tags,                  \* the keys of an annotation's values
          AnnotationDeployments, \* sets of "sync" (log shipping is on), "legacy" (a
                                 \* node holds a row under a logical id), "torn" (a
                                 \* migration may stop before its Delete), "handles"
                                 \* (GraphQL annotates by fingerprint) and "overlap"
                                 \* (a write may come between a pull's comparison
                                 \* and its Apply)
          MaxWrites              \* bound: annotations written

ASSUME AnnotationAssumption ==
    /\ AnnotationDeployments \subseteq 
           SUBSET {"sync", "legacy", "torn", "handles", "overlap"}
    /\ MaxWrites \in Nat

VARIABLES annotated,  \* what this deployment has
          rows,       \* node -> key -> row
          shared,     \* the object store: key -> row
          syncing,    \* node -> its running SyncOnce
          clock,      \* the time of the last write
          newest      \* history: the last row an operator wrote

annotationVars == <<annotated, rows, shared, syncing, clock, newest>>

identityKey == <<>>

legacyKey(n) == <<n>>

Keys == {identityKey} \cup {legacyKey(n) : n \in Nodes}

Row == [values : SUBSET Tags, at : 0..MaxWrites]

noRow == [values |-> {}, at |-> 0]

Rows == UNION {[S -> Row] : S \in SUBSET Keys}

put(f, k, row) == (k :> row) @@ f

drop(f, k) == Restrict(f, DOMAIN f \ {k})

idleSync == [step |-> "idle", todo |-> {}, seen |-> << >>, apply |-> << >>]

(* Get hides a tombstone. *)
found(f, k) == k \in DOMAIN f /\ f[k].values # {}

(* GetAt on node n: with nothing under the identity key, a row under the        *)
(* logical id is moved there; the old one survives a crash or a failed Delete   *)
(* between the two writes.                                                      *)
migrated(n, cleared) ==
    LET f == rows[n]
        moved == put(f, identityKey, f[legacyKey(n)])
    IN  IF found(f, identityKey) \/ ~found(f, legacyKey(n)) THEN f
        ELSE IF cleared THEN drop(moved, legacyKey(n)) ELSE moved

-----------------------------------------------------------------------------
AnnotationInit ==
    /\ annotated \in AnnotationDeployments
    /\ rows \in [Nodes -> {<< >>} \cup
                    (IF "legacy" \in annotated
                     THEN {legacyKey(n) :> [values |-> Tags, at |-> 0] : n \in Nodes} ELSE {})]
    /\ \A n \in Nodes : DOMAIN rows[n] \subseteq {legacyKey(n)}
    /\ shared = << >>
    /\ syncing = [n \in Nodes |-> idleSync]
    /\ clock = 0
    /\ newest = noRow

(* Set, merging one key into the row f holds. *)
merged(f, tag, present, at) ==
    LET current == IF found(f, identityKey) THEN f[identityKey].values ELSE {}
    IN  [values |-> IF present THEN current \cup {tag} ELSE current \ {tag}, at |-> at]

(* annotate_entity and annotateEntity, through SetAt.  By a handle that is not  *)
(* the logical id, GraphQL finds no legacy row to migrate.                      *)
Annotate(n, tag, present, byID, cleared) ==
    LET f == IF byID THEN migrated(n, cleared) ELSE rows[n]
        row == merged(f, tag, present, clock + 1)
    IN  /\ clock < MaxWrites
        /\ clock' = clock + 1
        /\ rows' = [rows EXCEPT ![n] = put(f, identityKey, row)]
        /\ newest' = row
        /\ UNCHANGED <<annotated, shared, syncing>>

(* A read of the entity's annotation, which may migrate it. *)
ReadAnnotation(n, cleared) ==
    /\ migrated(n, cleared) # rows[n]
    /\ rows' = [rows EXCEPT ![n] = migrated(n, cleared)]
    /\ UNCHANGED <<annotated, shared, syncing, clock, newest>>

-----------------------------------------------------------------------------
(* SyncOnce. *)

SyncList(n) ==
    /\ "sync" \in annotated /\ syncing[n].step = "idle"
    /\ syncing' = [syncing EXCEPT ![n] = [idleSync EXCEPT !.step = "pull",
                                                         !.todo = DOMAIN shared]]
    /\ UNCHANGED <<annotated, rows, shared, clock, newest>>

(* A remote row is applied when there is none here or it is strictly newer. *)
newer(f, k, row) == k \notin DOMAIN f \/ row.at > f[k].at

(* Get, rawGet and, unless a write overlaps, Apply. *)
SyncPull(n, k) ==
    LET row == shared[k]
    IN  /\ syncing[n].step = "pull" /\ k \in syncing[n].todo /\ syncing[n].apply = << >>
        /\ \E overlap \in {"overlap" \in annotated /\ newer(rows[n], k, row), FALSE} :
             /\ syncing' = [syncing EXCEPT ![n].todo = @ \ {k},
                                           ![n].seen = put(@, k, row),
                                           ![n].apply = IF overlap THEN k :> row ELSE << >>]
             /\ rows' = IF newer(rows[n], k, row) /\ ~overlap
                        THEN [rows EXCEPT ![n] = put(@, k, row)] ELSE rows
        /\ UNCHANGED <<annotated, shared, clock, newest>>

(* The Apply of a comparison made earlier. *)
SyncApply(n) ==
    /\ syncing[n].apply # << >>
    /\ rows' = [rows EXCEPT ![n] = syncing[n].apply @@ @]
    /\ syncing' = [syncing EXCEPT ![n].apply = << >>]
    /\ UNCHANGED <<annotated, shared, clock, newest>>

(* Mutant: only rows the store lacks are pushed. *)
pushableAbsent(f, seen) == {k \in DOMAIN f : k \notin DOMAIN seen}

(* Scan's filter: absent from the store as this pass saw it, or newer. *)
pushable(f, seen) == {k \in DOMAIN f : k \in DOMAIN seen => f[k].at > seen[k].at}

SyncScan(n) ==
    LET outgoing == pushable(rows[n], syncing[n].seen)
    IN  /\ syncing[n].step = "pull" /\ syncing[n].todo = {} /\ syncing[n].apply = << >>
        /\ syncing' = [syncing EXCEPT ![n] =
               IF outgoing = {} THEN idleSync
               ELSE [idleSync EXCEPT !.step = "push", !.todo = outgoing,
                                     !.seen = Restrict(rows[n], outgoing)]]
        /\ UNCHANGED <<annotated, rows, shared, clock, newest>>

(* An unconditional Put, although another node may have written since. *)
SyncPush(n, k) ==
    LET left == syncing[n].todo \ {k}
    IN  /\ syncing[n].step = "push" /\ k \in syncing[n].todo
        /\ shared' = put(shared, k, syncing[n].seen[k])
        /\ syncing' = [syncing EXCEPT ![n] =
                          IF left = {} THEN idleSync ELSE [@ EXCEPT !.todo = left]]
        /\ UNCHANGED <<annotated, rows, clock, newest>>

(* A Get, a Put or the server fails: the pass ends where it is. *)
SyncFail(n) ==
    /\ syncing[n].step # "idle"
    /\ syncing' = [syncing EXCEPT ![n] = idleSync]
    /\ UNCHANGED <<annotated, rows, shared, clock, newest>>

(* Whether the handle is the logical id, and whether a migration ends. *)
byIDs == {TRUE, "handles" \notin annotated}

clears == {TRUE, "torn" \notin annotated}

AnnotationNext ==
    \E n \in Nodes :
        \/ \E tag \in Tags, present \in BOOLEAN, byID \in byIDs, cleared \in clears :
              Annotate(n, tag, present, byID, cleared)
        \/ \E cleared \in clears : ReadAnnotation(n, cleared)
        \/ SyncList(n)
        \/ \E k \in Keys : SyncPull(n, k) \/ SyncPush(n, k)
        \/ SyncScan(n) \/ SyncFail(n)

(* With writes that come between a pull's comparison and its Apply. *)
AnnotationOverlapNext == AnnotationNext \/ \E n \in Nodes : SyncApply(n)

-----------------------------------------------------------------------------
AnnotationTypeOK ==
    /\ annotated \in AnnotationDeployments
    /\ rows \in [Nodes -> Rows] /\ shared \in Rows
    /\ \A n \in Nodes : syncing[n].step \in {"idle", "pull", "push"}
    /\ clock \in 0..MaxWrites /\ newest \in Row

(* Last writer wins: the row under the entity's identity never goes back to an  *)
(* older one, so a removed annotation does not come back and an overwritten one *)
(* does not return (SyncOnce, the tombstones of Set, GetAt's migration).        *)
RowsNeverRegress ==
    [][\A n \in Nodes : identityKey \in DOMAIN rows[n] =>
          /\ identityKey \in DOMAIN rows'[n]
          /\ rows'[n][identityKey].at >= rows[n][identityKey].at]_annotationVars

(* No operator's note is lost to a race: the newest row is on some node,        *)
(* whatever another node pushed over it in the store (SyncOnce).                *)
NewestKept ==
    clock > 0 => \E n \in Nodes : /\ identityKey \in DOMAIN rows[n]
                                  /\ rows[n][identityKey] = newest

-----------------------------------------------------------------------------
(* The maintenance loop keeps starting passes, and not every one fails. *)
AnnotationFairness ==
    \A n \in Nodes :
        /\ WF_annotationVars(SyncList(n))
        /\ SF_annotationVars(\E k \in Keys : SyncPull(n, k))
        /\ SF_annotationVars(SyncScan(n))
        /\ SF_annotationVars(\E k \in Keys : SyncPush(n, k))

(* The nodes converge: once operators stop writing, every node ends with the    *)
(* newest row and keeps it, although a stale Put may overwrite it in the store  *)
(* on the way (SyncOnce).                                                       *)
NodesConverge ==
    AnnotationFairness =>
    [](clock > 0 /\ "sync" \in annotated =>
         <>(\A n \in Nodes : identityKey \in DOMAIN rows[n] /\ rows[n][identityKey] = newest))
=============================================================================
