------------------------------ MODULE LogShip ------------------------------
(***************************************************************************)
(* Continuous log shipping of one tenant (internal/logship): the maintenance *)
(* loop of toise-server ships the log's new tail to an object store as one   *)
(* immutable segment per pass, deriving where to resume from the segments    *)
(* already there, and restore-log rebuilds a data dir from them.             *)
(*                                                                           *)
(* A pass is three steps (the cursor and Store.Sequence, the scan, the Put)  *)
(* between which the engine appends, the retention jobs delete and the       *)
(* server may crash.  A Put that reports an error may have landed.           *)
(*                                                                           *)
(* Abstractions.  An event is its rank in the order of all appends, so a     *)
(* segment's frames are a set; encoding and decoding are left out.  A        *)
(* segment is its name's two sequence numbers and its events: both sinks     *)
(* publish an object whole or not at all.                                    *)
(***************************************************************************)
EXTENDS Naturals, FiniteSets, Sequences

CONSTANTS ShipDeployments, \* sets of "drop" (retention or coalescing runs) and
                           \* "restore" (the data dir may be lost and restored)
          MaxEvents        \* bound: events appended

ASSUME ShipAssumption ==
    /\ ShipDeployments \subseteq SUBSET {"drop", "restore"}
    /\ MaxEvents \in Nat

VARIABLES shipJobs,  \* what this deployment does
          eventLog,  \* every event the store has appended, by sequence number
          inStore,   \* the sequence numbers whose records are still there
          segments,  \* the objects in the sink
          cursor,    \* Shipper.cursor: {} when not cached, else {last shipped}
          shipping,  \* the running Ship
          appended   \* events appended so far, by any incarnation of the store

shipVars == <<shipJobs, eventLog, inStore, segments, cursor, shipping, appended>>

ShipEvents == 1..MaxEvents

Segment == [from : Nat, to : Nat, events : SUBSET ShipEvents]

idleShip == [step |-> "idle", from |-> 0, to |-> 0, events |-> {}]

shippedSeqs == {0} \cup {s.to : s \in segments}

(* lastShipped without the cache: the highest sequence in the sink. *)
lastShipped == CHOOSE n \in shippedSeqs : \A m \in shippedSeqs : m <= n

(* The frames of the range (from, to]. *)
scanned(from, to) == {eventLog[s] : s \in {x \in inStore : from < x /\ x <= to}}

(* Mutant: a gap or an overlap goes unnoticed. *)
ReplayUnchecked(segs) ==
    [ok     |-> TRUE,
     next   |-> CHOOSE n \in {0} \cup {s.to : s \in segs} : \A s \in segs : s.to <= n,
     events |-> UNION {s.events : s \in segs}]

(* Replay: each segment resumes exactly where another one ended, the first at   *)
(* the log's start, and no two at the same place; anything else, a gap or an     *)
(* overlap, is a hard error.                                                     *)
Replay(segs) ==
    [ok     |-> /\ \A s \in segs : s.from = 0 \/ \E p \in segs : p.to = s.from
                /\ \A s, t \in segs : s.from = t.from => s = t,
     next   |-> CHOOSE n \in {0} \cup {s.to : s \in segs} : \A s \in segs : s.to <= n,
     events |-> UNION {s.events : s \in segs}]

(* The events in the order they were appended in. *)
inOrder(events) ==
    CHOOSE log \in [1..Cardinality(events) -> events] :
        \A i, j \in DOMAIN log : i < j => log[i] < log[j]

-----------------------------------------------------------------------------
ShipInit ==
    /\ shipJobs \in ShipDeployments
    /\ eventLog = <<>>
    /\ inStore = {}
    /\ segments = {}
    /\ cursor = {}
    /\ shipping = idleShip
    /\ appended = 0

(* Store.Append of one event. *)
ShipAppend ==
    /\ appended < MaxEvents
    /\ appended' = appended + 1
    /\ eventLog' = Append(eventLog, appended + 1)
    /\ inStore' = inStore \cup {Len(eventLog) + 1}
    /\ UNCHANGED <<shipJobs, segments, cursor, shipping>>

(* Heartbeat coalescing or retention deletes a record, shipped or not. *)
ShipDrop ==
    /\ "drop" \in shipJobs
    /\ \E s \in inStore : inStore' = inStore \ {s}
    /\ UNCHANGED <<shipJobs, eventLog, segments, cursor, shipping, appended>>

(* Ship up to the read of Store.Sequence. *)
ShipBegin ==
    LET from == IF cursor = {} THEN lastShipped ELSE CHOOSE n \in cursor : TRUE
    IN  /\ shipping.step = "idle"
        /\ cursor' = {from}
        /\ shipping' = IF Len(eventLog) <= from THEN idleShip
                       ELSE [idleShip EXCEPT !.step = "scan", !.from = from,
                                             !.to = Len(eventLog)]
        /\ UNCHANGED <<shipJobs, eventLog, inStore, segments, appended>>

(* The scan; with nothing left in the range the pass ends and the cursor stays. *)
ShipScan ==
    LET events == scanned(shipping.from, shipping.to)
    IN  /\ shipping.step = "scan"
        /\ shipping' = IF events = {} THEN idleShip
                       ELSE [shipping EXCEPT !.step = "put", !.events = events]
        /\ UNCHANGED <<shipJobs, eventLog, inStore, segments, cursor, appended>>

segment == [from |-> shipping.from, to |-> shipping.to, events |-> shipping.events]

(* An object of the same name is replaced. *)
putSegment == {s \in segments : <<s.from, s.to>> # <<segment.from, segment.to>>} \cup {segment}

(* Mutant: a failed Put keeps the cached cursor. *)
ShipPutKeepsCursor(landed, reported) ==
    /\ shipping.step = "put"
    /\ reported => landed
    /\ segments' = IF landed THEN putSegment ELSE segments
    /\ cursor' = IF reported THEN {shipping.to} ELSE cursor
    /\ shipping' = idleShip
    /\ UNCHANGED <<shipJobs, eventLog, inStore, appended>>

(* Mutant: a failed Put still advances the cached cursor. *)
ShipPutAdvances(landed, reported) ==
    /\ shipping.step = "put"
    /\ reported => landed
    /\ segments' = IF landed THEN putSegment ELSE segments
    /\ cursor' = {shipping.to}
    /\ shipping' = idleShip
    /\ UNCHANGED <<shipJobs, eventLog, inStore, appended>>

(* The Put: whether the object landed, and whether that was reported. *)
ShipPut(landed, reported) ==
    /\ shipping.step = "put"
    /\ reported => landed
    /\ segments' = IF landed THEN putSegment ELSE segments
    /\ cursor' = IF reported THEN {shipping.to} ELSE {}
    /\ shipping' = idleShip
    /\ UNCHANGED <<shipJobs, eventLog, inStore, appended>>

(* The server dies; a Put under way may have landed. *)
ShipCrash(landed) ==
    /\ landed => shipping.step = "put"
    /\ segments' = IF landed THEN putSegment ELSE segments
    /\ cursor' = {}
    /\ shipping' = idleShip
    /\ UNCHANGED <<shipJobs, eventLog, inStore, appended>>

(* restore-log into a fresh data dir: the replayed events are appended in      *)
(* order, numbered from 1, and the server is pointed at it.                    *)
ShipRestore ==
    LET r == Replay(segments)
    IN  /\ "restore" \in shipJobs
        /\ segments # {} /\ r.ok
        /\ eventLog' = inOrder(r.events)
        /\ inStore' = 1..Cardinality(r.events)
        /\ cursor' = {}
        /\ shipping' = idleShip
        /\ UNCHANGED <<shipJobs, segments, appended>>

ShipNext ==
    \/ ShipAppend \/ ShipDrop
    \/ ShipBegin \/ ShipScan
    \/ \E landed, reported \in BOOLEAN : ShipPut(landed, reported)
    \/ \E landed \in BOOLEAN : ShipCrash(landed)
    \/ ShipRestore

ShipSpec == ShipInit /\ [][ShipNext]_shipVars

-----------------------------------------------------------------------------
shippedEvents == UNION {s.events : s \in segments}

ShipTypeOK ==
    /\ shipJobs \in ShipDeployments
    /\ eventLog \in Seq(ShipEvents) /\ inStore \subseteq DOMAIN eventLog
    /\ segments \subseteq Segment
    /\ cursor \subseteq Nat
    /\ shipping \in [step : {"idle", "scan", "put"}, from : Nat, to : Nat,
                     events : SUBSET ShipEvents]
    /\ appended \in 0..MaxEvents

(* Shipping implements the replicated log of module ReplicatedLog: whatever     *)
(* crashes and whatever an ambiguous Put did, each landed segment carries the   *)
(* copy from exactly where it ended, skipping nothing still in the store and    *)
(* shipping nothing twice (Ship, lastShipped).                                  *)
Replicated == INSTANCE ReplicatedLog WITH
    Events <- ShipEvents, written <- eventLog, held <- inStore,
    copy <- shippedEvents, frontier <- lastShipped

ShippingReplicates == Replicated!LogSpec

(* Replay never rebuilds a divergent log: of whatever part of the segments is   *)
(* left in the sink, it either refuses or returns everything shipped up to some *)
(* sequence and nothing after it (Replay's chain validation).                   *)
ReplayNeverDiverges ==
    \A left \in SUBSET segments :
        LET r == Replay(left)
        IN  r.ok => /\ r.events = UNION {s.events : s \in {x \in segments : x.to <= r.next}}
                    /\ \A s \in inStore : s <= r.next /\ r.next <= Len(eventLog) =>
                           eventLog[s] \in r.events

(* No event is skipped: what the cursor says is shipped is in the sink, so a    *)
(* restart, or a data dir restored from the segments, never resumes past an     *)
(* event it has not shipped (lastShipped, restore-log).                         *)
NothingSkipped ==
    \A s \in inStore : s <= lastShipped => eventLog[s] \in shippedEvents

-----------------------------------------------------------------------------
(* The ticker of the shipping loop keeps firing, and of the passes it starts    *)
(* not every one is cut short by a crash or a failed Put.                      *)
ShipFairness ==
    /\ WF_shipVars(ShipBegin)
    /\ SF_shipVars(ShipScan)
    /\ SF_shipVars(ShipPut(TRUE, TRUE))

(* Every event still in the store reaches the sink (the shipping loop).         *)
EventsReachTheSink ==
    ShipFairness =>
        \A e \in ShipEvents :
            (\E s \in inStore : eventLog[s] = e) ~>
                (e \in shippedEvents \/ \A s \in inStore : eventLog[s] # e)
=============================================================================
