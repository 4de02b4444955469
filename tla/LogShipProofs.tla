---------------------------- MODULE LogShipProofs ----------------------------
(***************************************************************************)
(* Log shipping implements the replicated log, for any number of events and  *)
(* whatever is dropped from the store, crashes or is reported wrongly by a   *)
(* Put, as long as no data dir is rebuilt from the segments.                  *)
(*                                                                          *)
(* A pass reads its range, scans it and puts it in three steps.  What keeps   *)
(* the copy without gaps is that the range in hand always starts where the    *)
(* sink ends, which the cached cursor knows or does not claim to know, and    *)
(* that a scan takes no less than the store holds of its range when the Put   *)
(* lands: records go meanwhile, but none is added below the range's end.      *)
(***************************************************************************)
EXTENDS LogShip, TLAPS

(* The sink's sequence numbers have a greatest one, within the log. *)
SinkBounded ==
    /\ \E n \in shippedSeqs : \A m \in shippedSeqs : m <= n
    /\ lastShipped <= Len(eventLog)

ShipType ==
    /\ "restore" \notin shipJobs
    /\ eventLog \in Seq(ShipEvents) /\ appended \in Nat
    /\ inStore \subseteq 1..Len(eventLog)
    /\ \A s \in segments : s.to \in Nat
    /\ shipping \in [step : {"idle", "scan", "put"}, from : Nat, to : Nat,
                     events : SUBSET ShipEvents]

(* The cursor is where the sink ends, or not cached. *)
CursorExact == cursor \in {{}, {lastShipped}}

(* The range in hand starts there too and ends within the log. *)
RangeNext ==
    shipping.step # "idle" =>
        shipping.from = lastShipped /\ shipping.from < shipping.to /\ shipping.to <= Len(eventLog)

(* What was scanned is all of the range that the store still holds. *)
ScanComplete ==
    shipping.step = "put" =>
        \E taken \in SUBSET ((shipping.from + 1)..shipping.to) :
            /\ inStore \cap ((shipping.from + 1)..shipping.to) \subseteq taken
            /\ shipping.events = {eventLog[s] : s \in taken}

ShipInv == ShipType /\ SinkBounded /\ CursorExact /\ RangeNext /\ ScanComplete

-----------------------------------------------------------------------------
(* lastShipped is the greatest sequence number in the sink. *)
LEMMA LastShippedIs ==
    ASSUME \A s \in segments : s.to \in Nat,
           NEW n \in shippedSeqs, \A m \in shippedSeqs : m <= n
    PROVE  lastShipped = n
  <1>1. shippedSeqs \subseteq Nat
    BY DEF shippedSeqs
  <1>2. lastShipped \in shippedSeqs /\ \A m \in shippedSeqs : m <= lastShipped
    BY DEF lastShipped
  <1> QED BY <1>1, <1>2

LEMMA LastShippedTop ==
    ASSUME ShipInv
    PROVE  lastShipped \in Nat /\ lastShipped \in shippedSeqs /\ \A m \in shippedSeqs : m <= lastShipped
  <1>1. PICK n \in shippedSeqs : \A m \in shippedSeqs : m <= n
    BY DEF ShipInv, SinkBounded
  <1>2. lastShipped = n
    BY <1>1, LastShippedIs DEF ShipInv, ShipType
  <1>3. n \in Nat
    BY DEF shippedSeqs, ShipInv, ShipType
  <1> QED BY <1>1, <1>2, <1>3

LEMMA ShipInitInv == ShipInit /\ "restore" \notin shipJobs => ShipInv
  <1> SUFFICES ASSUME ShipInit, "restore" \notin shipJobs PROVE ShipInv
    OBVIOUS
  <1>1. shippedSeqs = {0}
    BY DEF ShipInit, shippedSeqs
  <1>2. lastShipped = 0
    BY <1>1, LastShippedIs DEF ShipInit
  <1>3. ShipType
    BY DEF ShipInit, ShipType, idleShip
  <1>4. SinkBounded /\ CursorExact /\ RangeNext /\ ScanComplete
    BY <1>1, <1>2 DEF ShipInit, SinkBounded, CursorExact, RangeNext, ScanComplete, idleShip
  <1> QED BY <1>3, <1>4 DEF ShipInv

(* A segment lands: the sink grows by the range in hand and ends where it ends. *)
LEMMA Landed ==
    ASSUME ShipInv, shipping.step = "put", segments' = putSegment
    PROVE  /\ lastShipped' = shipping.to
           /\ shippedEvents' = shippedEvents \cup shipping.events
           /\ shippedSeqs' = shippedSeqs \cup {shipping.to}
           /\ \A s \in segments' : s.to \in Nat
           /\ \A m \in shippedSeqs' : m <= shipping.to
  <1>1. /\ shipping.from \in Nat /\ shipping.to \in Nat /\ shipping.from = lastShipped
        /\ shipping.from < shipping.to
    BY DEF ShipInv, ShipType, RangeNext
  <1>2. /\ segment.to = shipping.to /\ segment.from = shipping.from
        /\ segment.events = shipping.events
    BY DEF segment
  <1>3. \A s \in segments : s.to <= lastShipped
    BY LastShippedTop DEF shippedSeqs
  <1>4. \A s \in segments : s.to \in Nat /\ s.to # shipping.to
    BY <1>1, <1>3 DEF ShipInv, ShipType
  <1>5. segments' = segments \cup {segment}
    BY <1>2, <1>4 DEF putSegment
  <1>6. shippedSeqs' = shippedSeqs \cup {shipping.to}
    BY <1>2, <1>5 DEF shippedSeqs
  <1>7. shippedEvents' = shippedEvents \cup shipping.events
    BY <1>2, <1>5 DEF shippedEvents
  <1>8. \A s \in segments' : s.to \in Nat
    BY <1>1, <1>2, <1>4, <1>5
  <1>9. shippedSeqs \subseteq Nat
    BY <1>4 DEF shippedSeqs
  <1>10. \A m \in shippedSeqs' : m <= shipping.to
    BY <1>1, <1>6, <1>9, LastShippedTop
  <1>11. lastShipped' \in shippedSeqs' /\ \A m \in shippedSeqs' : m <= lastShipped'
    BY <1>6, <1>10 DEF lastShipped
  <1>12. lastShipped' = shipping.to
    BY <1>1, <1>6, <1>9, <1>10, <1>11
  <1> QED BY <1>6, <1>7, <1>8, <1>10, <1>12

LEMMA SinkKept ==
    ASSUME segments' = segments
    PROVE  lastShipped' = lastShipped /\ shippedSeqs' = shippedSeqs /\ shippedEvents' = shippedEvents
  <1>1. shippedSeqs' = shippedSeqs /\ shippedEvents' = shippedEvents
    BY DEF shippedSeqs, shippedEvents
  <1> QED BY <1>1 DEF lastShipped

(* With the pass over, whatever became of its segment leaves the invariant. *)
LEMMA PassOver ==
    ASSUME ShipInv, shipping' = idleShip, UNCHANGED <<shipJobs, eventLog, inStore, appended>>,
           NEW landed \in BOOLEAN, landed => shipping.step = "put",
           segments' = IF landed THEN putSegment ELSE segments,
           \/ cursor' = {}
           \/ landed /\ cursor' = {shipping.to}
    PROVE  ShipInv'
  <1>1. CASE landed
    <2>1. /\ lastShipped' = shipping.to
          /\ shippedSeqs' = shippedSeqs \cup {shipping.to}
          /\ \A s \in segments' : s.to \in Nat
          /\ \A m \in shippedSeqs' : m <= shipping.to
      BY <1>1, Landed
    <2>2. shipping.to <= Len(eventLog)
      BY <1>1 DEF ShipInv, RangeNext
    <2>3. SinkBounded'
      BY <2>1, <2>2 DEF SinkBounded
    <2>4. ShipType'
      BY <2>1 DEF ShipInv, ShipType, idleShip
    <2>5. CursorExact' /\ RangeNext' /\ ScanComplete'
      BY <2>1 DEF CursorExact, RangeNext, ScanComplete, idleShip
    <2> QED BY <2>3, <2>4, <2>5 DEF ShipInv
  <1>2. CASE ~landed
    <2>1. segments' = segments
      BY <1>2
    <2>2. SinkBounded'
      BY <2>1, SinkKept DEF ShipInv, SinkBounded
    <2>3. ShipType'
      BY <2>1 DEF ShipInv, ShipType, idleShip
    <2>4. CursorExact' /\ RangeNext' /\ ScanComplete'
      BY <1>2 DEF CursorExact, RangeNext, ScanComplete, idleShip
    <2> QED BY <2>2, <2>3, <2>4 DEF ShipInv
  <1> QED BY <1>1, <1>2

LEMMA AppendInv == ShipInv /\ ShipAppend => ShipInv'
  <1> SUFFICES ASSUME ShipInv, ShipAppend PROVE ShipInv'
    OBVIOUS
  <1>1. appended + 1 \in ShipEvents /\ eventLog \in Seq(ShipEvents) /\ appended + 1 \in Nat
    BY ShipAssumption DEF ShipInv, ShipType, ShipAppend, ShipEvents
  <1>2. /\ eventLog' \in Seq(ShipEvents)
        /\ Len(eventLog') = Len(eventLog) + 1
        /\ \A s \in 1..Len(eventLog) : eventLog'[s] = eventLog[s]
        /\ Len(eventLog) \in Nat
    BY <1>1 DEF ShipAppend
  <1>3. inStore' \subseteq 1..Len(eventLog')
    <2>1. inStore \subseteq 1..Len(eventLog) /\ inStore' = inStore \cup {Len(eventLog) + 1}
      BY DEF ShipInv, ShipType, ShipAppend
    <2>2. 1..Len(eventLog) \subseteq 1..(Len(eventLog) + 1)
          /\ Len(eventLog) + 1 \in 1..(Len(eventLog) + 1)
      BY <1>2
    <2> QED BY <1>2, <2>1, <2>2
  <1>4. /\ lastShipped' = lastShipped /\ shippedSeqs' = shippedSeqs /\ lastShipped \in Nat
        /\ shipping' = shipping /\ cursor' = cursor
    BY SinkKept, LastShippedTop DEF ShipAppend
  <1>5. SinkBounded' /\ CursorExact'
    BY <1>2, <1>4 DEF ShipInv, SinkBounded, CursorExact
  <1>6. RangeNext'
    BY <1>2, <1>4 DEF ShipInv, RangeNext, ShipType
  <1>7. ASSUME shipping.step = "put"
        PROVE  \E taken \in SUBSET ((shipping.from + 1)..shipping.to) :
                  /\ inStore' \cap ((shipping.from + 1)..shipping.to) \subseteq taken
                  /\ shipping.events = {eventLog'[s] : s \in taken}
    <2>1. PICK taken \in SUBSET ((shipping.from + 1)..shipping.to) :
              /\ inStore \cap ((shipping.from + 1)..shipping.to) \subseteq taken
              /\ shipping.events = {eventLog[s] : s \in taken}
      BY <1>7 DEF ShipInv, ScanComplete
    <2>2. /\ shipping.to <= Len(eventLog) /\ shipping.from \in Nat /\ shipping.to \in Nat
      BY <1>7 DEF ShipInv, RangeNext, ShipType
    <2>3. inStore' \cap ((shipping.from + 1)..shipping.to) \subseteq taken
      BY <1>2, <2>1, <2>2 DEF ShipAppend
    <2>4. \A s \in taken : eventLog'[s] = eventLog[s]
      BY <1>2, <2>2
    <2>5. shipping.events = {eventLog'[s] : s \in taken}
      BY <2>1, <2>4
    <2> QED BY <2>3, <2>5
  <1>8. ScanComplete'
    BY <1>4, <1>7 DEF ScanComplete
  <1>9. ShipType'
    BY <1>1, <1>2, <1>3 DEF ShipInv, ShipType, ShipAppend
  <1> QED BY <1>5, <1>6, <1>8, <1>9 DEF ShipInv

LEMMA DropInv == ShipInv /\ ShipDrop => ShipInv'
  <1> SUFFICES ASSUME ShipInv, ShipDrop PROVE ShipInv'
    OBVIOUS
  <1>1. /\ lastShipped' = lastShipped /\ shippedSeqs' = shippedSeqs
        /\ inStore' \subseteq inStore
        /\ UNCHANGED <<shipJobs, eventLog, segments, cursor, shipping, appended>>
    BY SinkKept DEF ShipDrop
  <1>2. ShipType'
    BY <1>1 DEF ShipInv, ShipType
  <1>3. SinkBounded' /\ CursorExact' /\ RangeNext'
    BY <1>1 DEF ShipInv, SinkBounded, CursorExact, RangeNext
  <1>4. ASSUME shipping.step = "put"
        PROVE  \E taken \in SUBSET ((shipping.from + 1)..shipping.to) :
                  /\ inStore' \cap ((shipping.from + 1)..shipping.to) \subseteq taken
                  /\ shipping.events = {eventLog[s] : s \in taken}
    BY <1>1, <1>4 DEF ShipInv, ScanComplete
  <1>5. ScanComplete'
    BY <1>1, <1>4 DEF ScanComplete
  <1> QED BY <1>2, <1>3, <1>5 DEF ShipInv

LEMMA BeginInv == ShipInv /\ ShipBegin => ShipInv'
  <1> SUFFICES ASSUME ShipInv, ShipBegin PROVE ShipInv'
    OBVIOUS
  <1> DEFINE from == IF cursor = {} THEN lastShipped ELSE CHOOSE n \in cursor : TRUE
  <1>1. from = lastShipped
    BY DEF ShipInv, CursorExact
  <1> HIDE DEF from
  <1>2. /\ lastShipped' = lastShipped /\ shippedSeqs' = shippedSeqs /\ lastShipped \in Nat
        /\ UNCHANGED <<shipJobs, eventLog, inStore, segments, appended>>
        /\ cursor' = {lastShipped}
        /\ shipping' = IF Len(eventLog) <= lastShipped THEN idleShip
                       ELSE [idleShip EXCEPT !.step = "scan", !.from = lastShipped,
                                             !.to = Len(eventLog)]
    BY <1>1, SinkKept, LastShippedTop DEF ShipBegin, from
  <1>3. Len(eventLog) \in Nat
    BY DEF ShipInv, ShipType
  <1>4. ShipType'
    BY <1>2, <1>3 DEF ShipInv, ShipType, idleShip
  <1>5. SinkBounded' /\ CursorExact'
    BY <1>2 DEF ShipInv, SinkBounded, CursorExact
  <1>6. RangeNext' /\ ScanComplete'
    BY <1>2, <1>3 DEF RangeNext, ScanComplete, idleShip
  <1> QED BY <1>4, <1>5, <1>6 DEF ShipInv

LEMMA ScanInv == ShipInv /\ ShipScan => ShipInv'
  <1> SUFFICES ASSUME ShipInv, ShipScan PROVE ShipInv'
    OBVIOUS
  <1> DEFINE taken == {x \in inStore : shipping.from < x /\ x <= shipping.to}
             read  == {eventLog[s] : s \in taken}
  <1>1. /\ lastShipped' = lastShipped /\ shippedSeqs' = shippedSeqs
        /\ UNCHANGED <<shipJobs, eventLog, inStore, segments, cursor, appended>>
        /\ shipping.step = "scan"
        /\ shipping' = IF read = {} THEN idleShip
                       ELSE [shipping EXCEPT !.step = "put", !.events = read]
    BY SinkKept DEF ShipScan, scanned
  <1>2. /\ shipping.from \in Nat /\ shipping.to \in Nat
        /\ inStore \subseteq 1..Len(eventLog) /\ eventLog \in Seq(ShipEvents)
        /\ shipping \in [step : {"idle", "scan", "put"}, from : Nat, to : Nat,
                          events : SUBSET ShipEvents]
    BY DEF ShipInv, ShipType
  <1>3. read \in SUBSET ShipEvents
    <2>1. \A s \in taken : eventLog[s] \in ShipEvents
      BY <1>2
    <2> QED BY <2>1
  <1>4. taken = inStore \cap ((shipping.from + 1)..shipping.to)
    <2>1. \A x \in inStore : x \in Nat
      BY <1>2
    <2>2. \A x \in inStore : (shipping.from < x /\ x <= shipping.to)
                               <=> x \in (shipping.from + 1)..shipping.to
      BY <1>2, <2>1
    <2> QED BY <2>2
  <1>5. SinkBounded' /\ CursorExact'
    BY <1>1 DEF ShipInv, SinkBounded, CursorExact
  <1> HIDE DEF taken
  <1>6. CASE read = {}
    <2>1. shipping' = idleShip
      BY <1>1, <1>6
    <2>2. UNCHANGED <<shipJobs, eventLog, inStore, segments, appended>>
      BY <1>1
    <2>3. ShipType'
      BY <2>1, <2>2 DEF ShipInv, ShipType, idleShip
    <2>4. RangeNext' /\ ScanComplete'
      BY <2>1 DEF RangeNext, ScanComplete, idleShip
    <2> QED BY <1>5, <2>3, <2>4 DEF ShipInv
  <1>7. CASE read # {}
    <2> HIDE DEF read
    <2>1. shipping' = [shipping EXCEPT !.step = "put", !.events = read]
      BY <1>1, <1>7
    <2>2. /\ shipping'.step = "put" /\ shipping'.from = shipping.from
          /\ shipping'.to = shipping.to /\ shipping'.events = read
      BY <1>2, <2>1
    <2>3. ShipType'
      BY <1>1, <1>2, <1>3, <2>1 DEF ShipInv, ShipType
    <2>4. RangeNext'
      BY <1>1, <2>2 DEF ShipInv, RangeNext
    <2>5. \E t \in SUBSET ((shipping'.from + 1)..shipping'.to) :
              /\ inStore' \cap ((shipping'.from + 1)..shipping'.to) \subseteq t
              /\ shipping'.events = {eventLog'[s] : s \in t}
      <3>1. taken \in SUBSET ((shipping'.from + 1)..shipping'.to)
        BY <1>4, <2>2
      <3>2. inStore' \cap ((shipping'.from + 1)..shipping'.to) \subseteq taken
        BY <1>1, <1>4, <2>2
      <3>3. shipping'.events = {eventLog'[s] : s \in taken}
        BY <1>1, <2>2 DEF read
      <3> QED BY <3>1, <3>2, <3>3
    <2>6. ScanComplete'
      BY <2>5 DEF ScanComplete
    <2> QED BY <1>5, <2>3, <2>4, <2>6 DEF ShipInv
  <1> QED BY <1>6, <1>7

LEMMA StutterInv == ShipInv /\ UNCHANGED shipVars => ShipInv'
  <1> SUFFICES ASSUME ShipInv, UNCHANGED shipVars PROVE ShipInv'
    OBVIOUS
  <1>1. lastShipped' = lastShipped /\ shippedSeqs' = shippedSeqs
    BY SinkKept DEF shipVars
  <1> QED
    BY <1>1 DEF shipVars, ShipInv, ShipType, SinkBounded, CursorExact, RangeNext, ScanComplete

LEMMA ShipStep == ShipInv /\ [ShipNext]_shipVars => ShipInv'
  <1> SUFFICES ASSUME ShipInv, [ShipNext]_shipVars PROVE ShipInv'
    OBVIOUS
  <1>1. CASE ShipAppend
    BY <1>1, AppendInv
  <1>2. CASE ShipDrop
    BY <1>2, DropInv
  <1>3. CASE ShipBegin
    BY <1>3, BeginInv
  <1>4. CASE ShipScan
    BY <1>4, ScanInv
  <1>5. ASSUME NEW landed \in BOOLEAN, NEW reported \in BOOLEAN, ShipPut(landed, reported)
        PROVE  ShipInv'
    BY <1>5, PassOver DEF ShipPut
  <1>6. ASSUME NEW landed \in BOOLEAN, ShipCrash(landed)
        PROVE  ShipInv'
    BY <1>6, PassOver DEF ShipCrash
  <1>7. CASE ShipRestore
    BY <1>7 DEF ShipRestore, ShipInv, ShipType
  <1>8. CASE UNCHANGED shipVars
    BY <1>8, StutterInv
  <1> QED BY <1>1, <1>2, <1>3, <1>4, <1>5, <1>6, <1>7, <1>8 DEF ShipNext

-----------------------------------------------------------------------------
(* Every step of the shipper is a step of the replicated log, or none of it. *)
LEMMA ShipStepReplicates ==
    ShipInv /\ [ShipNext]_shipVars => [Replicated!LogNext]_(Replicated!logVars)
  <1> SUFFICES ASSUME ShipInv, [ShipNext]_shipVars
               PROVE  [Replicated!LogNext]_(Replicated!logVars)
    OBVIOUS
  <1>1. CASE ShipAppend
    <2>1. appended + 1 \in ShipEvents /\ Len(eventLog') = Len(eventLog) + 1
      BY <1>1, ShipAssumption DEF ShipInv, ShipType, ShipAppend, ShipEvents
    <2>2. Replicated!Write
      BY <1>1, <2>1, SinkKept DEF ShipAppend, Replicated!Write
    <2> QED BY <2>2 DEF Replicated!LogNext
  <1>2. CASE ShipDrop
    <2>1. Replicated!Forget
      BY <1>2, SinkKept DEF ShipDrop, Replicated!Forget
    <2> QED BY <2>1 DEF Replicated!LogNext
  <1>3. CASE ShipBegin \/ ShipScan \/ UNCHANGED shipVars
    BY <1>3, SinkKept DEF ShipBegin, ShipScan, shipVars, Replicated!logVars
  <1>4. ASSUME shipping.step = "put", segments' = putSegment, UNCHANGED <<eventLog, inStore>>
        PROVE  Replicated!Extend
    <2>1. lastShipped' = shipping.to /\ shippedEvents' = shippedEvents \cup shipping.events
      BY <1>4, Landed
    <2>2. /\ shipping.from = lastShipped /\ shipping.from < shipping.to
          /\ shipping.to <= Len(eventLog) /\ shipping.from \in Nat /\ shipping.to \in Nat
          /\ Len(eventLog) \in Nat
      BY <1>4 DEF ShipInv, ShipType, RangeNext
    <2>3. lastShipped' \in (lastShipped + 1)..Len(eventLog)
      BY <2>1, <2>2
    <2>4. PICK taken \in SUBSET ((shipping.from + 1)..shipping.to) :
              /\ inStore \cap ((shipping.from + 1)..shipping.to) \subseteq taken
              /\ shipping.events = {eventLog[s] : s \in taken}
      BY <1>4 DEF ShipInv, ScanComplete
    <2>5. \E t \in SUBSET ((lastShipped + 1)..lastShipped') :
              /\ inStore \cap ((lastShipped + 1)..lastShipped') \subseteq t
              /\ shippedEvents' = shippedEvents \cup {eventLog[s] : s \in t}
      BY <2>1, <2>2, <2>4
    <2> QED BY <1>4, <2>3, <2>5 DEF Replicated!Extend
  <1>5. ASSUME NEW landed \in BOOLEAN, landed => shipping.step = "put",
               segments' = IF landed THEN putSegment ELSE segments,
               UNCHANGED <<eventLog, inStore>>
        PROVE  [Replicated!LogNext]_(Replicated!logVars)
    <2>1. CASE landed
      BY <1>4, <1>5, <2>1 DEF Replicated!LogNext
    <2>2. CASE ~landed
      BY <1>5, <2>2, SinkKept DEF Replicated!logVars
    <2> QED BY <2>1, <2>2
  <1>6. ASSUME NEW landed \in BOOLEAN, NEW reported \in BOOLEAN, ShipPut(landed, reported)
        PROVE  [Replicated!LogNext]_(Replicated!logVars)
    BY <1>5, <1>6 DEF ShipPut
  <1>7. ASSUME NEW landed \in BOOLEAN, ShipCrash(landed)
        PROVE  [Replicated!LogNext]_(Replicated!logVars)
    BY <1>5, <1>7 DEF ShipCrash
  <1>8. CASE ShipRestore
    BY <1>8 DEF ShipRestore, ShipInv, ShipType
  <1> QED BY <1>1, <1>2, <1>3, <1>6, <1>7, <1>8 DEF ShipNext

LEMMA ShipInitReplicates == ShipInit => Replicated!LogInit
  <1> SUFFICES ASSUME ShipInit PROVE Replicated!LogInit
    OBVIOUS
  <1>1. shippedSeqs = {0} /\ shippedEvents = {}
    BY DEF ShipInit, shippedSeqs, shippedEvents
  <1>2. lastShipped = 0
    BY <1>1, LastShippedIs DEF ShipInit
  <1> QED BY <1>1, <1>2 DEF ShipInit, Replicated!LogInit

(* The range in hand always starts where the sink ends, and a scan holds all    *)
(* that the store still has of it (Ship, lastShipped).                          *)
THEOREM ShippingInvariant == ShipSpec /\ "restore" \notin shipJobs => []ShipInv
  BY ShipInitInv, ShipStep, PTL DEF ShipSpec

(* Shipping implements the replicated log: whatever is dropped, crashes or is   *)
(* misreported, every landed segment carries the copy on from where it ended,   *)
(* skipping nothing the store still held and repeating nothing (Ship, Put).     *)
THEOREM ShippingImplementsReplicatedLog ==
    ShipSpec /\ "restore" \notin shipJobs => ShippingReplicates
  <1>1. ShipSpec /\ "restore" \notin shipJobs => []ShipInv
    BY ShippingInvariant
  <1> QED
    BY <1>1, ShipInitReplicates, ShipStepReplicates, PTL
    DEF ShipSpec, ShippingReplicates, Replicated!LogSpec
=============================================================================
