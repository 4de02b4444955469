---------------------------- MODULE EngineBuffer ----------------------------
(***************************************************************************)
(* What the out-of-order reconciliation buffer owes producers, over the     *)
(* engine of module Engine: the history variables record each speaker's     *)
(* last word on an edge, and the parked edges an acknowledged batch left.   *)
(***************************************************************************)
EXTENDS Engine

VARIABLES asserted,  \* edge and speaker: the speaker's last word was an assertion
          parked,    \* pending as the running batch found it
          settled,   \* the parked edges the running batch has committed
          owed       \* parked edges of acknowledged batches, not yet committed

bufferVars == <<vars, asserted, parked, settled, owed>>

word(edge, p) == <<edge, <<p, staged.scope>>>>

BufferInit ==
    /\ Init
    /\ asserted = {} /\ parked = {} /\ settled = {} /\ owed = {}

BufferBegin ==
    /\ Begin
    /\ parked' = pending
    /\ UNCHANGED <<asserted, settled, owed>>

BufferObserveEntity(p, h, a, i) ==
    /\ ObserveEntity(p, h, a, i)
    /\ settled' = settled \cup
           {o \in pending \ pending' : resolveEndpoints(staged', o.edge) # None}
    /\ UNCHANGED <<asserted, parked, owed>>

(* A full buffer discards its oldest edge, and reports that it did. *)
BufferObserveRelation(p, edge, a, i, j) ==
    /\ ObserveRelation(p, edge, a, i, j)
    /\ asserted' = asserted \cup {word(edge, p)}
    /\ owed' = owed \ (pending \ pending')
    /\ UNCHANGED <<parked, settled>>

BufferRemoveRelation(p, edge) ==
    /\ RemoveRelation(p, edge)
    /\ asserted' = asserted \ {word(edge, p)}
    /\ owed' = {o \in owed : <<o.edge, <<o.producer, o.scope>>>> # word(edge, p)}
    /\ UNCHANGED <<parked, settled>>

(* The batch is acknowledged: the producers of the edges it parked will not     *)
(* send them again, and those it committed are settled.                         *)
BufferFlush ==
    /\ Flush
    /\ owed' = (owed \ settled) \cup (pending \ parked)
    /\ parked' = {} /\ settled' = {}
    /\ UNCHANGED asserted

BufferSweepEnd(appended) ==
    /\ SweepEnd(appended)
    /\ owed' = {o \in owed : ~(now > o.deadline)}
    /\ UNCHANGED <<asserted, parked, settled>>

BufferNext ==
    \/ BufferBegin \/ BufferFlush
    \/ /\ \/ SweepBegin \/ Tick
          \/ \E scope \in Scopes : SetScope(scope)
          \/ \E p \in Producers, h \in Identities : DeleteEntity(p, h)
          \/ \E id \in EntityIDs : SweepEntity(id)
       /\ UNCHANGED <<asserted, parked, settled, owed>>
    \/ \E p \in Producers, h \in Identities, a \in Attributes, i \in Intervals :
          BufferObserveEntity(p, h, a, i)
    \/ \E p \in Producers, edge \in Edges, a \in Attributes, i \in EdgeIntervals,
         j \in Intervals : BufferObserveRelation(p, edge, a, i, j)
    \/ \E p \in Producers, edge \in Edges : BufferRemoveRelation(p, edge)
    \/ \E appended \in BOOLEAN : BufferSweepEnd(appended)

BufferSpec == BufferInit /\ [][BufferNext]_bufferVars

(* The same with batches whose append may fail. *)
BufferFlushFail ==
    /\ FlushFail
    /\ parked' = {} /\ settled' = {}
    /\ UNCHANGED <<asserted, owed>>

BufferFailingSpec == BufferInit /\ [][BufferNext \/ BufferFlushFail]_bufferVars

-----------------------------------------------------------------------------
(* An edge is in the projection only while the last word of some speaker on it *)
(* was an assertion: a retraction is never undone from the reconciliation      *)
(* buffer (removeRelationLocked, flushPending).                                *)
RetractedEdgeStaysGone ==
    mode = "idle" => \A edge \in Edges :
        EdgePresent(edge) => \E s \in Speakers : <<edge, s>> \in asserted

(* A parked edge whose observation was acknowledged is not forgotten before    *)
(* its deadline unless a full buffer discards it: once both its endpoints are  *)
(* there, it is in the projection or still parked (flushPending, Batch).       *)
ParkedEdgeKept ==
    mode = "idle" => \A o \in owed :
        /\ ~(now > o.deadline)
        /\ EntityPresent(o.edge[1]) /\ EntityPresent(o.edge[2])
        => EdgePresent(o.edge) \/ o \in pending
=============================================================================
