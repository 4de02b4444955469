---------------------------- MODULE Subscriptions ---------------------------
(***************************************************************************)
(* Change subscriptions: the engine calls every subscriber on its commit   *)
(* path, under the read half of subMu; a GraphQL subscription turns the    *)
(* calls into a bounded channel that its consumer drains at its own pace,  *)
(* and takes itself down when its context ends.  internal/change/engine.go *)
(* (Subscribe, notify), internal/graphql/resolvers/resolver.go (stream).   *)
(***************************************************************************)
EXTENDS Naturals, FiniteSets, Sequences

CONSTANTS
    Streams,        \* subscriptions a client may open
    Filter,         \* what each asks for: [on, type, change, structuralOnly]
    Happenings,     \* events: [on, type, change, structural]
    Capacity,       \* the channel's capacity
    MaxNotified     \* how many events are committed

ASSUME SubsAssumption == Capacity \in Nat /\ MaxNotified \in Nat

VARIABLES
    subs,           \* the registered subscribers
    notifying,      \* the event being fanned out and who is still to be called
    stream,         \* "new", "open", "cancelled", "removed" or "closed"
    channel,        \* the buffered entries of each stream
    dropped,        \* events lost since the last delivered one
    received,       \* what the consumer took, in order
    offered,        \* how many wanted events each stream was offered
    notified        \* how many events were committed

subVars == <<subs, notifying, stream, channel, dropped, received, offered, notified>>

idle == [event |-> <<>>, todo |-> {}]

(***************************************************************************)
(* EntityChanged and RelationChanged: which events a stream wants          *)
(***************************************************************************)
wants(s, ev) ==
    LET f == Filter[s]
    IN /\ ev.on = f.on
       /\ f.type = "" \/ ev.type = f.type
       /\ f.change = "" \/ ev.change = f.change
       /\ f.on = "relation" /\ f.structuralOnly => ev.structural

SubsInit ==
    /\ subs = {} /\ notifying = idle
    /\ stream = [s \in Streams |-> "new"]
    /\ channel = [s \in Streams |-> <<>>]
    /\ dropped = [s \in Streams |-> 0]
    /\ received = [s \in Streams |-> <<>>]
    /\ offered = [s \in Streams |-> 0]
    /\ notified = 0

(* subMu: a notify holds the read half while it calls; registering and     *)
(* removing need the write half.                                           *)
unlocked == notifying = idle

Subscribe(s) ==
    /\ stream[s] = "new" /\ unlocked
    /\ subs' = subs \cup {s}
    /\ stream' = [stream EXCEPT ![s] = "open"]
    /\ UNCHANGED <<notifying, channel, dropped, received, offered, notified>>

(* The engine commits under its own lock, so one event is fanned out at a  *)
(* time, to the subscribers of that moment.                                *)
notify(ev) ==
    /\ unlocked /\ notified < MaxNotified
    /\ notifying' = IF subs = {} THEN idle ELSE [event |-> <<ev>>, todo |-> subs]
    /\ notified' = notified + 1
    /\ UNCHANGED <<subs, stream, channel, dropped, received, offered>>

(* The subscriber's body: a send that never blocks.  An entry carries how  *)
(* many events were lost just before it.                                   *)
callForgets(s) ==
    LET room == Len(channel[s]) < Capacity
    IN /\ channel' = IF room THEN [channel EXCEPT ![s] = Append(@, [nth |-> offered[s] + 1, dropped |-> dropped[s]])]
                     ELSE channel
       /\ dropped' = [dropped EXCEPT ![s] = IF room THEN @ ELSE @ + 1]

callBlocks(s) ==
    /\ Len(channel[s]) < Capacity
    /\ channel' = [channel EXCEPT ![s] = Append(@, [nth |-> offered[s] + 1, dropped |-> dropped[s]])]
    /\ dropped' = dropped

call(s) ==
    \/ /\ Len(channel[s]) < Capacity
       /\ channel' = [channel EXCEPT ![s] = Append(@, [nth |-> offered[s] + 1, dropped |-> dropped[s]])]
       /\ dropped' = [dropped EXCEPT ![s] = 0]
    \/ /\ Len(channel[s]) >= Capacity
       /\ dropped' = [dropped EXCEPT ![s] = @ + 1]
       /\ UNCHANGED channel

Call(s) ==
    /\ s \in notifying.todo
    /\ notifying' = IF notifying.todo = {s} THEN idle
                    ELSE [notifying EXCEPT !.todo = @ \ {s}]
    /\ \/ /\ wants(s, notifying.event[1])
          /\ offered' = [offered EXCEPT ![s] = @ + 1]
          /\ call(s)
       \/ /\ ~wants(s, notifying.event[1])
          /\ UNCHANGED <<channel, dropped, offered>>
    /\ UNCHANGED <<subs, stream, received, notified>>

Consume(s) ==
    /\ channel[s] # <<>>
    /\ received' = [received EXCEPT ![s] = Append(@, Head(channel[s]))]
    /\ channel' = [channel EXCEPT ![s] = Tail(@)]
    /\ UNCHANGED <<subs, notifying, stream, dropped, offered, notified>>

Cancel(s) ==
    /\ stream[s] = "open"
    /\ stream' = [stream EXCEPT ![s] = "cancelled"]
    /\ UNCHANGED <<subs, notifying, channel, dropped, received, offered, notified>>

(* The goroutine of a stream, once its context is done: remove, then close. *)
unsub(s) ==
    /\ stream[s] = "cancelled" /\ unlocked
    /\ subs' = subs \ {s}
    /\ stream' = [stream EXCEPT ![s] = "removed"]
    /\ UNCHANGED <<notifying, channel, dropped, received, offered, notified>>

CloseChannel(s) ==
    /\ stream[s] = "removed"
    /\ stream' = [stream EXCEPT ![s] = "closed"]
    /\ UNCHANGED <<subs, notifying, channel, dropped, received, offered, notified>>

SubsNext ==
    \/ \E ev \in Happenings : notify(ev)
    \/ \E s \in Streams : Subscribe(s) \/ Call(s) \/ Consume(s) \/ Cancel(s)
                          \/ unsub(s) \/ CloseChannel(s)

(* The engine runs on; a goroutine that waits for subMu gets it (a waiting *)
(* writer of a sync.RWMutex holds off new readers).  Nothing is assumed of *)
(* a consumer.                                                             *)
SubsFairness ==
    /\ WF_subVars(\E s \in Streams : Call(s))
    /\ \A s \in Streams : SF_subVars(unsub(s)) /\ WF_subVars(CloseChannel(s))

SubsSpec == SubsInit /\ [][SubsNext]_subVars /\ SubsFairness

-----------------------------------------------------------------------------
SubsTypeOK ==
    /\ subs \subseteq Streams /\ notifying.todo \subseteq Streams
    /\ \A s \in Streams : Len(channel[s]) <= Capacity
    /\ notified \in 0 .. MaxNotified

(* A send on a closed channel would take the process down: no stream is    *)
(* closed while the engine may still call it.                              *)
NeverSentWhenClosed ==
    \A s \in Streams : stream[s] = "closed" => s \notin subs \cup notifying.todo

(* The entries account for every offer: each is numbered after the one before *)
(* and what it says was lost between them, and the rest is lost so far.      *)
accounted(entries, offers, lost) ==
    LET nth(i) == IF i = 0 THEN 0 ELSE entries[i].nth
    IN /\ \A i \in 1 .. Len(entries) : entries[i].nth = nth(i - 1) + entries[i].dropped + 1
       /\ offers = nth(Len(entries)) + lost

(* A consumer that cannot keep up loses events, "but never silently": the  *)
(* entries a stream delivers account for every wanted event, in order;     *)
(* each says exactly how many were lost before it.                         *)
GapsAnnounced ==
    \A s \in Streams : accounted(received[s] \o channel[s], offered[s], dropped[s])

(* No consumer, however slow or gone, holds the engine up, and a cancelled *)
(* stream is taken down.                                                   *)
EngineNeverHeld ==
    SubsFairness =>
        /\ ~unlocked ~> unlocked
        /\ \A s \in Streams : stream[s] = "cancelled" ~> stream[s] = "closed"
=============================================================================
