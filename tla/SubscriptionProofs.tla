------------------------- MODULE SubscriptionProofs -------------------------
(***************************************************************************)
(* Subscription streams lose events never silently and are never sent to    *)
(* once closed: for any number of streams, filters, events and any channel  *)
(* capacity.                                                                *)
(*                                                                          *)
(* What accounts for the offers is the sequence of all entries, those the    *)
(* consumer took followed by those in the channel: a send extends it, a      *)
(* receive leaves it alone, a lost event only raises the count that the      *)
(* next entry will carry.                                                    *)
(***************************************************************************)
EXTENDS Subscriptions, SequenceTheorems, TLAPS

Entry == [nth : Nat, dropped : Nat]

SubsType ==
    /\ subs \subseteq Streams
    /\ notifying \in [event : Seq(Happenings), todo : SUBSET Streams]
    /\ stream \in [Streams -> {"new", "open", "cancelled", "removed", "closed"}]
    /\ channel \in [Streams -> Seq(Entry)] /\ received \in [Streams -> Seq(Entry)]
    /\ dropped \in [Streams -> Nat] /\ offered \in [Streams -> Nat]

(* A stream is registered from the moment it opens until it is removed, and only *)
(* registered ones are called.                                                    *)
Registered ==
    /\ \A s \in Streams : s \in subs => stream[s] \in {"open", "cancelled"}
    /\ notifying.todo \subseteq subs

SubsInv == SubsType /\ Registered /\ GapsAnnounced

-----------------------------------------------------------------------------
LEMMA EntriesNumbered ==
    ASSUME NEW all \in Seq(Entry)
    PROVE  Len(all) \in Nat /\ \A i \in 1 .. Len(all) : all[i].nth \in Nat /\ all[i].dropped \in Nat
  <1>1. Len(all) \in Nat /\ \A i \in 1 .. Len(all) : all[i] \in Entry
    BY ElementOfSeq
  <1> QED BY <1>1 DEF Entry

(* A sent entry accounts for its own event and those lost before it. *)
LEMMA SentAccounted ==
    ASSUME NEW all \in Seq(Entry), NEW offers \in Nat, NEW lost \in Nat,
           accounted(all, offers, lost)
    PROVE  accounted(Append(all, [nth |-> offers + 1, dropped |-> lost]), offers + 1, 0)
  <1> DEFINE e == [nth |-> offers + 1, dropped |-> lost]
             more == Append(all, e)
  <1>1. e \in Entry /\ Len(all) \in Nat
    BY DEF Entry
  <1>2. /\ Len(more) = Len(all) + 1 /\ more[Len(all) + 1] = e
        /\ \A i \in 1 .. Len(all) : more[i] = all[i]
    BY <1>1, AppendProperties
  <1>3. e.nth = offers + 1 /\ e.dropped = lost
    OBVIOUS
  <1> HIDE DEF e, more
  <1>4. ASSUME NEW i \in 1 .. Len(more)
        PROVE  more[i].nth = (IF i - 1 = 0 THEN 0 ELSE more[i - 1].nth) + more[i].dropped + 1
    <2>1. CASE i \in 1 .. Len(all)
      <3>1. all[i].nth = (IF i - 1 = 0 THEN 0 ELSE all[i - 1].nth) + all[i].dropped + 1
        BY <2>1 DEF accounted
      <3>2. more[i] = all[i] /\ (i # 1 => more[i - 1] = all[i - 1])
        BY <1>1, <1>2, <2>1
      <3> QED BY <2>1, <3>1, <3>2
    <2>2. CASE i = Len(all) + 1
      <3>1. offers = (IF Len(all) = 0 THEN 0 ELSE all[Len(all)].nth) + lost
        BY DEF accounted
      <3>2. Len(all) # 0 => more[Len(all)] = all[Len(all)] /\ all[Len(all)].nth \in Nat
        BY <1>1, <1>2, EntriesNumbered
      <3> QED BY <1>1, <1>2, <1>3, <2>2, <3>1, <3>2
    <2> QED BY <1>1, <1>2, <2>1, <2>2
  <1>5. offers + 1 = (IF Len(more) = 0 THEN 0 ELSE more[Len(more)].nth) + 0
    BY <1>1, <1>2, <1>3
  <1> QED BY <1>4, <1>5 DEF accounted, more, e

(* A lost event is counted. *)
LEMMA LostAccounted ==
    ASSUME NEW all \in Seq(Entry), NEW offers \in Nat, NEW lost \in Nat,
           accounted(all, offers, lost)
    PROVE  accounted(all, offers + 1, lost + 1)
  <1> DEFINE last == IF Len(all) = 0 THEN 0 ELSE all[Len(all)].nth
  <1>1. last \in Nat
    BY EntriesNumbered
  <1>2. offers = last + lost
    BY DEF accounted
  <1>3. offers + 1 = last + (lost + 1)
    BY <1>1, <1>2
  <1> QED BY <1>3 DEF accounted

(* Entries only move from the channel to the consumer. *)
LEMMA TakenConcat ==
    ASSUME NEW r \in Seq(Entry), NEW c \in Seq(Entry), c # <<>>
    PROVE  Append(r, Head(c)) \o Tail(c) = r \o c
  <1>1. Head(c) \in Entry /\ Tail(c) \in Seq(Entry) /\ c = <<Head(c)>> \o Tail(c)
    BY HeadTailProperties
  <1>2. Append(r, Head(c)) = r \o <<Head(c)>>
    BY <1>1, AppendIsConcat
  <1> QED BY <1>1, <1>2, ConcatAssociative

LEMMA SentConcat ==
    ASSUME NEW r \in Seq(Entry), NEW c \in Seq(Entry), NEW e \in Entry
    PROVE  r \o Append(c, e) = Append(r \o c, e)
  <1>1. <<e>> \in Seq(Entry) /\ r \o c \in Seq(Entry)
    OBVIOUS
  <1>2. Append(c, e) = c \o <<e>> /\ Append(r \o c, e) = (r \o c) \o <<e>>
    BY <1>1, AppendIsConcat
  <1> QED BY <1>1, <1>2, ConcatAssociative

-----------------------------------------------------------------------------
LEMMA SubsInitInv == SubsInit => SubsInv
  <1> SUFFICES ASSUME SubsInit PROVE SubsInv
    OBVIOUS
  <1>1. SubsType /\ Registered
    BY DEF SubsInit, SubsType, Registered, idle
  <1>2. accounted(<<>> \o <<>>, 0, 0)
    BY DEF accounted
  <1>3. GapsAnnounced
    BY <1>2 DEF SubsInit, GapsAnnounced
  <1> QED BY <1>1, <1>3 DEF SubsInv

(* A stream opens, is cancelled, removed or closed, or an event is committed:     *)
(* no entry moves.                                                                *)
LEMMA StreamStep ==
    ASSUME SubsInv,
           \/ \E ev \in Happenings : notify(ev)
           \/ \E s \in Streams : Subscribe(s) \/ Cancel(s) \/ unsub(s) \/ CloseChannel(s)
    PROVE  SubsInv'
  <1>1. UNCHANGED <<channel, received, dropped, offered>>
    BY DEF notify, Subscribe, Cancel, unsub, CloseChannel
  <1>2. SubsType' /\ Registered'
    <2>1. ASSUME NEW ev \in Happenings, notify(ev) PROVE SubsType' /\ Registered'
      BY <2>1 DEF notify, idle, SubsInv, SubsType, Registered
    <2>2. ASSUME NEW s \in Streams, Subscribe(s) PROVE SubsType' /\ Registered'
      BY <2>2 DEF Subscribe, unlocked, idle, SubsInv, SubsType, Registered
    <2>3. ASSUME NEW s \in Streams, Cancel(s) PROVE SubsType' /\ Registered'
      BY <2>3 DEF Cancel, SubsInv, SubsType, Registered
    <2>4. ASSUME NEW s \in Streams, unsub(s) PROVE SubsType' /\ Registered'
      BY <2>4 DEF unsub, unlocked, idle, SubsInv, SubsType, Registered
    <2>5. ASSUME NEW s \in Streams, CloseChannel(s) PROVE SubsType' /\ Registered'
      BY <2>5 DEF CloseChannel, SubsInv, SubsType, Registered
    <2> QED BY <2>1, <2>2, <2>3, <2>4, <2>5
  <1>3. GapsAnnounced'
    BY <1>1 DEF SubsInv, GapsAnnounced
  <1> QED BY <1>2, <1>3 DEF SubsInv

LEMMA ConsumeStep ==
    ASSUME SubsInv, NEW s \in Streams, Consume(s)
    PROVE  SubsInv'
  <1>1. /\ channel[s] \in Seq(Entry) /\ received[s] \in Seq(Entry) /\ channel[s] # <<>>
        /\ UNCHANGED <<subs, notifying, stream, dropped, offered>>
    BY DEF Consume, SubsInv, SubsType
  <1>2. Head(channel[s]) \in Entry /\ Tail(channel[s]) \in Seq(Entry)
    BY <1>1, HeadTailProperties
  <1>3. SubsType' /\ Registered'
    BY <1>1, <1>2 DEF Consume, SubsInv, SubsType, Registered
  <1>4. \A t \in Streams : received'[t] \o channel'[t] = received[t] \o channel[t]
    BY <1>1, TakenConcat DEF Consume, SubsInv, SubsType
  <1>5. GapsAnnounced'
    BY <1>1, <1>4 DEF SubsInv, GapsAnnounced
  <1> QED BY <1>3, <1>5 DEF SubsInv

(* The engine calls a subscriber: it sends, loses the event, or does not want it. *)
LEMMA CallStep ==
    ASSUME SubsInv, NEW s \in Streams, Call(s)
    PROVE  SubsInv'
  <1> DEFINE e == [nth |-> offered[s] + 1, dropped |-> dropped[s]]
  <1>1. /\ UNCHANGED <<subs, stream, received>>
        /\ notifying' \in [event : Seq(Happenings), todo : SUBSET Streams]
        /\ notifying'.todo \subseteq notifying.todo
    <2>1. /\ idle \in [event : Seq(Happenings), todo : SUBSET Streams]
          /\ idle.todo \subseteq notifying.todo
      BY DEF idle
    <2>2. LET n == [notifying EXCEPT !.todo = @ \ {s}]
          IN  /\ n \in [event : Seq(Happenings), todo : SUBSET Streams]
              /\ n.todo \subseteq notifying.todo
      BY DEF SubsInv, SubsType
    <2> QED BY <2>1, <2>2 DEF Call
  <1>2. Registered'
    BY <1>1 DEF SubsInv, Registered
  <1>3. /\ channel[s] \in Seq(Entry) /\ received[s] \in Seq(Entry) /\ offered[s] \in Nat
        /\ dropped[s] \in Nat /\ e \in Entry
        /\ received[s] \o channel[s] \in Seq(Entry)
        /\ accounted(received[s] \o channel[s], offered[s], dropped[s])
    <2>1. /\ channel[s] \in Seq(Entry) /\ received[s] \in Seq(Entry) /\ offered[s] \in Nat
          /\ dropped[s] \in Nat
      BY DEF SubsInv, SubsType
    <2> QED BY <2>1, ConcatProperties DEF SubsInv, Entry, GapsAnnounced
  <1>4. CASE UNCHANGED <<channel, dropped, offered>>
    BY <1>1, <1>2, <1>4 DEF SubsInv, SubsType, GapsAnnounced
  <1>5. CASE /\ offered' = [offered EXCEPT ![s] = @ + 1]
             /\ channel' = [channel EXCEPT ![s] = Append(@, e)]
             /\ dropped' = [dropped EXCEPT ![s] = 0]
    <2>1. SubsType'
      BY <1>1, <1>3, <1>5, AppendProperties DEF SubsInv, SubsType
    <2>2. received[s] \o Append(channel[s], e) = Append(received[s] \o channel[s], e)
      BY <1>3, SentConcat
    <2>3. accounted(Append(received[s] \o channel[s], e), offered[s] + 1, 0)
      BY <1>3, SentAccounted
    <2>4. ASSUME NEW t \in Streams
          PROVE  accounted(received'[t] \o channel'[t], offered'[t], dropped'[t])
      <3>1. CASE t = s
        BY <1>1, <1>5, <2>2, <2>3, <3>1 DEF SubsInv, SubsType
      <3>2. CASE t # s
        BY <1>1, <1>5, <3>2 DEF SubsInv, SubsType, GapsAnnounced
      <3> QED BY <3>1, <3>2
    <2> QED BY <1>2, <2>1, <2>4 DEF SubsInv, GapsAnnounced
  <1>6. CASE /\ offered' = [offered EXCEPT ![s] = @ + 1]
             /\ dropped' = [dropped EXCEPT ![s] = @ + 1]
             /\ UNCHANGED channel
    <2>1. SubsType'
      BY <1>1, <1>3, <1>6 DEF SubsInv, SubsType
    <2>2. accounted(received[s] \o channel[s], offered[s] + 1, dropped[s] + 1)
      BY <1>3, LostAccounted
    <2>3. ASSUME NEW t \in Streams
          PROVE  accounted(received'[t] \o channel'[t], offered'[t], dropped'[t])
      <3>1. CASE t = s
        BY <1>1, <1>6, <2>2, <3>1 DEF SubsInv, SubsType
      <3>2. CASE t # s
        BY <1>1, <1>6, <3>2 DEF SubsInv, SubsType, GapsAnnounced
      <3> QED BY <3>1, <3>2
    <2> QED BY <1>2, <2>1, <2>3 DEF SubsInv, GapsAnnounced
  <1> QED BY <1>4, <1>5, <1>6 DEF Call, call

-----------------------------------------------------------------------------
(* The inductive invariant the two theorems below follow from. *)
THEOREM SubscriptionInvariant == SubsSpec => []SubsInv
  <1>1. SubsInv /\ [SubsNext]_subVars => SubsInv'
    <2> SUFFICES ASSUME SubsInv, [SubsNext]_subVars PROVE SubsInv'
      OBVIOUS
    <2>1. CASE UNCHANGED subVars
      BY <2>1 DEF subVars, SubsInv, SubsType, Registered, GapsAnnounced
    <2>2. CASE SubsNext
      BY <2>2, StreamStep, ConsumeStep, CallStep DEF SubsNext
    <2> QED BY <2>1, <2>2
  <1> QED BY <1>1, SubsInitInv, PTL DEF SubsSpec

(* A subscriber that falls behind is told of every event it lost, and where      *)
(* (resolver.go: stream; schema.graphql's dropped).                        *)
THEOREM NeverLostInSilence == SubsSpec => []GapsAnnounced
  BY SubscriptionInvariant, PTL DEF SubsInv

(* The engine never sends on a closed channel, which would panic on its commit   *)
(* path (engine.go: notify, Subscribe's cancel; resolver.go: stream).            *)
THEOREM ClosedNeverCalled == SubsSpec => []NeverSentWhenClosed
  <1>1. SubsInv => NeverSentWhenClosed
    BY DEF SubsInv, Registered, NeverSentWhenClosed
  <1> QED BY <1>1, SubscriptionInvariant, PTL
=============================================================================
