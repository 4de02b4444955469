------------------------------ MODULE LogIndex ------------------------------
(***************************************************************************)
(* The event log's keys and its readers (internal/store): what an append      *)
(* stages beside the primary record, what maintenance removes with it, and     *)
(* the indexed reads, which walk a pinned iterator and look every record up     *)
(* live while appends and maintenance commit in between.                       *)
(*                                                                           *)
(* Abstractions.  A key is the tuple its bytes spell, so the iterators' order   *)
(* is the order of its fields.  Which records a maintenance pass may remove is  *)
(* module Durability's subject: here, any that a later one supersedes.          *)
(***************************************************************************)
EXTENDS Naturals, Sequences, FiniteSets, Functions, SequencesExt

CONSTANTS IndexEvents,   \* events: an entity's, or a relation's, which touches two entities
          Untagged,      \* sequences that a version without class tags wrote
          IndexReads,    \* reads explored
          MaxIndexSeq    \* bound: the last sequence number

ASSUME LogIndexAssumption ==
    /\ MaxIndexSeq \in Nat
    /\ \A ev \in IndexEvents : /\ DOMAIN ev = {"touches", "ct", "time", "structural"}
                               /\ ev.touches # {} /\ ev.time \in Nat

VARIABLES primary, \* sequence -> event
          index,   \* the secondary keys
          tags,    \* the class tags of time keys that have one
          lastSeq, \* Store.seq
          purging, \* the sequences a maintenance pass has staged for deletion
          reading, \* the read under way
          removed  \* history: records maintenance removed while it ran

indexVars == <<primary, index, tags, lastSeq, purging, reading, removed>>

noRead == [at |-> "idle", ask |-> <<>>, todo |-> <<>>, out |-> <<>>, seen |-> {}]

IndexInit ==
    /\ primary = <<>> /\ index = {} /\ tags = <<>> /\ lastSeq = 0
    /\ purging = {} /\ reading = noRead /\ removed = {}

-----------------------------------------------------------------------------
entityKeys(ev, seq) == {<<"entity", e, seq>> : e \in ev.touches}

(* eventKeys: exactly the secondary keys indexEvent writes. *)
eventKeys(ev, seq) ==
    entityKeys(ev, seq) \cup {<<"type", ev.ct, seq>>, <<"time", ev.time, seq>>}

classTag(ev) == [ct |-> ev.ct, structural |-> ev.structural]

extend(f, x, v) == [y \in DOMAIN f \cup {x} |-> IF y = x THEN v ELSE f[y]]

(* Append of one event: the primary record, its index entries and the sequence *)
(* marker in one batch.                                                         *)
AppendEvent ==
    /\ lastSeq < MaxIndexSeq
    /\ \E ev \in IndexEvents :
         LET seq == lastSeq + 1
         IN  /\ primary' = extend(primary, seq, ev)
             /\ index' = index \cup entityKeys(ev, seq)
                         \cup {<<"type", ev.ct, seq>>, <<"time", ev.time, seq>>}
             /\ tags' = IF seq \in Untagged THEN tags ELSE extend(tags, seq, classTag(ev))
             /\ lastSeq' = seq
    /\ UNCHANGED <<purging, reading, removed>>

superseded ==
    {s \in DOMAIN primary : \E l \in DOMAIN primary : l > s /\ primary[l].touches = primary[s].touches}

(* A maintenance pass: staged on a snapshot of the log, committed later in one  *)
(* batch of primary and index keys.                                             *)
MaintenanceScan ==
    /\ purging = {}
    /\ purging' \in SUBSET superseded \ {{}}
    /\ UNCHANGED <<primary, index, tags, lastSeq, reading, removed>>

MaintenanceCommit ==
    /\ purging # {}
    /\ primary' = Restrict(primary, DOMAIN primary \ purging)
    /\ index' = index \ UNION {eventKeys(primary[s], s) : s \in purging}
    /\ tags' = Restrict(tags, DOMAIN tags \ purging)
    /\ removed' = IF reading.at = "scanning" THEN removed \cup purging ELSE removed
    /\ purging' = {}
    /\ UNCHANGED <<lastSeq, reading>>

-----------------------------------------------------------------------------
(* The keys under a read's bounds, in iterator order: by sequence under one     *)
(* entity or type, by event time and then sequence in a time range.             *)
before(k, l) == k[2] < l[2] \/ (k[2] = l[2] /\ k[3] < l[3])

bySeq(k, l) == k[3] < l[3]

keysOf(ask) ==
    CASE ask.by = "entity" -> SetToSortSeq({k \in index : k[1] = "entity" /\ k[2] = ask.of}, bySeq)
      [] ask.by = "type" -> SetToSortSeq({k \in index : k[1] = "type" /\ k[2] = ask.of}, bySeq)
      [] ask.by = "time" ->
           SetToSortSeq({k \in index : k[1] = "time" /\ k[2] \in ask.from..(ask.until - 1)}, before)

(* ReadByEntity, ReadByType, ScanByTimeRange, ScanTimeIndex: open the iterator.  *)
(* A classified scan keeps what its filter accepts, by tag where there is one.   *)
OpenRead ==
    /\ reading.at \in {"idle", "done"}
    /\ \E ask \in IndexReads :
         LET keys == keysOf(ask)
             walk == IF ask.by = "time" /\ ask.newestFirst THEN Reverse(keys) ELSE keys
         IN  reading' = [at |-> "scanning", ask |-> ask, out |-> <<>>, seen |-> DOMAIN primary,
                         todo |-> [i \in 1..Len(walk) |->
                             [seq |-> walk[i][3],
                              tag |-> IF ask.by = "time" /\ walk[i][3] \in DOMAIN tags
                                      THEN <<tags[walk[i][3]]>> ELSE <<>>]]]
    /\ removed' = {}
    /\ UNCHANGED <<primary, index, tags, lastSeq, purging>>

wanted(ask, class) == ask.by = "time" /\ ask.noHeartbeats => class.ct # "unchanged"

(* Mutant: an entry without a tag is taken for what the filter excludes. *)
keepsTagged(ask, entry) ==
    entry.tag # <<>> /\ wanted(ask, entry.tag[1]) /\ entry.seq \in DOMAIN primary

(* resolveSeq: a key whose record is gone is skipped, an untagged one resolved  *)
(* before it is judged.                                                         *)
keeps(ask, entry) ==
    /\ entry.tag # <<>> => wanted(ask, entry.tag[1])
    /\ entry.seq \in DOMAIN primary
    /\ wanted(ask, classTag(primary[entry.seq]))

ReadStep ==
    /\ reading.at = "scanning" /\ reading.todo # <<>>
    /\ LET entry == Head(reading.todo)
       IN  reading' = [reading EXCEPT !.todo = Tail(@),
                           !.out = IF keeps(reading.ask, entry)
                                   THEN Append(@, [seq |-> entry.seq, ev |-> primary[entry.seq]])
                                   ELSE @]
    /\ UNCHANGED <<primary, index, tags, lastSeq, purging, removed>>

ReadDone ==
    /\ reading.at = "scanning" /\ reading.todo = <<>>
    /\ reading' = [reading EXCEPT !.at = "done"]
    /\ UNCHANGED <<primary, index, tags, lastSeq, purging, removed>>

(* checkEvery: the context is cancelled and the read returns an error. *)
ReadCancelled ==
    /\ reading.at = "scanning"
    /\ reading' = noRead
    /\ UNCHANGED <<primary, index, tags, lastSeq, purging, removed>>

IndexNext ==
    \/ AppendEvent \/ MaintenanceScan \/ MaintenanceCommit
    \/ OpenRead \/ ReadStep \/ ReadDone \/ ReadCancelled

-----------------------------------------------------------------------------
IndexTypeOK ==
    /\ DOMAIN primary \subseteq 1..lastSeq /\ lastSeq \in 0..MaxIndexSeq
    /\ \A s \in DOMAIN primary : primary[s] \in IndexEvents
    /\ purging \subseteq DOMAIN primary

(* Every secondary key leads to a record and every record has all of its keys,   *)
(* whatever appends and maintenance passes commit (indexEvent, eventKeys).       *)
KeysMatchRecords ==
    /\ \A k \in index : k[3] \in DOMAIN primary
    /\ \A s \in DOMAIN primary :
         {k \in index : k[3] = s} =
             {<<"entity", e, s>> : e \in primary[s].touches}
             \cup {<<"type", primary[s].ct, s>>, <<"time", primary[s].time, s>>}

matches(ask, ev) ==
    CASE ask.by = "entity" -> ask.of \in ev.touches
      [] ask.by = "type" -> ev.ct = ask.of
      [] ask.by = "time" -> ev.time \in ask.from..(ask.until - 1) /\ wanted(ask, ev)

(* A read that completes returns, without duplicates, exactly the records that    *)
(* matched when it opened, but for those maintenance removed under it: an append  *)
(* is never half seen and a dangling key never fails the read (readBySeqIndex,    *)
(* ScanByTimeRange, ScanTimeIndex with Resolve).                                  *)
ReadsAreComplete ==
    reading.at = "done" =>
        LET got == {reading.out[i].seq : i \in 1..Len(reading.out)}
            owed == {s \in (reading.seen \ removed) \cap DOMAIN primary :
                        matches(reading.ask, primary[s])}
        IN  /\ owed \subseteq got /\ got \subseteq reading.seen
            /\ \A i \in 1..Len(reading.out) : matches(reading.ask, reading.out[i].ev)
            /\ Cardinality(got) = Len(reading.out)

(* The index answers for the log: keys and records correspond, and a read by     *)
(* entity, type or time returns all that matches (Append, CoalesceHeartbeats,    *)
(* PruneOlderThan, the index reads).                                             *)
IndexSound ==
    KeysMatchRecords /\ ReadsAreComplete
=============================================================================
