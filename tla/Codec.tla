-------------------------------- MODULE Codec -------------------------------
(***************************************************************************)
(* The event and entity model as it is stored and compared                 *)
(* (internal/model): attribute values and their canonical form, the        *)
(* identity hash, validation, and the protobuf form every event takes on   *)
(* its way into the log, a snapshot or a shipped segment, and back.        *)
(*                                                                         *)
(* A canonical form is a sequence of symbols; a string value is a sequence *)
(* of symbols too, drawn from an alphabet that holds the ones the encoding *)
(* itself uses.  SHA-256 is taken to be injective.                         *)
(***************************************************************************)
EXTENDS Integers, FiniteSets, Sequences, SequencesExt, TLC

CONSTANTS
    ValuePairs,     \* pairs of attribute values to compare
    EntityPairs,    \* pairs of entities to identify
    Envelopes,      \* events to store
    Lookups,        \* [live, tombs, handle]: what a graph holds and what it is asked for
    KeyRank,        \* the order of attribute keys
    KnownTypes,     \* the vocabulary
    Relational      \* the structural flag of the known relation types

VARIABLES
    case,           \* what is looked at
    encoded,        \* the two canonical forms, the two hashes, or the record
    caseOutcome         \* what came of it

codecVars == <<case, encoded, caseOutcome>>

unset == -1             \* Go's zero time; instants count from the Unix epoch, 0

(***************************************************************************)
(* Values                                                                  *)
(***************************************************************************)
digits == <<"1", "2", "3", "4", "5", "6", "7", "8", "9">>
digit(n) == IF n = 0 THEN "0" ELSE digits[n]
Itoa(n) == IF n < 10 THEN <<digit(n)>> ELSE <<digit(n \div 10), digit(n % 10)>>

prefixed(c) == Itoa(Len(c)) \o <<":">> \o c

(* Display writes no type; a list or a map is written as JSON, a map with  *)
(* its keys in order and the last value of a repeated one.                 *)
RECURSIVE Display(_)
Display(v) ==
    CASE v.kind = "string" -> v.s
      [] v.kind = "int" -> Itoa(v.i)
      [] v.kind = "double" -> Itoa(v.f)
      [] v.kind = "bool" -> <<IF v.b THEN "true" ELSE "false">>
      [] v.kind = "array" ->
            <<"[">> \o FlattenSeq([n \in DOMAIN v.arr |-> Display(v.arr[n]) \o <<",">>]) \o <<"]">>
      [] v.kind = "kvlist" ->
            LET lasts == {n \in DOMAIN v.kvl : \A m \in DOMAIN v.kvl :
                            v.kvl[m].key = v.kvl[n].key => m <= n}
                order == SetToSortSeq(lasts, LAMBDA m, n :
                            KeyRank[v.kvl[m].key] < KeyRank[v.kvl[n].key])
            IN <<"{">> \o FlattenSeq([n \in DOMAIN order |->
                     <<v.kvl[order[n]].key, "=">> \o Display(v.kvl[order[n]].value) \o <<",">>])
               \o <<"}">>
      [] OTHER -> <<>>

byKey(kvs) == SortSeq(kvs, LAMBDA a, b : KeyRank[a.key] < KeyRank[b.key])

(* A type tag, and every part of a composite prefixed with its length;     *)
(* the entries of a map in key order.                                      *)
RECURSIVE canonical(_)
canonical(v) ==
    CASE v.kind = "string" -> <<"s", ":">> \o v.s
      [] v.kind = "int" -> <<"i", ":">> \o Itoa(v.i)
      [] v.kind = "double" -> <<"d", ":">> \o Itoa(v.f)
      [] v.kind = "bool" -> <<"b", ":", IF v.b THEN "true" ELSE "false">>
      [] v.kind = "array" ->
            <<"a", ":">> \o Itoa(Len(v.arr)) \o <<":">>
            \o FlattenSeq([n \in DOMAIN v.arr |-> prefixed(canonical(v.arr[n]))])
      [] v.kind = "kvlist" ->
            LET entries == byKey(v.kvl)
            IN <<"k", ":">> \o Itoa(Len(entries)) \o <<":">>
               \o FlattenSeq([n \in DOMAIN entries |->
                     prefixed(<<entries[n].key>>) \o prefixed(canonical(entries[n].value))])
      [] OTHER -> <<"n", ":">>

(***************************************************************************)
(* Entities and relations                                                  *)
(***************************************************************************)
hasAttr(kvs, key, val) ==
    \E n \in DOMAIN kvs : kvs[n].key = key /\ Display(kvs[n].value) = val

MatchAll(e, want) ==
    \A k \in DOMAIN want : hasAttr(e.identity, k, want[k]) \/ hasAttr(e.attributes, k, want[k])

IdentityHashUnsorted(e) ==
    <<e.type, "RS">> \o FlattenSeq([n \in DOMAIN e.identity |->
        <<e.identity[n].key, "FS">> \o canonical(e.identity[n].value) \o <<"RS">>])

(* The type and the sorted identifying attributes, each ended by a record  *)
(* separator.                                                              *)
IdentityHash(e) ==
    LET kvs == byKey(e.identity)
    IN <<e.type, "RS">> \o FlattenSeq([n \in DOMAIN kvs |->
          <<kvs[n].key, "FS">> \o canonical(kvs[n].value) \o <<"RS">>])

(***************************************************************************)
(* Handles: an id, a fingerprint, or a type with identifying attributes as *)
(* they are displayed                                                      *)
(***************************************************************************)
ResolveFingerprint(g, hash) ==
    LET ids(S) == {e.id : e \in {f \in S : IdentityHash(f) = hash}}
    IN IF ids(g.live) # {} THEN ids(g.live) ELSE ids(g.tombs)

(* First as strings, through the hash; then by display among the live      *)
(* entities of the type, in no particular order.                           *)
ResolveIdentity(g, type, identity) ==
    LET asStrings == SetToSeq({[key |-> k, value |-> [kind |-> "string", s |-> identity[k]]] :
                                  k \in DOMAIN identity})
        exact == ResolveFingerprint(g, IdentityHash([type |-> type, identity |-> asStrings]))
        shown(e) == /\ e.type = type /\ Len(e.identity) = Cardinality(DOMAIN identity)
                    /\ \A n \in DOMAIN e.identity :
                          /\ e.identity[n].key \in DOMAIN identity
                          /\ Display(e.identity[n].value) = identity[e.identity[n].key]
    IN CASE type = "" \/ DOMAIN identity = {} -> {}
         [] exact # {} -> exact
         [] OTHER -> {e.id : e \in {f \in g.live : shown(f)}}

ResolveHandle(g, h) ==
    CASE h.form = "id" -> {h.id}
      [] h.form = "fingerprint" -> ResolveFingerprint(g, h.hash)
      [] OTHER -> ResolveIdentity(g, h.type, h.identity)

ComputeRelationID(type, from, to) == <<type, from, to>>

NewRelation(type, from, to, attrs) ==
    [id |-> ComputeRelationID(type, from, to), type |-> type, from |-> from, to |-> to,
     attributes |-> attrs,
     structural |-> type \in DOMAIN Relational /\ Relational[type]]

(* Keys are named and not repeated, and a value is set.                    *)
validateKeyValues(kvs) ==
    \A n \in DOMAIN kvs :
        /\ kvs[n].key # ""
        /\ \A m \in 1 .. n - 1 : kvs[m].key # kvs[n].key
        /\ kvs[n].value.kind # "invalid"

validEntity(e, vocabulary) ==
    /\ e.type # ""
    /\ vocabulary => e.type \in KnownTypes
    /\ e.identity # <<>>
    /\ validateKeyValues(e.identity) /\ validateKeyValues(e.attributes)

validRelation(r, vocabulary) ==
    /\ r.type # ""
    /\ vocabulary => r.type \in DOMAIN Relational
    /\ r.from # "" /\ r.to # ""
    /\ validateKeyValues(r.attributes)

(***************************************************************************)
(* Events                                                                  *)
(***************************************************************************)
entityChanges == {"created", "deleted", "identity_changed", "attribute_updated",
                  "state_changed", "unchanged"}
relationChanges == {"added", "removed", "attribute_changed"}

commonEventChecks(e) == e.at # unset /\ e.recorded # unset /\ e.version # ""

validEntityEvent(e, vocabulary) ==
    e.change \in entityChanges /\ commonEventChecks(e) /\ validEntity(e.about, vocabulary)

validRelationEvent(e, vocabulary) ==
    e.change \in relationChanges /\ commonEventChecks(e) /\ validRelation(e.about, vocabulary)

(* An envelope holds exactly one event.                                    *)
validateEnvelope(ev, vocabulary) ==
    CASE ev.entity # <<>> /\ ev.relation # <<>> -> FALSE
      [] ev.entity # <<>> /\ ev.relation = <<>> -> validEntityEvent(ev.entity[1], vocabulary)
      [] ev.entity = <<>> /\ ev.relation # <<>> -> validRelationEvent(ev.relation[1], vocabulary)
      [] OTHER -> FALSE

(***************************************************************************)
(* The stored form.  A field at its default is absent from the bytes, so   *)
(* the two values that share the default cannot be told apart afterwards.  *)
(***************************************************************************)
nanoOf(t) == IF t = unset THEN 0 ELSE t
timeOf(n) == IF n = 0 THEN unset ELSE n

DeleteSources == {"producer", "liveness_expiry", "cascade"}

sourceToProto(s) == IF s \in DeleteSources THEN s ELSE "unspecified"
deleteSourceFromProto(p) == IF p \in DeleteSources THEN p ELSE "unknown"

RECURSIVE valueToProto(_), valueFromProto(_)
kvsToProto(kvs) ==
    [n \in DOMAIN kvs |-> [key |-> kvs[n].key, value |-> valueToProto(kvs[n].value)]]
kvsFromProto(pks) ==
    [n \in DOMAIN pks |-> [key |-> pks[n].key, value |-> valueFromProto(pks[n].value)]]

valueToProto(v) ==
    CASE v.kind = "string" -> [StringValue |-> v.s]
      [] v.kind = "int" -> [IntValue |-> v.i]
      [] v.kind = "double" -> [DoubleValue |-> v.f]
      [] v.kind = "bool" -> [BoolValue |-> v.b]
      [] v.kind = "array" -> [ArrayValue |-> [n \in DOMAIN v.arr |-> valueToProto(v.arr[n])]]
      [] v.kind = "kvlist" -> [KvlistValue |-> kvsToProto(v.kvl)]
      [] OTHER -> [None |-> 0]

valueFromProto(p) ==
    LET is(field) == field \in DOMAIN p
    IN CASE is("StringValue") -> [kind |-> "string", s |-> p.StringValue]
         [] is("IntValue") -> [kind |-> "int", i |-> p.IntValue]
         [] is("DoubleValue") -> [kind |-> "double", f |-> p.DoubleValue]
         [] is("BoolValue") -> [kind |-> "bool", b |-> p.BoolValue]
         [] is("ArrayValue") ->
               [kind |-> "array",
                arr |-> [n \in DOMAIN p.ArrayValue |-> valueFromProto(p.ArrayValue[n])]]
         [] is("KvlistValue") -> [kind |-> "kvlist", kvl |-> kvsFromProto(p.KvlistValue)]
         [] OTHER -> [kind |-> "invalid"]

entityToProto(e) ==
    [EntityId |-> e.id, IdentityHash |-> IdentityHash(e), Type |-> e.type,
     Identity |-> kvsToProto(e.identity), Attributes |-> kvsToProto(e.attributes)]

EntityFromProto(p) ==
    [id |-> p.EntityId, type |-> p.Type, identity |-> kvsFromProto(p.Identity),
     attributes |-> kvsFromProto(p.Attributes)]

relationToProto(r) ==
    [RelationId |-> r.id, Type |-> r.type, From |-> r.from, To |-> r.to,
     Attributes |-> kvsToProto(r.attributes), Structural |-> r.structural]

RelationFromProto(p) ==
    [id |-> p.RelationId, type |-> p.Type, from |-> p.From, to |-> p.To,
     attributes |-> kvsFromProto(p.Attributes), structural |-> p.Structural]

(* What both kinds of event carry beside what they are about.              *)
eventToProto(e, about) ==
    [ChangeType |-> e.change, About |-> about, EventTimeUnixNano |-> nanoOf(e.at),
     RecordedAtUnixNano |-> nanoOf(e.recorded), CommitSeq |-> e.commit, Scope |-> e.scope,
     SchemaVersion |-> e.version, ChangedKeys |-> e.keys, DeleteSource |-> sourceToProto(e.source)]

eventFromProto(p, about) ==
    [change |-> p.ChangeType, about |-> about, at |-> timeOf(p.EventTimeUnixNano),
     recorded |-> timeOf(p.RecordedAtUnixNano), commit |-> p.CommitSeq, scope |-> p.Scope,
     version |-> p.SchemaVersion, keys |-> p.ChangedKeys,
     source |-> deleteSourceFromProto(p.DeleteSource)]

ToProto(ev) ==
    CASE ev.entity # <<>> -> [EntityEvent |-> eventToProto(ev.entity[1], entityToProto(ev.entity[1].about))]
      [] ev.entity = <<>> /\ ev.relation # <<>> ->
            [RelationEvent |-> eventToProto(ev.relation[1], relationToProto(ev.relation[1].about))]
      [] OTHER -> [None |-> 0]

EventFromProto(p) ==
    CASE "EntityEvent" \in DOMAIN p ->
            [entity |-> <<eventFromProto(p.EntityEvent, EntityFromProto(p.EntityEvent.About))>>,
             relation |-> <<>>]
      [] "RelationEvent" \in DOMAIN p ->
            [entity |-> <<>>,
             relation |-> <<eventFromProto(p.RelationEvent, RelationFromProto(p.RelationEvent.About))>>]
      [] OTHER -> [entity |-> <<>>, relation |-> <<>>]

Times(ev) ==
    CASE ev.entity # <<>> -> <<ev.entity[1].at, ev.entity[1].recorded>>
      [] ev.entity = <<>> /\ ev.relation # <<>> -> <<ev.relation[1].at, ev.relation[1].recorded>>
      [] OTHER -> <<unset, unset>>

(***************************************************************************)
(* The cases                                                               *)
(***************************************************************************)
CodecInit ==
    /\ \/ \E p \in ValuePairs : case = [kind |-> "values", of |-> p]
       \/ \E p \in EntityPairs : case = [kind |-> "entities", of |-> p]
       \/ \E ev \in Envelopes : case = [kind |-> "event", of |-> ev]
       \/ \E l \in Lookups : case = [kind |-> "lookup", of |-> l]
    /\ encoded = <<>> /\ caseOutcome = "none"

Compare ==
    /\ caseOutcome = "none" /\ case.kind \in {"values", "entities"}
    /\ encoded' = IF case.kind = "values"
                  THEN <<canonical(case.of[1]), canonical(case.of[2])>>
                  ELSE <<IdentityHash(case.of[1]), IdentityHash(case.of[2])>>
    /\ caseOutcome' = "compared"
    /\ UNCHANGED case

(* The engine validates what it appends; the vocabulary is checked unless  *)
(* the deployment opened it.                                               *)
Store(vocabulary) ==
    /\ caseOutcome = "none" /\ case.kind = "event"
    /\ \/ /\ validateEnvelope(case.of, vocabulary)
          /\ encoded' = ToProto(case.of) /\ caseOutcome' = "stored"
       \/ /\ ~validateEnvelope(case.of, vocabulary)
          /\ caseOutcome' = "refused" /\ UNCHANGED encoded
    /\ UNCHANGED case

Fetch ==
    /\ caseOutcome = "stored"
    /\ encoded' = EventFromProto(encoded) /\ caseOutcome' = "read"
    /\ UNCHANGED case

Resolve ==
    LET found == ResolveHandle(case.of, case.of.handle)
    IN /\ caseOutcome = "none" /\ case.kind = "lookup"
       /\ \/ found = {} /\ caseOutcome' = "unknown" /\ UNCHANGED encoded
          \/ \E id \in found : encoded' = <<id>> /\ caseOutcome' = "resolved"
       /\ UNCHANGED case

CodecNext == Compare \/ Fetch \/ Resolve \/ \E vocabulary \in BOOLEAN : Store(vocabulary)

CodecSpec == CodecInit /\ [][CodecNext]_codecVars

-----------------------------------------------------------------------------
CodecTypeOK == caseOutcome \in {"none", "compared", "stored", "refused", "read",
                           "resolved", "unknown"}

(* Structural equality: a map is the set of its entries.                   *)
RECURSIVE same(_, _)
sameEntries(a, b) ==
    /\ Len(a) = Len(b)
    /\ \A n \in DOMAIN a : \E m \in DOMAIN b : a[n].key = b[m].key /\ same(a[n].value, b[m].value)
same(v, w) ==
    /\ v.kind = w.kind
    /\ CASE v.kind = "array" ->
              Len(v.arr) = Len(w.arr) /\ \A n \in DOMAIN v.arr : same(v.arr[n], w.arr[n])
         [] v.kind = "kvlist" -> sameEntries(v.kvl, w.kvl)
         [] OTHER -> v = w

(* Two values have one canonical form exactly when they are the same       *)
(* value: no nesting and no text in a string passes for another shape, and *)
(* the order of a map does not matter.  Change detection rests on it.      *)
CanonicalExact ==
    (caseOutcome = "compared" /\ case.kind = "values") =>
        ((encoded[1] = encoded[2]) <=> same(case.of[1], case.of[2]))

(* Two entities have one identity hash exactly when they have one type and *)
(* the same identifying attributes, in whatever order a producer sent      *)
(* them.                                                                   *)
IdentityExact ==
    (caseOutcome = "compared" /\ case.kind = "entities") =>
        ((encoded[1] = encoded[2]) <=>
            /\ case.of[1].type = case.of[2].type
            /\ sameEntries(case.of[1].identity, case.of[2].identity))

(* A handle leads to what it names: the entity found has the fingerprint,  *)
(* or the displayed identity, that was asked for; and a live entity is     *)
(* found by every form of handle made from it.                             *)
HandlesNameTheirEntity ==
    LET g == case.of
        h == g.handle
        names(e) == CASE h.form = "id" -> e.id = h.id
                      [] h.form = "fingerprint" -> IdentityHash(e) = h.hash
                      [] OTHER -> /\ e.type = h.type
                                  /\ DOMAIN h.identity = {e.identity[n].key : n \in DOMAIN e.identity}
                                  /\ MatchAll([e EXCEPT !.attributes = <<>>], h.identity)
    IN case.kind = "lookup" =>
        /\ (caseOutcome = "resolved" /\ h.form # "id") =>
              \E e \in g.live \cup g.tombs : e.id = encoded[1] /\ names(e)
        /\ caseOutcome = "unknown" => \A e \in g.live : ~names(e)

(* A tombstone is found by the handles its id is found by: "a handle that  *)
(* resolved one way but not the other would be a trap of its own".         *)
TombstonesNamedToo ==
    (case.kind = "lookup" /\ caseOutcome = "unknown" /\ case.of.handle.form = "identity") =>
        \A e \in case.of.tombs :
            ~(e.type = case.of.handle.type /\ MatchAll([e EXCEPT !.attributes = <<>>], case.of.handle.identity))

(* An event that is accepted reads back as it was written, and still       *)
(* passes the check that let it in: replay, retention and shipping work on *)
(* the event that was committed.                                           *)
StoredIsRead ==
    caseOutcome = "read" =>
        /\ encoded = case.of
        /\ validateEnvelope(encoded, FALSE)
        /\ Times(encoded) = Times(case.of)

(* The codec keeps apart what differs and together what does not: values,        *)
(* identities, handles and stored events (value.go, ids.go, store.go, graph.go). *)
CodecExact ==
    CanonicalExact /\ IdentityExact /\ HandlesNameTheirEntity /\ StoredIsRead
=============================================================================
