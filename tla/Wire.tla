-------------------------------- MODULE Wire --------------------------------
(***************************************************************************)
(* The producer contract, read by the three parties that implement it: the    *)
(* SDK that writes a record (pkg/emit), the conformance kit that judges it      *)
(* before it ships (pkg/emit/conformance), and the boundary that decodes it      *)
(* (internal/ingest convert.go, embedded.go, then model and the engine).         *)
(*                                                                           *)
(* A record is written by the SDK or by hand, judged, and ingested.  Text is     *)
(* abstract: a spelling is told apart only where the kit does.  An int64 is a    *)
(* signed word of Word values, of which a second is Second: 2^64 and 10^9 in Go. *)
(***************************************************************************)
EXTENDS Integers, Sequences, FiniteSets, SequencesExt

CONSTANTS Natives,        \* <<event name, emit.Entity>> pairs given to the SDK
          Handmade,       \* records of producers that do not use the SDK
          Word, Second,   \* int64 wraps modulo Word; nanoseconds in a second
          MaxPlausible    \* maxPlausibleLivenessPromise

ASSUME WireAssumption ==
    /\ {Word, Second, MaxPlausible} \subseteq Nat \ {0} /\ Word % 2 = 0
    /\ Second <= MaxPlausible /\ 2 * MaxPlausible < Word

VARIABLES native,    \* what the SDK was asked to send, or NoNative
          record,    \* the record on the wire, or NoRecord
          problems,  \* what the kit says of it, or the set {Unjudged}
          vocab,     \* strict vocabulary (accept_unknown_types is off)
          outcome    \* what the boundary made of it, or Pending

wireVars == <<native, record, problems, vocab, outcome>>

NoNative == <<>>
NoRecord == [name |-> ""]
Unjudged == [at |-> 0, issue |-> "unjudged", advisory |-> TRUE]
Pending == [result |-> "pending"]

Absent == [t |-> "absent"]
Scalars == {"str", "int", "double", "bool"}
Str(s) == [t |-> "str", s |-> s]
IsStr(v) == v.t = "str" /\ v.s # ""

(* pcommon.Map: pairs in wire order; Get finds the first of its key. *)
Get(m, key) == LET hits == SelectSeq(m, LAMBDA kv : kv[1] = key)
               IN  IF hits = <<>> THEN Absent ELSE hits[1][2]

(* Signed arithmetic of the machine: the word n wraps to. *)
wrap(n) == LET r == n % Word IN IF 2 * r >= Word THEN r - Word ELSE r

-----------------------------------------------------------------------------
(* The SDK: Client.Build.  A Go map is a set of pairs, written in key order;     *)
(* SetToSeq stands for that order.  Failed is a returned error.                  *)

Failed == [t |-> "failed"]
putSorted(kvs) == SetToSeq({<<kv[1], Str(kv[2])>> : kv \in kvs})

RECURSIVE putAnyValue(_)
putAnyValue(v) ==
    CASE v.g = "string"  -> Str(v.s)
      [] v.g \in {"int", "uint"} -> [t |-> "int", n |-> wrap(v.n)]
      [] v.g = "float64" -> [t |-> "double", pct |-> v.pct, nan |-> FALSE]
      [] v.g = "slice"   -> LET es == [i \in DOMAIN v.elems |-> putAnyValue(v.elems[i])]
                            IN  IF Failed \in Range(es) THEN Failed
                                ELSE [t |-> "slice", elems |-> es]
      [] v.g = "map"     -> LET kvs == {<<kv[1], putAnyValue(kv[2])>> : kv \in v.kvs}
                            IN  IF \E kv \in kvs : kv[2] = Failed THEN Failed
                                ELSE [t |-> "map", kvs |-> SetToSeq(kvs)]
      [] OTHER           -> Failed

putRich(rich) == SetToSeq({<<kv[1], putAnyValue(kv[2])>> : kv \in rich})

(* Mutant: a belief loses its basis when it has a confidence. *)
beliefOfEither(r) ==
    IF r.type # "same_as" THEN <<>>
    ELSE IF ~r.nan /\ r.confidence > 0
         THEN <<<<"confidence", [t |-> "double", pct |-> r.confidence, nan |-> FALSE]>>>>
         ELSE IF r.basis # "" THEN <<<<"basis", Str(r.basis)>>>> ELSE <<>>

beliefOf(r) ==
    IF r.type # "same_as" THEN <<>>
    ELSE (IF ~r.nan /\ r.confidence > 0
          THEN <<<<"confidence", [t |-> "double", pct |-> r.confidence, nan |-> FALSE]>>>> ELSE <<>>)
         \o (IF r.basis # "" THEN <<<<"basis", Str(r.basis)>>>> ELSE <<>>)

refusesRelationship(r) ==
    \/ r.type = "" \/ r.targetType = "" \/ r.targetID = {}
    \/ ~r.nan /\ (r.confidence < 0 \/ r.confidence > 100)

descriptorOf(r) ==
    [t |-> "map", kvs |-> <<<<"relationship.type", Str(r.type)>>,
                           <<"entity.type", Str(r.targetType)>>,
                           <<"entity.id", [t |-> "map", kvs |-> putSorted(r.targetID)]>>>> \o beliefOf(r)]

Refuses(ev, e) ==
    \/ ev \notin {"entity.state", "entity.delete"}
    \/ e.type = "" \/ e.id = {}
    \/ e.interval > 0 /\ e.interval < Second
    \/ {kv[1] : kv \in e.attrs} \cap {kv[1] : kv \in e.rich} # {}
    \/ \E kv \in e.rich : putAnyValue(kv[2]) = Failed
    \/ ev = "entity.state" /\ \E i \in DOMAIN e.rels : refusesRelationship(e.rels[i])

Build(ev, e) ==
    [name |-> ev, typ |-> Str(e.type), id |-> [t |-> "map", kvs |-> putSorted(e.id)],
     desc |-> IF e.attrs = {} /\ e.rich = {} THEN Absent
              ELSE [t |-> "map", kvs |-> putSorted(e.attrs) \o putRich(e.rich)],
     interval |-> IF e.interval > 0 THEN [t |-> "int", n |-> e.interval \div Second] ELSE Absent,
     reason |-> IF ev = "entity.delete" /\ e.reason # "" THEN Str(e.reason) ELSE Absent,
     rels |-> IF ev = "entity.state" /\ e.rels # <<>>
              THEN [t |-> "slice", elems |-> [i \in DOMAIN e.rels |-> descriptorOf(e.rels[i])]]
              ELSE Absent,
     instance |-> IF e.instance = "" THEN Absent ELSE Str(e.instance)]

-----------------------------------------------------------------------------
(* The kit: Check.  A problem names the descriptor it is about, or 0.            *)

P(at, issues) == {[at |-> at, issue |-> i, advisory |-> FALSE] : i \in issues}
Advice(at, issues) == {[at |-> at, issue |-> i, advisory |-> TRUE] : i \in issues}
If(cond, issue) == IF cond THEN {issue} ELSE {}

checkScalarMap(m) == If(\E i \in DOMAIN m : m[i][1] = "", "empty key")
                     \cup If(\E i \in DOMAIN m : m[i][2].t \notin Scalars, "not scalar")

(* Spellings the kit tells apart. *)
isRawMachineID(s) == s = "4f2a"
isUUIDWithUppercase(s) == s = "4F2A-"
isCanonicalMAC(s) == s = "AA-BB"
macRung(s) == CASE s = "mac:AA-BB" -> "AA-BB" [] s = "mac:aa:bb" -> "aa:bb" [] OTHER -> "AA-BB"

checkHostID(m) == LET v == Get(m, "host.id")
                  IN  If(v.t = "str" /\ (isRawMachineID(v.s) \/ isUUIDWithUppercase(v.s)), "host.id rendering")
checkMAC(m) == LET v == Get(m, "mac")
                   d == Get(m, "network.device.id")
               IN  If(v.t = "str" /\ ~isCanonicalMAC(v.s), "mac rendering")
                   \cup If(d.t = "str" /\ ~isCanonicalMAC(macRung(d.s)), "device mac rendering")
checkIdentityKeySpelling(m) == If(Get(m, "interface.name") # Absent, "retired identity key")
identityIssues(m) == checkHostID(m) \cup checkMAC(m) \cup checkIdentityKeySpelling(m)

RECURSIVE checkDescriptionMap(_), checkDescriptionValue(_)
checkDescriptionMap(m) == If(\E i \in DOMAIN m : m[i][1] = "", "empty key")
                          \cup UNION {checkDescriptionValue(m[i][2]) : i \in DOMAIN m}
checkDescriptionValue(v) ==
    CASE v.t \in Scalars -> {}
      [] v.t = "slice" -> UNION {checkDescriptionValue(v.elems[i]) : i \in DOMAIN v.elems}
      [] v.t = "map" -> checkDescriptionMap(v.kvs)
      [] OTHER -> {"unsupported leaf"}

frozenVocabularies ==
    {[key |-> "oper_state", refuse |-> TRUE,
      values |-> {"up", "down", "testing", "unknown", "dormant", "not_present", "lower_layer_down"}],
     [key |-> "admin_state", refuse |-> TRUE, values |-> {"up", "down", "testing"}],
     [key |-> "duplex", refuse |-> TRUE, values |-> {"full", "half", "unknown"}],
     [key |-> "interface.type", refuse |-> TRUE, values |-> {"physical", "virtual", "wireless", "loopback"}],
     [key |-> "host.virtualization", refuse |-> FALSE,
      values |-> {"none", "kvm", "vmware", "xen", "hyperv", "virtualbox", "qemu", "lxc", "openvz", "bhyve", "unknown"}],
     [key |-> "host.chassis.type", refuse |-> TRUE,
      values |-> {"desktop", "laptop", "server", "blade", "vm", "other"}]}

checkValueVocabularies(m) ==
    UNION {LET v == Get(m, f.key)
               wrong == CASE v = Absent -> {}
                          [] v.t # "str" -> {"not a name"}
                          [] v.s = "" -> {"present and empty"}
                          [] v.s \in f.values -> {}
                          [] OTHER -> {"outside the vocabulary"}
           IN  IF f.refuse THEN P(0, wrong) ELSE Advice(0, wrong) : f \in frozenVocabularies}

(* Float comparisons: each is false of a NaN.  An int is never one. *)
pctOf(v) == IF v.t = "int" THEN 100 * v.n ELSE v.pct
isNaN(v) == v.t = "double" /\ v.nan
Below(v, b) == ~isNaN(v) /\ pctOf(v) < b
Above(v, b) == ~isNaN(v) /\ pctOf(v) > b
Within(v, a, b) == ~isNaN(v) /\ a <= pctOf(v) /\ pctOf(v) <= b

beliefConfidenceByBasis == {"rekey", "k8s_api", "vm_id_match"}

checkSameAsBelief(i, m) ==
    LET basis == Get(m, "basis")
        c == Get(m, "confidence")
    IN  Advice(i, If(basis.t # "str" \/ basis = Str(""), "no basis"))
        \cup P(i, CASE c = Absent -> {"no_confidence"}
                    [] c.t \notin {"double", "int"} -> {"confidence_not_numeric"}
                    [] Below(c, 0) \/ Above(c, 100) -> {"confidence_out_of_range"}
                    [] OTHER -> If(basis.t = "str" /\ basis.s \in beliefConfidenceByBasis
                                       /\ (isNaN(c) \/ pctOf(c) # 100), "contractual confidence"))

checkResolvesToBelief(i, m) ==
    Advice(i, If(Get(m, "confidence") # Absent, "relation_has_no_reader"))

checkDescriptor(i, el) ==
    IF el.t # "map" THEN P(i, {"descriptor is not a map"})
    ELSE LET target == Get(el.kvs, "entity.id")
             type == Get(el.kvs, "relationship.type")
         IN  P(i, If(~IsStr(type), "no relationship.type")
                  \cup If(~IsStr(Get(el.kvs, "entity.type")), "no target type")
                  \cup (IF target.t # "map" THEN {"no target id"}
                        ELSE IF target.kvs = <<>> THEN {"no target id"} ELSE identityIssues(target.kvs)))
             \cup CASE type = Str("same_as") -> checkSameAsBelief(i, el.kvs)
                    [] type = Str("resolves_to") -> checkResolvesToBelief(i, el.kvs)
                    [] OTHER -> {}

checkRelationships(rec) ==
    P(0, If(rec.name = "entity.delete", "relationships on a delete") \cup If(rec.rels.t # "slice", "not a slice"))
    \cup (IF rec.rels.t # "slice" THEN {}
          ELSE UNION {checkDescriptor(i, rec.rels.elems[i]) : i \in DOMAIN rec.rels.elems})

checkRecord(rec) ==
    P(0, If(~IsStr(rec.typ), "entity.type")
         \cup (IF rec.id.t # "map" THEN {"entity.id"}
               ELSE IF rec.id.kvs = <<>> THEN {"entity.id"}
               ELSE checkScalarMap(rec.id.kvs) \cup identityIssues(rec.id.kvs))
         \cup (CASE rec.desc = Absent -> {} [] rec.desc.t # "map" -> {"description"}
                 [] OTHER -> checkDescriptionMap(rec.desc.kvs) \cup checkMAC(rec.desc.kvs))
         \cup (CASE rec.interval = Absent -> {} [] rec.interval.t # "int" -> {"mistyped interval"}
                 [] OTHER -> If(rec.interval.n < 0, "negative interval")))
    \cup (IF rec.desc.t = "map" THEN checkValueVocabularies(rec.desc.kvs) ELSE {})
    \cup (IF rec.rels = Absent THEN {} ELSE checkRelationships(rec))

checkResource(rec) == Advice(0, If(~IsStr(rec.instance), "anonymous"))

IsEntityEvent(rec) == rec.name \in {"entity.state", "entity.delete"}
Check(rec) == IF IsEntityEvent(rec) THEN checkRecord(rec) \cup checkResource(rec) ELSE {}

-----------------------------------------------------------------------------
(* The boundary: routeRecordVocab, then embeddedReconciler.handleVocab.          *)

KnownEntityTypes == {"host", "network.neighbor"}
KnownRelations == {"runs_on", "same_as", "resolves_to"}

Unusable == [t |-> "unusable"]

RECURSIVE valueFrom(_, _)
kvsFromMap(m, nested) ==
    LET converted == [i \in DOMAIN m |-> <<m[i][1], valueFrom(m[i][2], nested)>>]
    IN  [kvs |-> SelectSeq(converted, LAMBDA kv : kv[2] # Unusable),
         dropped |-> Cardinality({i \in DOMAIN m : converted[i][2] = Unusable})]
valueFrom(v, nested) ==
    CASE v.t \in Scalars -> v
      [] v.t = "slice" /\ nested ->
            LET es == [i \in DOMAIN v.elems |-> valueFrom(v.elems[i], TRUE)]
            IN  IF Unusable \in Range(es) THEN Unusable ELSE [t |-> "slice", elems |-> es]
      [] v.t = "map" /\ nested ->
            LET c == kvsFromMap(v.kvs, TRUE)
            IN  IF c.dropped > 0 THEN Unusable ELSE [t |-> "map", kvs |-> c.kvs]
      [] OTHER -> Unusable

mapAttr(v, nested) == IF v.t = "map" THEN kvsFromMap(v.kvs, nested) ELSE [kvs |-> <<>>, dropped |-> 0]

validateWireKeyValues(kvs) == /\ \A i \in DOMAIN kvs : kvs[i][1] # ""
                          /\ \A i, j \in DOMAIN kvs : i # j => kvs[i][1] # kvs[j][1]

validate(typ, ident, attrs, strict) ==
    /\ typ # "" /\ (strict => typ \in KnownEntityTypes)
    /\ ident # <<>> /\ validateWireKeyValues(ident) /\ validateWireKeyValues(attrs)

(* entity.report.interval: time.Duration(secs) * time.Second. *)
interval(v) == IF v.t = "int" THEN IF v.n > 0 THEN wrap(v.n * Second) ELSE 0 ELSE 0

(* Engine.promise: the interval honoured, and whether it is reported. *)
promise(declared) == IF declared <= MaxPlausible THEN [honoured |-> declared, reported |-> FALSE]
                     ELSE [honoured |-> 0, reported |-> TRUE]

(* beliefAttributes: what is stored of a belief, and why it will change nothing. *)
beliefAttributes(m, relType) ==
    LET c == Get(m, "confidence")
        basis == Get(m, "basis")
    IN  [attrs |-> {<<"confidence", v>> : v \in {w \in {c} : w.t \in {"double", "int"}}}
                   \cup {<<"basis", v>> : v \in {w \in {basis} : IsStr(w)}},
         reason |-> CASE relType = "resolves_to" -> IF c = Absent THEN "" ELSE "relation_has_no_reader"
                      [] c = Absent -> "no_confidence"
                      [] c.t \notin {"double", "int"} -> "confidence_not_numeric"
                      [] OTHER -> IF Within(c, 0, 100) THEN "" ELSE "confidence_out_of_range"]

(* One descriptor of embeddedRelations: the edges (one or none), the values      *)
(* dropped, the belief notes, and whether it makes the record invalid.           *)
descriptor(i, el, strict) ==
    LET skipped(n) == [edge |-> {}, dropped |-> n, notes |-> {}, invalid |-> FALSE]
        type == Get(el.kvs, "relationship.type")
        target == Get(el.kvs, "entity.id")
        to == Get(el.kvs, "entity.type")
        id == kvsFromMap(target.kvs, FALSE)
        belief == beliefAttributes(el.kvs, type.s)
        isBelief == type.s \in {"same_as", "resolves_to"}
    IN  IF el.t # "map" THEN skipped(1)
        ELSE IF ~IsStr(type) \/ to.t # "str" \/ target.t # "map" THEN skipped(1)
        ELSE IF strict /\ type.s \notin KnownRelations THEN [skipped(0) EXCEPT !.invalid = TRUE]
        ELSE IF id.kvs = <<>> THEN skipped(id.dropped + 1)
        ELSE [edge |-> {[at |-> i, type |-> type.s, toType |-> to.s, to |-> Range(id.kvs),
                         attrs |-> IF isBelief THEN belief.attrs ELSE {}]},
              dropped |-> id.dropped, invalid |-> FALSE,
              notes |-> IF isBelief /\ belief.reason # "" THEN {[at |-> i, reason |-> belief.reason]} ELSE {}]

embeddedRelations(rec, strict) ==
    IF rec.name # "entity.state" \/ rec.rels.t # "slice" THEN <<>>
    ELSE [i \in DOMAIN rec.rels.elems |-> descriptor(i, rec.rels.elems[i], strict)]

(* entityObs and the record's place in the batch: counted once, as handled,      *)
(* ignored or rejected.                                                          *)
entityObs(rec, strict) ==
    LET ident == mapAttr(rec.id, FALSE)
        desc == mapAttr(rec.desc, TRUE)
        rels == embeddedRelations(rec, strict)
        iv == promise(interval(rec.interval))
        mistyped == IF rec.interval.t \in {"absent", "int"} THEN 0 ELSE 1
    IN  IF rec.typ.t # "str" THEN [result |-> "rejected"]
        ELSE IF ~validate(rec.typ.s, ident.kvs, desc.kvs, strict) THEN [result |-> "rejected"]
        ELSE [result |-> IF \E i \in DOMAIN rels : rels[i].invalid THEN "rejected" ELSE "handled",
              type |-> rec.typ.s, identity |-> Range(ident.kvs), attrs |-> Range(desc.kvs),
              honoured |-> iv.honoured, reported |-> iv.reported,
              reason |-> IF rec.name = "entity.delete" /\ rec.reason.t = "str" THEN rec.reason.s ELSE "",
              edges |-> UNION {d.edge : d \in Range(rels)}, notes |-> UNION {d.notes : d \in Range(rels)},
              dropped |-> ident.dropped + desc.dropped + mistyped
                          + MapThenSumSet(LAMBDA i : rels[i].dropped, DOMAIN rels)]

-----------------------------------------------------------------------------
WireInit ==
    /\ native = NoNative /\ record = NoRecord /\ problems = {Unjudged}
    /\ vocab \in BOOLEAN /\ outcome = Pending

(* Client.State and Client.Delete: Build, or return its error. *)
Send ==
    /\ record = NoRecord /\ native = NoNative
    /\ \E ne \in Natives : /\ native' = ne
                           /\ record' = IF Refuses(ne[1], ne[2]) THEN NoRecord ELSE Build(ne[1], ne[2])
    /\ UNCHANGED <<problems, vocab, outcome>>

SendHandmade ==
    /\ record = NoRecord /\ native = NoNative
    /\ \E r \in Handmade : record' = r
    /\ UNCHANGED <<native, problems, vocab, outcome>>

Judge ==
    /\ record # NoRecord /\ problems = {Unjudged}
    /\ problems' = Check(record)
    /\ UNCHANGED <<native, record, vocab, outcome>>

Route ==
    /\ record # NoRecord /\ outcome = Pending
    /\ outcome' = IF IsEntityEvent(record) THEN entityObs(record, vocab) ELSE [result |-> "ignored"]
    /\ UNCHANGED <<native, record, problems, vocab>>

WireNext == Send \/ SendHandmade \/ Judge \/ Route

-----------------------------------------------------------------------------
(* Each variable holds what its step leaves in it. *)
WireTypeOK ==
    /\ native \in Natives \cup {NoNative} /\ vocab \in BOOLEAN
    /\ \A p \in problems : p.at \in Nat /\ p.advisory \in BOOLEAN
    /\ outcome.result \in {"pending", "ignored", "handled", "rejected"}

Judged == problems # {Unjudged}
Ships == Judged /\ \A p \in problems : p.advisory
Registered(rec) ==
    /\ rec.typ.s \in KnownEntityTypes
    /\ rec.rels.t = "slice" =>
         \A i \in DOMAIN rec.rels.elems : Get(rec.rels.elems[i].kvs, "relationship.type").s \in KnownRelations

(* A record that the kit lets ship is never rejected by the boundary for its     *)
(* shape: only the vocabulary can refuse it (conformance.go, package comment).   *)
ConformantNeverRejected ==
    Ships /\ outcome.result = "rejected" => vocab /\ ~Registered(record)

RECURSIVE means(_)
means(v) ==
    CASE v.g = "string" -> Str(v.s)
      [] v.g \in {"int", "uint"} -> [t |-> "int", n |-> v.n]
      [] v.g = "float64" -> [t |-> "double", pct |-> v.pct, nan |-> FALSE]
      [] v.g = "slice" -> [t |-> "slice", elems |-> [i \in DOMAIN v.elems |-> means(v.elems[i])]]
      [] OTHER -> [t |-> "map", kvs |-> SetToSeq({<<kv[1], means(kv[2])>> : kv \in v.kvs})]

texts(kvs) == {<<kv[1], Str(kv[2])>> : kv \in kvs}

(* What the SDK was asked to send, when it builds it and the kit lets it ship,    *)
(* is what the boundary hears: the entity, its attributes, its promise in whole    *)
(* seconds, its relationships with their beliefs, its delete reason, and nothing    *)
(* is dropped (emit.go Build; convert.go entityObs; embedded.go).                   *)
SaidIsHeard ==
    (native # NoNative /\ Ships /\ outcome.result = "handled") =>
        LET e == native[2] IN
        /\ outcome.type = e.type /\ outcome.identity = texts(e.id) /\ outcome.dropped = 0
        /\ outcome.attrs = texts(e.attrs) \cup {<<kv[1], means(kv[2])>> : kv \in e.rich}
        /\ e.interval > MaxPlausible \/ outcome.honoured = e.interval - (e.interval % Second)
        /\ outcome.reason = IF native[1] = "entity.delete" THEN e.reason ELSE ""
        /\ native[1] = "entity.state" =>
             outcome.edges =
                {[at |-> i, type |-> e.rels[i].type, toType |-> e.rels[i].targetType,
                  to |-> texts(e.rels[i].targetID),
                  attrs |-> IF e.rels[i].type # "same_as" THEN {}
                            ELSE {<<"confidence", [t |-> "double", pct |-> e.rels[i].confidence, nan |-> FALSE]>>}
                                 \cup {<<"basis", Str(b)>> : b \in {e.rels[i].basis} \ {""}}]
                 : i \in DOMAIN e.rels}

(* Of every belief that becomes an edge, the kit and the server's counter say     *)
(* the same thing in the same words (embedded.go beliefAttributes; metrics.go).    *)
KitAndServerAgree ==
    (Judged /\ outcome.result = "handled") =>
        \A e \in outcome.edges :
            {n.reason : n \in {m \in outcome.notes : m.at = e.at}}
              = {p.issue : p \in {q \in problems : q.at = e.at}}
                \cap {"no_confidence", "confidence_not_numeric", "confidence_out_of_range",
                      "relation_has_no_reader"}

(* A declared interval is honoured as declared, or refused and reported when it   *)
(* is implausible: never absorbed into another one (Engine.promise).              *)
PromisesNeverAbsorbed ==
    (outcome.result = "handled" /\ record.interval.t = "int") =>
        IF record.interval.n * Second > MaxPlausible THEN outcome.honoured = 0 /\ outcome.reported
        ELSE ~outcome.reported /\ outcome.honoured = IF record.interval.n > 0 THEN record.interval.n * Second ELSE 0

=============================================================================
