---------------------------- MODULE Provenance ----------------------------
(***************************************************************************)
(* What a reader is told of one entity beside its attributes: who asserts it,  *)
(* how often it is refreshed, whether two producers fight over its name        *)
(* (internal/change, internal/model/displayname.go), and, when a handle finds    *)
(* nothing, why (internal/mcp/convert.go, internal/graphql/resolvers).          *)
(*                                                                           *)
(* Abstractions.  A display name is the sequence of the attribute values it is  *)
(* made of, <<>> when nothing names the entity.  The instant of an as-of read   *)
(* is a tick of the clock, and the fold at it is the entity's state then.       *)
(* Tombstones are not evicted, the engine does not restart (Memento models       *)
(* that), and an observation is committed when it is made.                      *)
(***************************************************************************)
EXTENDS Integers, Sequences, FiniteSets, FiniteSetsExt

CONSTANTS Agents,       \* <<producer, scope>>, "" for an unnamed one
          EntityType,
          Sayings,      \* [attributes, declared]: what an agent may report of the entity,
                        \* the interval 0 when it declares none
          MaxPlausibleInterval, \* maxPlausibleLivenessPromise
          MaxNames,     \* maxContestedDisplayNames
          ProvenanceReads, \* [surface, past, handle, compact] a reader asks
          MaxClock, MaxHeard \* bounds: ticks of the clock, observations

ASSUME ProvenanceAssumption ==
    /\ \A o \in Sayings : o.declared \in Nat
    /\ MaxPlausibleInterval \in Nat /\ MaxNames \in Nat \ {0}
    /\ MaxClock \in Nat /\ MaxHeard \in Nat

VARIABLES clock,
          standing,   \* by clock tick so far, the entity's state: "none", "live", "deleted"
          attributes, \* the entity's, as last projected
          referrers,   \* Engine.refs[id]: agent -> [deadline, interval], deadline 0 for none
          badPromise, \* Engine.badPromises[id]: the producer refused, or <<>>
          names,      \* Engine.contested[id]: [last, contested, values], or <<>>
          lastAnswer,     \* the last reader's, until something changes
          heard,      \* history: <<name, when>> of the observations since the entity exists
          defects     \* history: agents whose last assertion declared an implausible interval

provenanceVars == <<clock, standing, attributes, referrers, badPromise, names, lastAnswer, heard, defects>>

nobody == <<>>
unanswered == [kind |-> "unanswered"]
entityNow == standing[clock]

-----------------------------------------------------------------------------
(* The registry of display names: what a name is composed of, or else the         *)
(* attributes that may hold it in order of preference.                            *)
displayNameKeys ==
    [t \in {"host", "container", "network.device"} |->
        CASE t = "host" -> <<"host.name">>
          [] t = "container" -> <<"container.name", "compose.service">>
          [] t = "network.device" -> <<"network.device.name", "device.name", "sys.name">>]

presentKeys(attrs, keys) == SelectSeq(keys, LAMBDA k : k \in DOMAIN attrs)
valuesOf(attrs, keys) == [i \in DOMAIN keys |-> attrs[keys[i]]]

(* A database is its system, its address when it has one and its port when it     *)
(* has both; an endpoint its address and port; a neighbor its MAC.                *)
composedName(attrs) ==
    CASE EntityType = "db" ->
            IF "db.system.name" \notin DOMAIN attrs THEN <<>>
            ELSE IF "server.address" \notin DOMAIN attrs THEN <<attrs["db.system.name"]>>
            ELSE valuesOf(attrs, presentKeys(attrs, <<"db.system.name", "server.address", "server.port">>))
      [] EntityType = "network.endpoint" ->
            IF "server.address" \notin DOMAIN attrs THEN <<>>
            ELSE valuesOf(attrs, presentKeys(attrs, <<"server.address", "server.port">>))
      [] EntityType = "network.neighbor" -> valuesOf(attrs, presentKeys(attrs, <<"mac">>))
      [] OTHER -> <<>>

DisplayName(attrs) ==
    LET composed == composedName(attrs)
        held == IF EntityType \in DOMAIN displayNameKeys
                THEN presentKeys(attrs, displayNameKeys[EntityType]) ELSE <<>>
    IN  IF composed # <<>> \/ held = <<>> THEN composed ELSE <<attrs[Head(held)]>>

-----------------------------------------------------------------------------
(* promise: an implausible interval promises nothing and is held against its       *)
(* producer, until anyone speaks of the entity plausibly.                          *)
promised(declared) == IF declared <= MaxPlausibleInterval THEN declared ELSE 0
refusedAfter(a, declared) == IF declared <= MaxPlausibleInterval THEN nobody ELSE <<a[1]>>

reference(declared) ==
    [deadline |-> IF promised(declared) = 0 THEN 0 ELSE clock + promised(declared),
     interval |-> promised(declared)]

(* Whether another name than the last settles it: one seen before, or one too many. *)
known == DOMAIN names.values
full(name) == name # names.last /\ Cardinality(known) >= MaxNames

settles(name) == full(name) \/ (name # names.last /\ name \in known)

(* trackDisplayName: a name that comes back after another is contested, and so is  *)
(* an entity with too many.  Which of the oldest names goes is the map's order.     *)
trackDisplayName(name, prev) ==
    IF name = <<>> THEN {names}
    ELSE IF names = nobody
    THEN IF prev \in {<<>>, name} THEN {names}
         ELSE {[last |-> name, contested |-> FALSE, values |-> [v \in {prev, name} |-> clock]]}
    ELSE LET oldest == {v \in known : \A w \in known : names.values[v] <= names.values[w]}
         IN  {[last |-> name, contested |-> names.contested \/ settles(name),
               values |-> [v \in (known \ gone) \cup {name} |-> IF v = name THEN clock ELSE names.values[v]]]
                 : gone \in IF full(name) THEN {{v} : v \in oldest} ELSE {{}}}

ContestedDisplayNames == IF names # nobody /\ names.contested THEN 1 ELSE 0

-----------------------------------------------------------------------------
ProvenanceInit ==
    /\ clock = 1 /\ standing = <<"none">>
    /\ attributes = <<>> /\ referrers = <<>> /\ badPromise = nobody /\ names = nobody
    /\ lastAnswer = unanswered /\ heard = <<>> /\ defects = {}

(* observeEntityLocked; an entity that comes back has no previous name. *)
Observe(a) ==
    /\ Len(heard) < MaxHeard
    /\ \E o \in Sayings :
         LET attrs == o.attributes
             declared == o.declared
             prev == IF entityNow = "live" THEN DisplayName(attributes) ELSE <<>>
         IN  /\ standing' = [standing EXCEPT ![clock] = "live"]
             /\ attributes' = attrs
             /\ referrers' = [b \in DOMAIN referrers \cup {a} |->
                                IF b = a THEN reference(declared) ELSE referrers[b]]
             /\ badPromise' = refusedAfter(a, declared)
             /\ names' \in trackDisplayName(DisplayName(attrs), prev)
             /\ heard' = Append(IF entityNow = "live" THEN heard ELSE <<>>, <<DisplayName(attrs), clock>>)
             /\ defects' = IF declared > MaxPlausibleInterval THEN defects \cup {a} ELSE defects \ {a}
    /\ lastAnswer' = unanswered
    /\ UNCHANGED clock

deleteIfUnclaimed ==
    IF referrers' = <<>>
    THEN standing' = [standing EXCEPT ![clock] = "deleted"] /\ heard' = <<>>
    ELSE UNCHANGED <<standing, heard>>

(* deleteEntityLocked: the entity goes with its last speaker, its names with it;    *)
(* the refused promise stays.                                                      *)
Retract(a) ==
    /\ entityNow = "live"
    /\ referrers' = [b \in DOMAIN referrers \ {a} |-> referrers[b]]
    /\ deleteIfUnclaimed
    /\ names' = IF referrers' = <<>> THEN nobody ELSE names
    /\ defects' = defects \ {a}
    /\ lastAnswer' = unanswered
    /\ UNCHANGED <<clock, attributes, badPromise>>

livenessInterval(refs) == Max({refs[a].interval : a \in DOMAIN refs} \cup {0})

recent(values, interval) ==
    [v \in {w \in DOMAIN values : interval = 0 \/ clock <= values[w] + interval} |-> values[v]]

(* Sweep: lapsed references go, the entity with the last; then old names, by the    *)
(* coarsest interval still declared.                                              *)
SweepEntity ==
    LET live == [a \in {b \in DOMAIN referrers : referrers[b].deadline = 0 \/ clock <= referrers[b].deadline}
                    |-> referrers[a]]
    IN  /\ entityNow = "live"
        /\ referrers' = live
        /\ deleteIfUnclaimed
        /\ names' = IF live = <<>> \/ names = nobody THEN nobody
                    ELSE LET kept == recent(names.values, livenessInterval(live))
                         IN  IF kept = <<>> THEN nobody ELSE [names EXCEPT !.values = kept]
        /\ defects' = defects \cap DOMAIN live
        /\ lastAnswer' = IF entityNow = standing'[clock] THEN lastAnswer ELSE unanswered
        /\ UNCHANGED <<clock, attributes, badPromise>>

(* Time passes; what a reader was told stands until someone speaks. *)
ClockTick ==
    /\ clock < MaxClock
    /\ clock' = clock + 1
    /\ standing' = Append(standing, entityNow)
    /\ UNCHANGED <<attributes, referrers, badPromise, names, lastAnswer, heard, defects>>

-----------------------------------------------------------------------------
producersOf == {a[1] : a \in DOMAIN referrers} \ {""}
scopesOf == {a[2] : a \in DOMAIN referrers} \ {""}
AnonymousReferences == Cardinality({a \in DOMAIN referrers : a[1] = ""})

(* ResolveHandle: a bare id passes through whether or not the graph holds it; a     *)
(* fingerprint is looked up, and an inline identity short of keys finds nothing.    *)
resolvesIn(handle, state) ==
    CASE handle.form = "id" -> TRUE
      [] handle.form = "fingerprint" -> handle.known /\ state # "none"
      [] handle.form = "partial" -> FALSE

(* notFoundMsg and partialIdentityHint. *)
notFound(handle, past) ==
    [kind |-> "absent", handle |-> handle,
     why |-> IF past # 0
             THEN IF resolvesIn(handle, entityNow) THEN "exists now" ELSE "not now either"
             ELSE IF handle.form = "partial" THEN "incomplete identity" ELSE "discover"]

resolutionFor(past) ==
    CASE past # 0 -> "unknown"
      [] past = 0 /\ livenessInterval(referrers) > 0 -> "declared"
      [] past = 0 /\ livenessInterval(referrers) = 0 -> IF badPromise # nobody THEN "refused" ELSE "none"

attachProducers(past, compact) ==
    IF compact \/ past # 0
    THEN [withheld |-> TRUE, assertedBy |-> {}, collectedBy |-> {}, anonymous |-> FALSE]
    ELSE [withheld |-> FALSE, assertedBy |-> producersOf, collectedBy |-> scopesOf,
          anonymous |-> producersOf = {} /\ AnonymousReferences > 0]

(* The GraphQL fields know neither past instants nor refused promises. *)
Resolution == IF livenessInterval(referrers) > 0 THEN "declared" ELSE "none"

(* Mutant: anonymous references are not mentioned. *)
AssertedBySilently == [withheld |-> FALSE, assertedBy |-> producersOf, collectedBy |-> scopesOf, anonymous |-> FALSE]

AssertedBy ==
    [withheld |-> FALSE, assertedBy |-> producersOf, collectedBy |-> scopesOf,
     anonymous |-> producersOf = {} /\ AnonymousReferences > 0]

stateAt(past) == IF past = 0 THEN entityNow ELSE standing[past]
heldAt(r) == IF r.handle.known THEN stateAt(r.past) ELSE "none"
found(r) == resolvesIn(r.handle, stateAt(r.past)) /\ heldAt(r) # "none"

asking(r, surface) ==
    /\ r.surface = surface /\ r.past <= clock
    /\ UNCHANGED <<clock, standing, attributes, referrers, badPromise, names, heard, defects>>

getEntity(r) ==
    /\ asking(r, "mcp")
    /\ lastAnswer' = IF ~found(r) THEN notFound(r.handle, r.past)
                 ELSE [kind |-> "entity", past |-> r.past, deleted |-> heldAt(r) = "deleted",
                       resolution |-> resolutionFor(r.past), by |-> attachProducers(r.past, r.compact)]

(* The GraphQL entity, whose absence is a null. *)
Entity(r) ==
    /\ asking(r, "graphql")
    /\ lastAnswer' = IF ~found(r) THEN [kind |-> "null"]
                 ELSE [kind |-> "entity", past |-> r.past, deleted |-> heldAt(r) = "deleted",
                       resolution |-> Resolution, by |-> AssertedBy]

ProvenanceNext ==
    \/ \E a \in Agents : Observe(a) \/ Retract(a)
    \/ SweepEntity
    \/ ClockTick
    \/ \E r \in ProvenanceReads : getEntity(r) \/ Entity(r)

ProvenanceSpec == ProvenanceInit /\ [][ProvenanceNext]_provenanceVars

-----------------------------------------------------------------------------
(* Every variable holds a value of its kind, and references are of known agents. *)
ProvenanceTypeOK ==
    /\ clock \in 1..MaxClock
    /\ DOMAIN standing = 1..clock /\ \A t \in 1..clock : standing[t] \in {"none", "live", "deleted"}
    /\ DOMAIN referrers \subseteq Agents
    /\ names = nobody \/ (names.contested \in BOOLEAN /\ names.values # <<>>)
    /\ Len(heard) <= MaxHeard /\ defects \subseteq Agents

Declared == {o.declared : o \in Sayings}
came(i, j) == heard[i][1] = heard[j][1] /\ \E k \in i..j : heard[k][1] # heard[i][1]
allNamed(i, j) == \A k \in i..j : heard[k][1] # <<>>

(* A name is reported contested (trackDisplayName, ContestedDisplayNames) only when *)
(* one came back after another or more appeared than are kept, and always when one   *)
(* came back within every interval declared since.                                  *)
ContestedIsAlternation ==
    /\ ContestedDisplayNames = 1 =>
          \/ \E i, j \in 1..Len(heard) : i < j /\ came(i, j)
          \/ Cardinality({heard[i][1] : i \in 1..Len(heard)} \ {<<>>}) > MaxNames
    /\ \A i, j \in 1..Len(heard) :
          i < j /\ came(i, j) /\ allNamed(i, j)
          /\ (\A d \in Declared \ {0} : heard[j][2] <= heard[i][2] + d)
          => ContestedDisplayNames = 1

(* A reader who is told that nobody promised to refresh an entity is told it will    *)
(* not expire however long its producers stay silent (noLivenessPromise): no sweep    *)
(* ends it before someone speaks of it again.                                        *)
UnpromisedNeverExpire ==
    [][(SweepEntity /\ lastAnswer.kind = "entity" /\ lastAnswer.past = 0 /\ ~lastAnswer.deleted
        /\ lastAnswer.resolution \in {"none", "refused"}) => standing' = standing]_provenanceVars

(* An empty list of producers that is not withheld and carries no word of anonymous   *)
(* references is of an entity nobody asserts (attachProducers, Provenance).           *)
EmptyMeansUnclaimed ==
    (lastAnswer.kind = "entity" /\ ~lastAnswer.by.withheld /\ lastAnswer.by.assertedBy = {}
     /\ ~lastAnswer.by.anonymous /\ lastAnswer.past = 0 /\ ~lastAnswer.deleted) => DOMAIN referrers = {}

(* An agent whose refused interval is its last word on the entity is reported: the     *)
(* answer does not read as if nobody had promised (ImplausiblePromise).               *)
RefusalNotHidden ==
    (lastAnswer.kind = "entity" /\ lastAnswer.past = 0 /\ ~lastAnswer.deleted /\ lastAnswer.resolution = "none")
        => defects = {}

(* A handle said to exist now names an entity that is live now (notFoundMsg). *)
AbsenceExplained ==
    (lastAnswer.kind = "absent" /\ lastAnswer.why = "exists now") =>
        lastAnswer.handle.known /\ entityNow = "live"

(* A name counted as contested was not the only one heard within the longest          *)
(* declared interval (ContestedDisplayNames).                                         *)
ContestIsRecent ==
    ContestedDisplayNames = 1 =>
        Cardinality({heard[i][1] : i \in {k \in 1..Len(heard) :
                        clock <= heard[k][2] + Max(Declared)}} \ {<<>>}) # 1

(* An identity whose name came back within every declared interval is counted,        *)
(* whoever else speaks of it in between.                                             *)
AlternationNamed ==
    \A i, j \in 1..Len(heard) :
        i < j /\ heard[i][1] # <<>> /\ heard[i][1] = heard[j][1]
        /\ (\E k \in i..j : heard[k][1] \notin {<<>>, heard[i][1]})
        /\ (\A d \in Declared \ {0} : heard[j][2] <= heard[i][2] + d)
        => ContestedDisplayNames = 1

(* What a reader is told of who asserts an entity holds: an empty list means     *)
(* nobody, a contested name has alternated, and what nobody promised to refresh  *)
(* does not expire (attachProducers, trackDisplayName, noLivenessPromise).       *)
ProvenanceTrue ==
    /\ [](EmptyMeansUnclaimed /\ ContestedIsAlternation)
    /\ UnpromisedNeverExpire
=============================================================================
