------------------------------ MODULE Survey ------------------------------
(***************************************************************************)
(* Answers put together from several looks at a graph that changes meanwhile:  *)
(* the keys under which an entity's telemetry is found (internal/mcp/           *)
(* telemetry.go), how a type connects (dtype.go), why a search found nothing     *)
(* (tools.go), and the fleet checks of internal/metrics (identity.go,            *)
(* vendor.go).  Each look is one locked call; commits land between them.          *)
(*                                                                           *)
(* Abstractions.  An entity's keys are two functions, identity and attributes.    *)
(* A deleted entity is still found by its id; its edges go in commits of their    *)
(* own after it.  Sorting and wording are left out; a list in the order of ids    *)
(* is a set, cut to any of its subsets.  Collect does for each tenant what AskFleet *)
(* does for one, and adds up.                                                    *)
(***************************************************************************)
EXTENDS Integers, FiniteSets, FiniteSetsExt, Functions

CONSTANTS Census,     \* [id, type, identity, attributes]: entities that may exist
          Links,      \* [type, from, to]: edges that may exist
          Inquiries,  \* what may be asked, see Inquire
          KeySample,  \* keyUsageSample
          TypeSeries, \* maxTypeSeries
          MaxMoves    \* bound: changes of the graph

VARIABLES there,     \* ids of live entities
          linked,    \* edges of the graph
          moves,
          inquiry,   \* the question being answered, with what was looked up so far
          moments    \* history: <<there, linked>> since it was asked

surveyVars == <<there, linked, moves, inquiry, moments>>

idle == [stage |-> "idle"]
entityOf(id) == CHOOSE e \in Census : e.id = id
ofType(t) == {e \in Census : e.id \in there /\ (t = "" \/ e.type = t)}

SurveyInit ==
    /\ there = {e.id : e \in Census}
    /\ linked = Links
    /\ moves = 0 /\ inquiry = idle /\ moments = {}

-----------------------------------------------------------------------------
(* Commits: an entity comes or goes, an edge comes, or goes when retracted or        *)
(* after an end of it.                                                             *)
Commit(t, l) ==
    /\ moves < MaxMoves
    /\ moves' = moves + 1
    /\ there' = t /\ linked' = l
    /\ moments' = IF inquiry = idle THEN {} ELSE moments \cup {<<t, l>>}
    /\ UNCHANGED inquiry

EntityComes == \E e \in Census : e.id \notin there /\ Commit(there \cup {e.id}, linked)
EntityGoes == \E id \in there : Commit(there \ {id}, linked)
EdgeComes == \E l \in Links \ linked : {l.from, l.to} \subseteq there /\ Commit(there, linked \cup {l})
EdgeGoes == \E l \in linked : Commit(there, linked \ {l})

-----------------------------------------------------------------------------
(* The keys telemetry carries, of which the model has four, and the direction in     *)
(* which the other end of an edge owns an entity.                                    *)
joinKeys == {"host.id", "host.name", "service.name", "process.pid"}

ownerDirection(type) ==
    CASE type \in {"runs_on", "bound_to", "listens_on"} -> "outgoing"
      [] type \in {"has_interface", "has_route"} -> "incoming"
      [] OTHER -> "none"

linksOf(id) ==
    {[type |-> l.type, other |-> l.to, direction |-> "outgoing"] : l \in {k \in linked : k.from = id}}
    \cup {[type |-> l.type, other |-> l.from, direction |-> "incoming"] : l \in {k \in linked : k.to = id}}

hasIncomingMonitors(id) ==
    \E e \in linksOf(id) : e.type = "monitors" /\ e.direction = "incoming"

(* The keys of kvs that may be offered and are not known yet. *)
offered(kvs, allowed, seen) ==
    {[key |-> k, value |-> kvs[k]] : k \in (DOMAIN kvs \cap (joinKeys \cup allowed)) \ {s.key : s \in seen}}

collectedKeys(e, allowed, seen) ==
    LET own == seen \cup offered(e.identity, allowed, seen)
    IN  own \cup offered(e.attributes, allowed, own)

(* telemetryKeys: the conditional keys and the entity's own, then the edges, then    *)
(* one owner after another.                                                        *)
AskKeys ==
    /\ inquiry.stage = "keys"
    /\ LET allowed == IF hasIncomingMonitors(inquiry.of) THEN {"service.endpoint"} ELSE {}
       IN  inquiry' = [stage |-> "edges", ask |-> "keys", of |-> inquiry.of, allowed |-> allowed,
                       keys |-> collectedKeys(entityOf(inquiry.of), allowed, {})]
    /\ UNCHANGED <<there, linked, moves, moments>>

AskEdges ==
    /\ inquiry.stage = "edges"
    /\ inquiry' = [stage |-> "owners", ask |-> "keys", of |-> inquiry.of, allowed |-> inquiry.allowed,
                   keys |-> inquiry.keys,
                   owners |-> {e \in linksOf(inquiry.of) : ownerDirection(e.type) = e.direction}]
    /\ UNCHANGED <<there, linked, moves, moments>>

(* Mutant: the owner's keys are taken whether or not it is still there. *)
ownerFoundDeleted(id) == TRUE

ownerFound(id) == id \in there

AskOwner ==
    /\ inquiry.stage = "owners"
    /\ IF inquiry.owners = {}
       THEN inquiry' = [stage |-> "answered", ask |-> "keys", of |-> inquiry.of, keys |-> inquiry.keys]
       ELSE \E o \in inquiry.owners :
              inquiry' = [inquiry EXCEPT
                            !.owners = @ \ {o},
                            !.keys = IF ownerFound(o.other)
                                     THEN collectedKeys(entityOf(o.other), inquiry.allowed, @) ELSE @]
    /\ UNCHANGED <<there, linked, moves, moments>>

-----------------------------------------------------------------------------
(* describeType: edges first, since a name is a relation type if any edge has it. *)
isRegisteredRelation(t) == t \in {"runs_on", "depends_on", "monitors"}
IsKnownEntityType(t) == t \in {"host", "service.listener", "network.device"}

AskType ==
    /\ inquiry.stage = "type"
    /\ LET rels == {l \in linked : l.type = inquiry.of}
       IN  inquiry' = IF rels # {} \/ isRegisteredRelation(inquiry.of)
                      THEN [stage |-> "ends", ask |-> "relation", of |-> inquiry.of, rels |-> rels]
                      ELSE [stage |-> "entities", ask |-> "entity", of |-> inquiry.of]
    /\ UNCHANGED <<there, linked, moves, moments>>

(* describeEntityType: the entities, of which a sample shows the keys in use. *)
sortedUsage(sample, part) ==
    [k \in UNION {DOMAIN e[part] : e \in sample} |-> Cardinality({e \in sample : k \in DOMAIN e[part]})]

AskEntities ==
    /\ inquiry.stage = "entities"
    /\ LET ents == ofType(inquiry.of)
       IN  IF ents = {} /\ ~IsKnownEntityType(inquiry.of)
           THEN inquiry' = [stage |-> "answered", ask |-> "unknown type", of |-> inquiry.of]
           ELSE \E sample \in kSubset(Min({KeySample, Cardinality(ents)}), ents) :
                  inquiry' = [stage |-> "relations", ask |-> "entity", of |-> inquiry.of,
                              ids |-> {e.id : e \in ents},
                              identityKeys |-> sortedUsage(sample, "identity"),
                              attributeKeys |-> sortedUsage(sample, "attributes")]
    /\ UNCHANGED <<there, linked, moves, moments>>

typeOf(id) == entityOf(id).type

participation(ids, rels) ==
    {[rel |-> l.type, dir |-> "outgoing", peer |-> typeOf(l.to), edge |-> l]
        : l \in {k \in rels : k.from \in ids}}
    \cup {[rel |-> l.type, dir |-> "incoming", peer |-> typeOf(l.from), edge |-> l]
        : l \in {k \in rels : k.to \in ids}}

counted(parts) ==
    [p \in {[rel |-> q.rel, dir |-> q.dir, peer |-> q.peer] : q \in parts} |->
        Cardinality({q \in parts : q.rel = p.rel /\ q.dir = p.dir /\ q.peer = p.peer})]

AskRelations ==
    /\ inquiry.stage = "relations"
    /\ inquiry' = [stage |-> "answered", ask |-> "entity", of |-> inquiry.of,
                   count |-> Cardinality(inquiry.ids),
                   identityKeys |-> inquiry.identityKeys, attributeKeys |-> inquiry.attributeKeys,
                   shape |-> counted(participation(inquiry.ids, linked))]
    /\ UNCHANGED <<there, linked, moves, moments>>

(* describeRelationType: the types at the ends of its edges. *)
AskEnds ==
    /\ inquiry.stage = "ends"
    /\ LET pair(l) == <<typeOf(l.from), typeOf(l.to)>>
       IN  inquiry' = [stage |-> "answered", ask |-> "relation", of |-> inquiry.of,
                       count |-> Cardinality(inquiry.rels),
                       shape |-> [p \in {pair(l) : l \in inquiry.rels} |->
                                    Cardinality({l \in inquiry.rels : pair(l) = p})]]
    /\ UNCHANGED <<there, linked, moves, moments>>

(* describeSchema: the entities by type, then the edges, then the totals. *)
CountByType == [t \in {e.type : e \in ofType("")} |-> Cardinality(ofType(t))]
relationCounts == [t \in {l.type : l \in linked} |-> Cardinality({l \in linked : l.type = t})]

AskSchema ==
    /\ inquiry.stage = "schema"
    /\ inquiry' = [stage |-> "edge types", entityTypes |-> CountByType]
    /\ UNCHANGED <<there, linked, moves, moments>>

AskEdgeTypes ==
    /\ inquiry.stage = "edge types"
    /\ inquiry' = [stage |-> "totals", entityTypes |-> inquiry.entityTypes, relationTypes |-> relationCounts]
    /\ UNCHANGED <<there, linked, moves, moments>>

AskTotals ==
    /\ inquiry.stage = "totals"
    /\ inquiry' = [stage |-> "answered", ask |-> "schema", entityTypes |-> inquiry.entityTypes,
                   relationTypes |-> inquiry.relationTypes,
                   entities |-> Cardinality(there), relations |-> Cardinality(linked)]
    /\ UNCHANGED <<there, linked, moves, moments>>

-----------------------------------------------------------------------------
(* findEntities with a filter; an empty answer looks again, key after key, for what   *)
(* to say of it.                                                                   *)
hasKey(e, k) == k \in DOMAIN e.identity \cup DOMAIN e.attributes
carriesValue(e, k, v) ==
    \/ k \in DOMAIN e.identity /\ e.identity[k] = v
    \/ k \in DOMAIN e.attributes /\ e.attributes[k] = v

AskFind ==
    /\ inquiry.stage = "find"
    /\ LET found == {e \in ofType(inquiry.type) :
                        \A k \in DOMAIN inquiry.match : carriesValue(e, k, inquiry.match[k])}
       IN  inquiry' = IF found # {} THEN [stage |-> "answered", ask |-> "found"]
                      ELSE [stage |-> "carriers", type |-> inquiry.type, match |-> inquiry.match, why |-> {}]
    /\ UNCHANGED <<there, linked, moves, moments>>

typesCarryingKey(k) == {e.type : e \in {f \in ofType("") : hasKey(f, k)}}

noMatchReason(type, k) ==
    CASE typesCarryingKey(k) = {} -> "carried by none"
      [] type # "" /\ typesCarryingKey(k) = {type} -> "value not present"
      [] OTHER -> "carried elsewhere"

AskCarriers ==
    /\ inquiry.stage = "carriers"
    /\ LET left == DOMAIN inquiry.match \ {w[1] : w \in inquiry.why}
       IN  IF left = {}
           THEN inquiry' = [stage |-> "answered", ask |-> "unmatched", type |-> inquiry.type,
                            match |-> inquiry.match, why |-> inquiry.why]
           ELSE \E k \in left : inquiry' = [inquiry EXCEPT !.why = @ \cup {<<k, noMatchReason(inquiry.type, k)>>}]
    /\ UNCHANGED <<there, linked, moves, moments>>

-----------------------------------------------------------------------------
(* Collect: entities by type, then one snapshot of the devices for every check of     *)
(* them.  The largest types have a series each, the others share one.                  *)
emitByType(counts) ==
    LET own == CHOOSE top \in kSubset(Min({TypeSeries, Cardinality(DOMAIN counts)}), DOMAIN counts) :
                 \A t \in top, u \in DOMAIN counts \ top : counts[u] <= counts[t]
    IN  [types |-> [t \in own |-> counts[t]],
         other |-> FoldFunctionOnSet(+, 0, counts, DOMAIN counts \ own)]

AskGauges ==
    /\ inquiry.stage = "gauges"
    /\ inquiry' = [stage |-> "fleet", byType |-> emitByType(CountByType)]
    /\ UNCHANGED <<there, linked, moves, moments>>

findAttr(e, k) == IF k \in DOMAIN e.attributes THEN e.attributes[k]
                  ELSE IF k \in DOMAIN e.identity THEN e.identity[k] ELSE "absent"

(* A text stands for its class: "s1,s2" is a list of serials, "tiny" is shorter than    *)
(* a serial, and "Acme" is "acme" once normalized.                                   *)
extractSerials(e) ==
    CASE findAttr(e, "serials") = "s1,s2" -> {"s1", "s2"}
      [] findAttr(e, "serials") \in {"tiny", "absent"} -> {}
      [] OTHER -> {findAttr(e, "serials")}

normalizeVendor(v) == IF v = "Acme" THEN "acme" ELSE v
isNormativeVendor(v) == v = normalizeVendor(v)
getVendor(e) == findAttr(e, "hw.vendor")

vendorDisqualifies(group) ==
    \E e, f \in group : /\ "absent" \notin {getVendor(e), getVendor(f)}
                        /\ normalizeVendor(getVendor(e)) # normalizeVendor(getVendor(f))

SerialOverlap(devices) ==
    LET group(s) == {e \in devices : s \in extractSerials(e)}
    IN  [population |-> Cardinality({e \in devices : extractSerials(e) # {}}),
         overlaps |-> Cardinality({s \in UNION {extractSerials(e) : e \in devices} :
                                     Cardinality(group(s)) >= 2 /\ ~vendorDisqualifies(group(s))})]

VendorNonNormative(devices) ==
    LET named == {e \in devices : getVendor(e) # "absent"}
    IN  [population |-> Cardinality(named),
         nonNormative |-> Cardinality({e \in named : ~isNormativeVendor(getVendor(e))})]

RetiredVendorKey(devices) == Cardinality({e \in devices : findAttr(e, "vendor") # "absent"})

AskFleet ==
    /\ inquiry.stage = "fleet"
    /\ LET devices == ofType("network.device")
       IN  inquiry' = [stage |-> "answered", ask |-> "fleet", byType |-> inquiry.byType,
                       serials |-> SerialOverlap(devices), vendors |-> VendorNonNormative(devices),
                       retired |-> RetiredVendorKey(devices)]
    /\ UNCHANGED <<there, linked, moves, moments>>

-----------------------------------------------------------------------------
(* A question about an entity is about one the graph knows, live or deleted. *)
Inquire ==
    /\ inquiry = idle
    /\ \E q \in Inquiries : inquiry' = q
    /\ moments' = {<<there, linked>>}
    /\ UNCHANGED <<there, linked, moves>>

SurveyNext ==
    \/ EntityComes \/ EntityGoes \/ EdgeComes \/ EdgeGoes
    \/ Inquire
    \/ AskKeys \/ AskEdges \/ AskOwner
    \/ AskType \/ AskEntities \/ AskRelations \/ AskEnds
    \/ AskSchema \/ AskEdgeTypes \/ AskTotals
    \/ AskFind \/ AskCarriers
    \/ AskGauges \/ AskFleet

SurveySpec == SurveyInit /\ [][SurveyNext]_surveyVars

-----------------------------------------------------------------------------
(* Variables hold known things and the bound is kept. *)
SurveyTypeOK ==
    /\ there \subseteq {e.id : e \in Census}
    /\ linked \subseteq Links
    /\ moves \in 0..MaxMoves
    /\ inquiry # idle => moments # {}

answeredTo(what) == inquiry.stage = "answered" /\ inquiry.ask = what

owns(other, id, links) ==
    \E l \in links : \/ l.type \in {"runs_on", "bound_to", "listens_on"} /\ l.from = id /\ l.to = other
                     \/ l.type \in {"has_interface", "has_route"} /\ l.to = id /\ l.from = other

(* Keys offered for an entity's telemetry find that entity's (telemetryKeys): each     *)
(* is its own value when it has one, else that of something which owned it and was     *)
(* live at a moment of the reading, never a watcher's or a peer's; and the endpoint     *)
(* key only of something monitored then.                                              *)
KeysAreTheSubjects ==
    answeredTo("keys") =>
        LET e == entityOf(inquiry.of)
        IN  /\ \A k \in inquiry.keys :
                 IF hasKey(e, k.key) THEN carriesValue(e, k.key, k.value)
                 ELSE \E other \in Census :
                        /\ carriesValue(other, k.key, k.value)
                        /\ \E m \in moments : owns(other.id, e.id, m[2])
                        /\ \E m \in moments : other.id \in m[1]
            /\ \A k \in inquiry.keys : k.key = "service.endpoint" =>
                 \E m \in moments : \E l \in m[2] : l.type = "monitors" /\ l.to = e.id
            /\ \A k, j \in inquiry.keys : k.key = j.key => k = j

(* A description of a type counts, of a graph that stood still, the edges between its   *)
(* entities and each type in each direction, and those of a relation type by the types   *)
(* they join (describeEntityType, describeRelationType): the two views add up.            *)
DescriptionsAddUp ==
    Cardinality(moments) = 1 /\ inquiry.stage = "answered" /\ inquiry.ask \in {"entity", "relation"} =>
        IF inquiry.ask = "entity"
        THEN \A p \in DOMAIN inquiry.shape :
               inquiry.shape[p] = Cardinality({l \in linked :
                    /\ l.type = p.rel
                    /\ \E e \in ofType(inquiry.of) : e.id = IF p.dir = "outgoing" THEN l.from ELSE l.to
                    /\ typeOf(IF p.dir = "outgoing" THEN l.to ELSE l.from) = p.peer})
             /\ \A l \in linked : \A e \in ofType(inquiry.of) :
                  /\ e.id = l.from => [rel |-> l.type, dir |-> "outgoing", peer |-> typeOf(l.to)] \in DOMAIN inquiry.shape
                  /\ e.id = l.to => [rel |-> l.type, dir |-> "incoming", peer |-> typeOf(l.from)] \in DOMAIN inquiry.shape
        ELSE \A p \in DOMAIN inquiry.shape :
               inquiry.shape[p] = Cardinality({l \in linked : l.type = inquiry.of
                                                  /\ typeOf(l.from) = p[1] /\ typeOf(l.to) = p[2]})

(* A reader told that a key is right and its value not present can rely on it: in a      *)
(* graph that stood still no entity of the type has the value (noMatchReason).            *)
NoMatchTrue ==
    answeredTo("unmatched") /\ Cardinality(moments) = 1 =>
        \A w \in inquiry.why : w[2] = "value not present" =>
            \A e \in ofType(inquiry.type) : ~carriesValue(e, w[1], inquiry.match[w[1]])

(* Two live devices that carry one serial and not two vendors are counted (SerialOverlap). *)
OverlapsFound ==
    answeredTo("fleet") /\ Cardinality(moments) = 1 =>
        ((\E e, f \in ofType("network.device") :
            /\ e # f /\ extractSerials(e) \cap extractSerials(f) # {}
            /\ ~vendorDisqualifies({e, f})) => inquiry.serials.overlaps > 0)

(* A survey of the graph holds of it: the keys offered are the subject's, and the  *)
(* counts of the two directions add up (find_entities, describe_schema).          *)
SurveysTrue ==
    KeysAreTheSubjects /\ DescriptionsAddUp
=============================================================================
