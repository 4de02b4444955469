----------------------------- MODULE MCSurfaces -----------------------------
(* The surfaces of the system, for TLC: what comes in (configuration, access,   *)
(* tenants, the wire), what the engine keeps beside the graph (aliases,         *)
(* the memento) and what readers are told (index, traversal, paging, windows,   *)
(* provenance, endpoints, survey, the codec).                                   *)
(*                                                                              *)
(* As in MCServices, a behaviour is about one of them, chosen at the start; the *)
(* others stay in an initial state of theirs.                                   *)
EXTENDS Registry, Memento, Configuration, Access, LogIndex, Aliases, Wire,
        Traversal, Paging, Windows, Codec, Provenance, Endpoints, Survey, TLC

VARIABLE part

one(S) == CHOOSE x \in S : TRUE

SurfacesInit ==
    /\ part \in {"registry", "memento", "config", "access",
                 "index", "aliases", "wire", "traversal", "paging",
                 "windows", "codec", "provenance", "endpoints", "survey"}
    /\ IF part = "registry" THEN RegistryInit
       ELSE RegistryInit /\ limits = one(RegistryLimits) /\ dirs = {}
    /\ IF part = "memento" THEN MementoInit
       ELSE MementoInit /\ thing = "entity" /\ format = "none"
    /\ IF part = "config" THEN ConfigInit
       ELSE /\ layers = [file |-> << >>, env |-> << >>, flags |-> << >>]
            /\ loading = "file" /\ config = << >> /\ jobs = {}
    /\ IF part = "access" THEN AccessInit
       ELSE /\ policy = one(Policies) /\ admission = arrivedRequest /\ opened = {} /\ effects = {}
            /\ request = [path |-> "/healthz", bearer |-> noBearer, header |-> "", resources |-> <<>>]
    /\ IndexInit
    /\ IF part = "aliases" THEN AliasInit
       ELSE /\ live = {} /\ speakers = <<>> /\ byAlias = <<>> /\ edgeRefs = <<>> /\ waiting = <<>>
            /\ hashes = {} /\ fate = [o \in Relations |-> "unsent"] /\ said = <<>> /\ disputed = {}
    /\ IF part = "wire" THEN WireInit ELSE WireInit /\ vocab = FALSE
    /\ IF part = "traversal" THEN TraversalInit
       ELSE /\ held = << >> /\ rels = {}
            /\ question = nothing /\ walk = nothing /\ answer = nothing
    /\ IF part = "paging" THEN PagingInit
       ELSE /\ pagedRead = one(Reads) /\ present = {} /\ distance = << >>
            /\ collected = <<>> /\ cursor = <<>> /\ page = noPage /\ stayed = {} /\ changes = 0
    /\ WindowsInit
    /\ IF part = "codec" THEN CodecInit
       ELSE /\ case = [kind |-> "event", of |-> [entity |-> <<>>, relation |-> <<>>]]
            /\ encoded = <<>> /\ caseOutcome = "none"
    /\ ProvenanceInit
    /\ IF part = "endpoints" THEN EndpointsInit ELSE EndpointsInit /\ up = {}
    /\ IF part = "survey" THEN SurveyInit
       ELSE there = {} /\ linked = {} /\ moves = 0 /\ inquiry = idle /\ moments = {}

SurfacesNext ==
    /\ UNCHANGED part
    /\ IF part = "registry" THEN RegistryNext ELSE UNCHANGED registryVars
    /\ IF part = "memento" THEN MementoNext ELSE UNCHANGED mementoVars
    /\ IF part = "config" THEN ConfigNext ELSE UNCHANGED configVars
    /\ IF part = "access" THEN AccessNext ELSE UNCHANGED accessVars
    /\ IF part = "index" THEN IndexNext ELSE UNCHANGED indexVars
    /\ IF part = "aliases" THEN AliasNext ELSE UNCHANGED aliasVars
    /\ IF part = "wire" THEN WireNext ELSE UNCHANGED wireVars
    /\ IF part = "traversal" THEN TraversalNext ELSE UNCHANGED traversalVars
    /\ IF part = "paging" THEN PagingNext ELSE UNCHANGED pagingVars
    /\ IF part = "windows" THEN WindowsNext ELSE UNCHANGED windowVars
    /\ IF part = "codec" THEN CodecNext ELSE UNCHANGED codecVars
    /\ IF part = "provenance" THEN ProvenanceNext ELSE UNCHANGED provenanceVars
    /\ IF part = "endpoints" THEN EndpointsNext ELSE UNCHANGED endpointVars
    /\ IF part = "survey" THEN SurveyNext ELSE UNCHANGED surveyVars

SurfacesSpec ==
    SurfacesInit /\ [][SurfacesNext]_<<part, registryVars, mementoVars, configVars, accessVars,
        indexVars, aliasVars, wireVars, traversalVars, pagingVars,
        windowVars, codecVars, provenanceVars, endpointVars, surveyVars>>

-----------------------------------------------------------------------------
(* Registry and Memento. *)
registryLimits == [AutoCreate : BOOLEAN, Allowlist : {{}, {"a"}}, MaxTenants : {0, 2}]

mementoSpeakers == {<<"p", "">>, <<"p", "m">>}
mementoDeployments == [format : {"none", "undeclared"}, stops : {{"graceful"}}]
                      \cup [format : {"speakers"}, stops : {{"graceful", "crash"}}]
                      \cup [format : {"producers"}, stops : {{}}]
(* An older file read and written back; a crash. *)
legacyMemento == [format : {"producers"}, stops : {{"graceful"}}]
crashedMemento == [format : {"none"}, stops : {{"crash"}}]

-----------------------------------------------------------------------------
(* Configuration: settings that constrain each other, a family at a time. *)
settingFamilies ==
    {{"TLSCertFile", "TLSKeyFile", "TLSClientCAFile", "IngestMTLSOnly", "ReadTokens"},
     {"RetentionMaxAge", "CompactionInterval", "TenantRetentionMaxAge"},
     {"BackupDir", "BackupInterval"},
     {"LogShipDir", "LogShipInterval", "LogShipS3Bucket", "LogShipS3Endpoint"},
     {"Production", "DebugUI", "AllowUnauthenticatedWrites", "ListenExposed"}}

(* Access: every kind of tenant attribute. *)
exportTenants == {<<"", "a">>, <<"a", "invalid">>}

(* LogIndex: changes and a heartbeat at two times, and a relation. *)
change(e, ct, t) == [touches |-> {e}, ct |-> ct, time |-> t, structural |-> FALSE]
indexEvents == {change("e1", "updated", 1), change("e1", "unchanged", 2), change("e2", "updated", 2),
                [touches |-> {"e1", "e2"}, ct |-> "added", time |-> 1, structural |-> TRUE]}
indexReads ==
    [by : {"entity"}, of : {"e1"}] \cup [by : {"type"}, of : {"unchanged"}]
    \cup [by : {"time"}, from : {1}, until : {2}, newestFirst : {FALSE}, noHeartbeats : {FALSE}]
    \cup [by : {"time"}, from : {1}, until : {3}, newestFirst : {TRUE}, noHeartbeats : {TRUE}]

(* Aliases *)
name(n) == [name |-> <<"string", n>>]
identities == {name("x"), name("y"), name("z"), name("a")}
belief(t, f, g, c, s, i, j) == [type |-> t, from |-> f, to |-> g, confidence |-> c, speaker |-> s,
                                interval |-> i, sourceInterval |-> j]
relations == {belief("same_as", name("x"), name("a"), "strong", "p", 1, 0),
              belief("same_as", name("y"), name("a"), "strong", "q", 0, 0),
              belief("link", name("z"), name("a"), "unreadable", "q", 1, 0)}
-----------------------------------------------------------------------------
(* Wire: records written by hand, and what a program hands the SDK. *)
S(x) == Str(x)
I(n) == [t |-> "int", n |-> n]
D(p) == [t |-> "double", pct |-> p, nan |-> FALSE]
M(kvs) == [t |-> "map", kvs |-> kvs]
L(es) == [t |-> "slice", elems |-> es]
wireBytes == [t |-> "bytes"]
wireBase == [name |-> "entity.state", typ |-> S("host"), id |-> M(<<<<"host.id", S("h")>>>>), desc |-> Absent,
         interval |-> I(1), reason |-> Absent, rels |-> Absent, instance |-> S("p")]
wireDesc(type, to, id, bel) == M(<<<<"relationship.type", type>>, <<"entity.type", to>>, <<"entity.id", id>>>> \o bel)
wireTarget == M(<<<<"host.id", S("h2")>>>>)
confidences == {<<>>} \cup {<<<<"confidence", c>>>> : c \in {S("x"), I(0), I(1), I(2), D(-1), D(50), D(100), D(101)}}
bases == {<<>>, <<<<"basis", S("")>>>>, <<<<"basis", S("rekey")>>>>, <<<<"basis", I(1)>>>>}
beliefs == {c \o b : c \in confidences, b \in bases}
wireTypes == {Absent, I(1), S(""), S("host"), S("own")}
wireIds == {Absent, S("h"), M(<<>>), M(<<<<"host.id", S("4f2a")>>>>), M(<<<<"host.id", S("4F2A-")>>>>),
        M(<<<<"", S("h")>>>>), M(<<<<"k", wireBytes>>>>), M(<<<<"host.id", S("h")>>, <<"k", L(<<I(1)>>)>>>>),
        M(<<<<"interface.name", S("e")>>>>), M(<<<<"mac", S("aa:bb")>>>>),
        M(<<<<"network.device.id", S("mac:aa:bb")>>>>), M(<<<<"network.device.id", S("mac:AA-BB")>>>>)}
wireDescs == {S("x"), M(<<>>), M(<<<<"", S("v")>>>>), M(<<<<"k", wireBytes>>>>), M(<<<<"k", L(<<I(1), wireBytes>>)>>>>),
          M(<<<<"k", M(<<<<"", I(1)>>>>)>>>>), M(<<<<"k", M(<<<<"a", wireBytes>>>>)>>>>),
          M(<<<<"k", M(<<<<"a", L(<<D(5)>>)>>>>)>>>>), M(<<<<"oper_state", S("up")>>>>),
          M(<<<<"oper_state", S("UP")>>>>), M(<<<<"oper_state", I(1)>>>>), M(<<<<"oper_state", S("")>>>>),
          M(<<<<"host.virtualization", S("zvm")>>>>), M(<<<<"mac", S("aa:bb")>>>>)}
intervals == {Absent, S("300"), I(-1), I(0), I(1), I(3), I(4), I(5)}
wideIntervals == {I(8), I(15), I(16), I(17)}
wireRels == {S("x"), L(<<S("x")>>)}
        \cup {L(<<wireDesc(t, y, i, <<>>)>>) : t \in {Absent, S(""), S("runs_on"), S("own")},
                y \in {Absent, S(""), S("host")}, i \in {Absent, M(<<>>), M(<<<<"k", wireBytes>>>>), wireTarget}}
        \cup {L(<<wireDesc(S(t), S("host"), wireTarget, b)>>) : t \in {"same_as", "resolves_to", "runs_on"}, b \in beliefs}
        \cup {L(<<S("x"), wireDesc(S("same_as"), S("host"), wireTarget, <<>>), wireDesc(S("own"), S("host"), wireTarget, <<>>)>>)}
handmade == {[wireBase EXCEPT !.typ = t] : t \in wireTypes} \cup {[wireBase EXCEPT !.id = i] : i \in wireIds}
            \cup {[wireBase EXCEPT !.desc = d] : d \in wireDescs} \cup {[wireBase EXCEPT !.interval = i] : i \in intervals}
            \cup {[wireBase EXCEPT !.rels = r, !.name = n] : r \in wireRels, n \in {"entity.state", "entity.delete"}}
            \cup {[wireBase EXCEPT !.name = "other"], [wireBase EXCEPT !.instance = Absent]}
            \cup {[wireBase EXCEPT !.name = "entity.delete", !.reason = r] : r \in {S("gone"), I(1)}}
handmadewide == {[wireBase EXCEPT !.interval = i] : i \in wideIntervals}
handmadedup == {[wireBase EXCEPT !.id = M(<<<<"host.id", S("h")>>, <<"host.id", S("h")>>>>)]}
handmadenan == {[wireBase EXCEPT !.rels = L(<<wireDesc(S("same_as"), S("host"), wireTarget,
                    <<<<"confidence", [t |-> "double", pct |-> 0, nan |-> TRUE]>>>>)>>)]}

wireEnt == [type |-> "host", id |-> {<<"host.id", "h">>}, attrs |-> {}, rich |-> {}, interval |-> 0,
        rels |-> <<>>, reason |-> "", instance |-> "p"]
wireRel(t, c, b) == [type |-> t, targetType |-> "host", targetID |-> {<<"host.id", "h2">>},
                 confidence |-> c, nan |-> FALSE, basis |-> b]
riches == {[g |-> "uint", n |-> 3], [g |-> "int", n |-> -3], [g |-> "uint64", n |-> 1], [g |-> "string", s |-> "v"],
           [g |-> "float64", pct |-> 7], [g |-> "slice", elems |-> <<[g |-> "int", n |-> 1], [g |-> "string", s |-> ""]>>],
           [g |-> "slice", elems |-> <<[g |-> "uint64", n |-> 1]>>],
           [g |-> "map", kvs |-> {<<"a", [g |-> "int", n |-> 1]>>, <<"b", [g |-> "map", kvs |-> {}]>>}],
           [g |-> "map", kvs |-> {<<"", [g |-> "int", n |-> 1]>>}]}
variants == {[wireEnt EXCEPT !.type = t] : t \in {"", "own"}} \cup {[wireEnt EXCEPT !.id = i] : i \in {{}, {<<"", "h">>}}}
            \cup {[wireEnt EXCEPT !.attrs = {<<"k", "v">>}], [wireEnt EXCEPT !.instance = ""], [wireEnt EXCEPT !.reason = "gone"]}
            \cup {[wireEnt EXCEPT !.interval = i] : i \in {1, 4, 6, 12, 13, 20, 31}}
            \cup {[wireEnt EXCEPT !.rich = {<<k, r>>}, !.attrs = {<<"k", "v">>}] : k \in {"k", "r"}, r \in riches}
            \cup {[wireEnt EXCEPT !.rels = <<wireRel(t, c, b), wireRel("runs_on", 0, "")>>] :
                     t \in {"", "same_as", "resolves_to"}, c \in {-1, 0, 50, 100, 101}, b \in {"", "rekey"}}
            \cup {[wireEnt EXCEPT !.rels = <<[wireRel("same_as", 0, "") EXCEPT !.nan = TRUE]>>]}
natives == {<<ev, e>> : ev \in {"entity.state", "entity.delete", "entity.gone"}, e \in variants}
nativesbig == {<<"entity.state", [wireEnt EXCEPT !.rich = {<<"r", [g |-> "uint", n |-> 40]>>}]>>}

-----------------------------------------------------------------------------
(* Traversal *)
thingTypes == ("h" :> "host") @@ ("k" :> "host") @@ ("i" :> "network.interface")
           @@ ("j" :> "network.interface") @@ ("e" :> "network.endpoint")
edge(n, ty, a, b) == [id |-> n, type |-> ty, from |-> a, to |-> b, confidence |-> -1]
sameAs(n, a, b, c) == [id |-> n, type |-> "same_as", from |-> a, to |-> b, confidence |-> c]
edges == {edge(1, "has_interface", "h", "i"), edge(2, "has_interface", "k", "j"),
          edge(3, "aggregated_into", "i", "j"), edge(4, "depends_on", "h", "e"),
          edge(5, "depends_on", "k", "e"), sameAs(6, "h", "k", 9), sameAs(7, "i", "h", -1), sameAs(8, "k", "i", 10)}
(* A hub two hops away that is also reachable in one. *)
hubTypes == ("h" :> "host") @@ ("i" :> "network.interface") @@ ("j" :> "network.interface")
         @@ ("m" :> "network.interface")
hubEdges == {edge(1, "has_interface", "h", "i"), edge(2, "has_interface", "h", "j"),
             edge(3, "aggregated_into", "i", "j"), edge(4, "aggregated_into", "m", "j")}

(* Paging *)
pagedReadOf(s, f, c) == [surface |-> s, first |-> f, churn |-> c]
pagedReads == {pagedReadOf(s, f, {"arrive", "leave"}) : s \in {"find"}, f \in {0, 2, 9}}
    \cup {pagedReadOf("match", 1, {"arrive", "leave"}), pagedReadOf("neighbors", 2, {"arrive", "leave", "move"}),
          pagedReadOf("entities", 2, {"arrive"}), pagedReadOf("history", 2, {"arrive"}),
          pagedReadOf("recent", 2, {"arrive"}), pagedReadOf("entities", 9, {})}
(* An entity leaves between two pages of a connection; the pages of a feed. *)
leavingReads == {pagedReadOf("entities", 2, {"leave"})}
feedReads == {pagedReadOf("recent", 2, {})}

(* Windows *)
diff(w, a, b) == [tool |-> "diff", window |-> w, from |-> a, to |-> b]
feed(t, w, a, b, k, ty, sc, m, h, l) ==
    [tool |-> t, window |-> w, from |-> a, to |-> b, known |-> none, kind |-> k, type |-> ty,
     scope |-> sc, match |-> m, heartbeats |-> h, limit |-> l]
hist(a, b, kn, ty, h, l) == [tool |-> "history", from |-> a, to |-> b, known |-> kn, type |-> ty,
                             heartbeats |-> h, limit |-> l]
windowQuestions ==
    {diff(none, 2, 4), diff(2, none, none), diff(none, 1, none), diff(none, 1, 4), diff(2, 1, none),
     feed("recent", none, none, none, "all", "", "", {}, FALSE, 1),
     feed("recent", none, 3, 4, "all", "", "s", {}, TRUE, 2),
     feed("recent", 2, none, none, "entity", "", "", {1}, FALSE, 2),
     feed("recent", none, 1, none, "structural", "", "", {}, FALSE, 2),
     feed("recent", none, 2, 5, "relation", "relation.added", "", {}, FALSE, 1),
     feed("recentChanges", none, 3, 4, "all", "", "", {}, FALSE, 2),
     feed("recentChanges", 1, none, none, "all", "", "s", {1}, TRUE, 2),
     feed("recentChanges", none, none, 3, "all", "", "s", {1}, TRUE, 2),
     [hist(3, 4, none, "", FALSE, 1) EXCEPT !.tool = "entityHistory"],
     hist(none, 4, none, "", FALSE, 2), hist(3, none, 4, "", TRUE, 1),
     hist(2, none, none, "entity.deleted", FALSE, 2)}
(* Windows that begin before the epoch. *)
earlyQuestions == {feed("recent", 9, none, none, "all", "", "", {}, FALSE, 2),
                   feed("recentChanges", none, -1, none, "all", "", "", {}, FALSE, 2)}

-----------------------------------------------------------------------------
(* Codec: values whose texts could run together, and identities of them. *)
keyRank == ("" :> 0) @@ ("k" :> 1) @@ ("1" :> 2) @@ ("l" :> 3)
strValue(s) == [kind |-> "string", s |-> s]
intValue(n) == [kind |-> "int", i |-> n]
arrValue(s) == [kind |-> "array", arr |-> s]
kvlValue(s) == [kind |-> "kvlist", kvl |-> s]
kv(k, v) == [key |-> k, value |-> v]
double == [kind |-> "double", f |-> 1]
noKind == [kind |-> "invalid"]
scalarValues ==
    {strValue(s) : s \in {<<>>, <<"1">>, <<":">>, <<"1", ":">>, <<"s", ":">>, <<"1", ":", "1">>, <<":", "s", ":">>}}
    \cup {intValue(1), intValue(12), double, [kind |-> "bool", b |-> TRUE], noKind}
fewValues == {strValue(<<>>), strValue(<<"1">>), strValue(<<":", "s", ":">>), intValue(1)}
bothWays(v, w) == {<<kv("k", v), kv("1", w)>>, <<kv("1", w), kv("k", v)>>}
keyed == UNION {bothWays(v, w) : v \in fewValues, w \in fewValues}
arrayValues == {arrValue(<<>>)} \cup {arrValue(<<v>>) : v \in scalarValues}
          \cup {arrValue(<<v, w>>) : v \in fewValues, w \in fewValues}
          \cup {arrValue(<<arrValue(<<v>>)>>) : v \in fewValues}
          \cup {arrValue(<<arrValue(<<>>)>>), arrValue(<<kvlValue(<<kv("k", intValue(1))>>)>>)}
keyLists == {kvlValue(<<>>)} \cup {kvlValue(<<kv("k", v)>>) : v \in fewValues \cup {arrValue(<<intValue(1)>>)}}
         \cup {kvlValue(s) : s \in keyed}
valuePairs == (scalarValues \X scalarValues) \cup (arrayValues \X arrayValues) \cup (keyLists \X keyLists)

entityOfType(t, i, a) == [id |-> "id1", type |-> t, identity |-> i, attributes |-> a]
codecEntities == {entityOfType(t, i, <<>>) : t \in {"host", "new"}, i \in {<<kv("k", v)>> : v \in scalarValues} \cup keyed}
entityPairs == {p \in codecEntities \X codecEntities : p[1].type = "host"}

codecEvent(c, a, at, rec, ver, src) ==
    [change |-> c, about |-> a, at |-> at, recorded |-> rec, commit |-> 7, scope |-> "s",
     version |-> ver, keys |-> <<"k">>, source |-> src]
soundEntity == entityOfType("host", <<kv("k", strValue(<<"1">>))>>,
                            <<kv("1", arrValue(<<kvlValue(<<kv("k", intValue(1))>>), double>>)), kv("k", double)>>)
codecSubjects ==
    {soundEntity} \cup {[soundEntity EXCEPT !.type = t] : t \in {"", "new"}}
    \cup {[soundEntity EXCEPT !.identity = i] : i \in {<<>>, <<kv("k", noKind)>>}}
    \cup {[soundEntity EXCEPT !.attributes = a] :
            a \in {<<kv("", intValue(1))>>, <<kv("k", double), kv("k", double)>>, <<kv("k", arrValue(<<noKind>>))>>}}
codecRelations == {NewRelation(t, f, "id2", <<kv("k", intValue(1))>>) : t \in {"runs_on", "x", ""}, f \in {"id1", ""}}
sources == DeleteSources \cup {"unknown"}
envelopesAt(T) ==
    {[entity |-> <<codecEvent(c, a, at, r, v, s)>>, relation |-> <<>>] :
        c \in {"created", "deleted", "added", "unspecified"}, a \in codecSubjects, at \in T,
        r \in {1, unset}, v \in {"1.1", ""}, s \in sources}
    \cup {[entity |-> <<>>, relation |-> <<codecEvent(c, a, at, r, "1.1", s)>>] :
        c \in {"added", "removed", "created", "unspecified"}, a \in codecRelations, at \in T,
        r \in {1, unset}, s \in sources}
    \cup {[entity |-> <<>>, relation |-> <<>>],
          [entity |-> <<codecEvent("created", soundEntity, 1, 1, "1.1", "unknown")>>,
           relation |-> <<codecEvent("added", NewRelation("runs_on", "id1", "id2", <<>>), 1, 1, "1.1", "unknown")>>]}
envelopes == envelopesAt({1, unset})
epochEnvelopes == envelopesAt({0})

keptUnder(i, n) == [entityOfType("host", i, <<>>) EXCEPT !.id = n]
codecKept == {<<kv("k", v)>> : v \in fewValues} \cup {<<kv("k", strValue(<<>>)), kv("1", intValue(1))>>}
codecGraphs ==
    {g \in [live : {{keptUnder(i, "id1"), keptUnder(j, "id2")} : i \in codecKept, j \in codecKept},
            tombs : {{}} \cup {{keptUnder(i, "id3")} : i \in codecKept}] :
        \A e \in g.live, f \in g.live \cup g.tombs : e.id # f.id => e.identity # f.identity}
handles ==
    [form : {"id"}, id : {"id1", "id9"}]
    \cup {[form |-> "fingerprint", hash |-> IdentityHash(keptUnder(i, "id1"))] : i \in codecKept}
    \cup [form : {"identity"}, type : {"host", ""},
          identity : [{"k"} -> {<<"1">>, <<":">>, <<>>}] \cup [{"k", "1"} -> {<<"1">>}]]
lookups == {[live |-> g.live, tombs |-> g.tombs, handle |-> h] : g \in codecGraphs, h \in handles}
relational == ("runs_on" :> TRUE) @@ ("hears" :> FALSE)

-----------------------------------------------------------------------------
(* Provenance *)
named(n) == ("container.name" :> n)
saying(a, d) == [attributes |-> a, declared |-> d]
sayings == {saying(named("a"),1), saying(named("b"),1), saying(("compose.service" :> "c"),0), saying(named("a"),5)}
obs0 == {saying(named("a"),1), saying(named("b"),1), saying(<<>>,1)}
obs1 == {saying(named("a"),0), saying(named("a"),5)}
obs2 == {saying(named("a"),1), saying(named("b"),1)}
handleOf(f, k) == [form |-> f, known |-> k]
provenanceRead(s, p, hh, c) == [surface |-> s, past |-> p, handle |-> hh, compact |-> c]
provenanceReads == {provenanceRead("mcp",0,handleOf("id",TRUE),FALSE), provenanceRead("mcp",1,handleOf("fingerprint",TRUE),FALSE), provenanceRead("graphql",0,handleOf("fingerprint",TRUE),FALSE)}
provenanceReadsV == provenanceReads \cup {provenanceRead("mcp",1,handleOf("id",FALSE),FALSE)}
agents == {<<"p","m">>, <<"","m">>}

(* Endpoints *)
addr(p, s, m, u, z) == [peer |-> p, scope |-> s, mapped |-> m, upper |-> u, zone |-> z]
g1 == addr("g1","global",FALSE,FALSE,"")
lo == addr("lo","loopback",FALSE,FALSE,"")
any == addr("any","global",FALSE,FALSE,"")
machines == {[id |-> 1, host |-> "A"], [id |-> 2, host |-> "B"]}
services == {[id |-> 3, on |-> 1, port |-> "80", proto |-> "tcp", bind |-> lo],
 [id |-> 4, on |-> 2, port |-> "80", proto |-> "", bind |-> lo],
 [id |-> 5, on |-> 2, port |-> "80", proto |-> "udp", bind |-> any],
 [id |-> 6, on |-> 1, port |-> "80", proto |-> "udp", bind |-> g1]}
bindings == {[address |-> g1, of |-> 1], [address |-> g1, of |-> 2]}
conn(f, a, t) == [from |-> f, to |-> a, port |-> "80", transport |-> t]
connections == {conn("A", lo, "tcp"), conn("B", [lo EXCEPT !.mapped = TRUE, !.zone = "ETH0"], "tcp"), conn("B", lo, "tcp"),
  conn("A", addr("ll","linklocal",FALSE,TRUE,"ETH0"), "tcp"), conn("A", addr("ll","linklocal",FALSE,FALSE,"eth0"), "tcp"), conn("B", addr("ll","linklocal",FALSE,FALSE,"eth0"), "tcp"),
  conn("A", g1, "tcp"), conn("B", [g1 EXCEPT !.mapped = TRUE], "udp"), conn("A", addr("n","name",FALSE,FALSE,""), "tcp")}

(* Survey *)
en(i, t, a, b) == [id |-> i, type |-> t, identity |-> a, attributes |-> b]
noPairs == [k \in {} |-> ""]
census == {en("l","service.listener",("service.endpoint" :> "e1"),("process.pid" :> "9")),
 en("h","host",("host.id" :> "H"),("host.name" :> "hn") @@ ("process.pid" :> "1")),
 en("g","host",("host.id" :> "G"),noPairs),
 en("a","agent",("host.id" :> "A") @@ ("service.name" :> "s"),noPairs)}
lk(t, f, g) == [type |-> t, from |-> f, to |-> g]
links == {lk("runs_on","l","h"), lk("monitors","a","l"), lk("depends_on","l","g"), lk("connected_to","h","g")}
inquiries == {[stage |-> "keys", of |-> "l"], [stage |-> "schema"], [stage |-> "type", of |-> "host"], [stage |-> "type", of |-> "runs_on"], [stage |-> "type", of |-> "agent"],
 [stage |-> "find", type |-> "host", match |-> ("host.id" :> "none")], [stage |-> "find", type |-> "", match |-> ("host.name" :> "hn") @@ ("service.name" :> "x")], [stage |-> "gauges"]}
census2 == {en("h","host",("host.id" :> "H"),("x" :> "1")), en("g","host",("host.id" :> "G"),("x" :> "2"))}
inquiries2 == {[stage |-> "find", type |-> "host", match |-> ("host.id" :> "H") @@ ("x" :> "2")]}
device(i, v) == en(i, "network.device", noPairs, ("serials" :> "s1,s2") @@ v)
census3 == {device("1", ("hw.vendor" :> "acme")), device("2", ("hw.vendor" :> "Acme")), device("3", ("hw.vendor" :> "other")), device("4", noPairs)}
inquiries3 == {[stage |-> "gauges"]}
=============================================================================
