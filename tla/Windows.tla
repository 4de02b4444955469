------------------------------- MODULE Windows ------------------------------
(***************************************************************************)
(* Questions about a stretch of time, asked of the log: what changed       *)
(* (recent_changes, recentChanges), what happened to one entity            *)
(* (entity_history, entityHistory) and what the net difference is          *)
(* (graph_diff).  internal/mcp/tools.go, diff.go, convert.go;              *)
(* internal/graphql/resolvers/resolver.go; internal/store/read.go.         *)
(*                                                                         *)
(* A reading takes its rows from an index iterator, which is a snapshot,   *)
(* and fetches the records behind them afterwards; retention may remove    *)
(* records, add baselines and publish its horizon in between.              *)
(***************************************************************************)
EXTENDS Integers, FiniteSets, FiniteSetsExt, Sequences, SequencesExt, TLC

CONSTANTS
    Questions,      \* what may be asked
    Values,         \* the values of the one attribute
    Scopes,         \* the instrumentation scopes that observe
    LastUntagged,   \* rows up to this sequence carry no class tag
    TimeWord,           \* the index key wraps an instant modulo Word
    FirstTime, MaxTime, MaxHappenings, MaxPrunes

VARIABLES
    log,            \* the records that can be fetched
    past,           \* every event that happened, baselines left out
    now,
    horizon,        \* the retention horizon readers are told of, 0 for none
    pruning,        \* a committed cutoff not yet published, 0 for none
    windowQuestion,       \* what is being asked
    rows,           \* the rows of the index, as the iterator sees them
    reply           \* the answer

windowVars == <<log, past, now, horizon, pruning, windowQuestion, rows, reply>>

none == -99
silent == [tool |-> "none"]
entityTypes == {"entity.created", "entity.updated", "entity.state_changed",
                "entity.unchanged", "entity.deleted"}
ends == {"entity.deleted", "relation.removed"}
starts == {"entity.created", "relation.added"}

(* Index order: by event time, then by sequence.                           *)
earlier(e, f) == e.et < f.et \/ (e.et = f.et /\ e.seq < f.seq)

of(x, events) == {e \in events : e.about = x}
lastOf(events) == CHOOSE e \in events : \A f \in events : f.seq <= e.seq
alive(x) == of(x, past) # {} /\ lastOf(of(x, past)).type \notin ends
nextSeq == Max({0} \cup {e.seq : e \in log \cup past}) + 1

(***************************************************************************)
(* What happens, and what retention does to it                             *)
(***************************************************************************)
happens(x, type, v, keys, s) ==
    LET e == [seq |-> nextSeq, about |-> x, type |-> type, et |-> now, rt |-> now,
              value |-> v, keys |-> keys, scope |-> s, baseline |-> FALSE]
    IN /\ windowQuestion = silent /\ pruning = 0
       /\ Cardinality(past) < MaxHappenings
       /\ log' = log \cup {e} /\ past' = past \cup {e}
       /\ UNCHANGED <<now, horizon, pruning, windowQuestion, rows, reply>>

EntityHappens(v, s) ==
    LET old == lastOf(of("e", past)).value
    IN \/ ~alive("e") /\ happens("e", "entity.created", v, {}, s)
       \/ /\ alive("e") /\ v # old
          /\ \E type \in {"entity.updated", "entity.state_changed"} :
                happens("e", type, v, {"k"}, s)
       \/ alive("e") /\ v = old /\ happens("e", "entity.unchanged", v, {}, s)
       \/ alive("e") /\ v = old /\ happens("e", "entity.deleted", v, {}, s)

RelationHappens(s) ==
    \/ ~alive("r") /\ happens("r", "relation.added", 0, {}, s)
    \/ alive("r") /\ happens("r", "relation.changed", 0, {}, s)
    \/ alive("r") /\ happens("r", "relation.removed", 0, {}, s)

TimePasses ==
    /\ now < MaxTime /\ windowQuestion = silent
    /\ now' = now + 1
    /\ UNCHANGED <<log, past, horizon, pruning, windowQuestion, rows, reply>>

(* A prune round commits its deletions and baselines, then publishes the   *)
(* horizon under the lock: two steps to a reader.                          *)
PruneOlderThan(cutoff) ==
    LET latest == {lastOf(of(x, log)) : x \in {e.about : e \in log}}
        kept == {e \in latest : e.type \notin ends}
        doomed == {e \in log \ kept : e.rt < cutoff}
        moved == {e \in kept : e.et > cutoff /\ \E f \in of(e.about, log) : f.et <= cutoff}
        order == SetToSortSeq(moved, earlier)
        baselines == {[order[i] EXCEPT !.seq = nextSeq - 1 + i, !.et = cutoff, !.rt = cutoff,
                                       !.keys = {}, !.baseline = TRUE] : i \in DOMAIN order}
    IN /\ pruning = 0 /\ reply = silent /\ cutoff > horizon /\ cutoff <= now /\ doomed # {}
       /\ Cardinality({e \in log : e.baseline}) < MaxPrunes
       /\ log' = (log \ doomed) \cup baselines
       /\ pruning' = cutoff
       /\ UNCHANGED <<past, now, horizon, windowQuestion, rows, reply>>

PublishHorizon ==
    /\ pruning # 0 /\ reply = silent
    /\ horizon' = pruning /\ pruning' = 0
    /\ UNCHANGED <<log, past, now, windowQuestion, rows, reply>>

(***************************************************************************)
(* Naming the window                                                       *)
(***************************************************************************)
(* A duration back from now, or an instant with an optional second one;    *)
(* anything else, and an empty window, is refused.                         *)
diffBounds(q) ==
    LET to == IF q.to = none THEN now ELSE q.to
    IN CASE q.window # none /\ q.from # none -> <<>>
         [] q.window # none -> IF q.window > 0 THEN <<now - q.window, now>> ELSE <<>>
         [] q.from # none -> IF to > q.from THEN <<q.from, to>> ELSE <<>>
         [] OTHER -> <<>>

(* recent_changes looks back one unit when no window is named.             *)
recentBounds(q) ==
    IF q.window = none /\ q.from = none THEN diffBounds([q EXCEPT !.window = 1])
    ELSE diffBounds(q)

(* The GraphQL form also refuses a second instant without a first.         *)
changeWindow(q) ==
    IF q.to # none /\ q.from = none THEN <<>> ELSE recentBounds(q)

scanEndExclusive(b) == b

(* The window a change list scans is closed: one tick past its end.        *)
scanEnd(b) == b + 1

(***************************************************************************)
(* Reading the index                                                       *)
(***************************************************************************)
tagged(e) == e.seq > LastUntagged

ScanTimeIndex(a, b, newestFirst) ==
    LET list == SetToSortSeq({e \in log : e.et >= a % TimeWord /\ e.et < b % TimeWord}, earlier)
    IN IF newestFirst THEN Reverse(list) ELSE list

ReadByEntity(x) == SetToSortSeq(of(x, log), LAMBDA e, f : e.seq < f.seq)

AskWindow(q) ==
    LET b == CASE q.tool = "diff" -> diffBounds(q)
               [] q.tool = "recent" -> recentBounds(q)
               [] q.tool = "recentChanges" -> changeWindow(q)
               [] OTHER -> <<q.from, q.to>>
    IN /\ windowQuestion = silent
       /\ windowQuestion' = q @@ [bounds |-> b]
       /\ rows' = CASE b = <<>> -> <<>>
                    [] b # <<>> /\ q.tool = "diff" -> ScanTimeIndex(b[1], b[2], FALSE)
                    [] b # <<>> /\ q.tool \in {"recent", "recentChanges"} ->
                           ScanTimeIndex(b[1], scanEnd(b[2]), TRUE)
                    [] OTHER -> ReadByEntity("e")
       /\ UNCHANGED <<log, past, now, horizon, pruning, reply>>

(***************************************************************************)
(* Filters                                                                 *)
(***************************************************************************)
keepKindClass(e, kind) ==
    CASE kind = "entity" -> e.type \in entityTypes
      [] kind = "relation" -> e.type \notin entityTypes
      [] kind = "structural" -> e.about = "r"
      [] OTHER -> TRUE

(* An explicit type wins; otherwise heartbeats are left out unless wanted. *)
keepClass(e, q) ==
    IF q.type # "" THEN e.type = q.type
    ELSE e.type # "entity.unchanged" \/ q.heartbeats

needsRecord(q) == q.scope # "" \/ q.match # {}

(* The entity as the event saw it; a relation never matches.               *)
keepScope(e, q) ==
    /\ q.scope # "" => e.scope = q.scope
    /\ q.match # {} => e.type \in entityTypes /\ e.value \in q.match

horizonWarning(a, b) == horizon # 0 /\ a < horizon

oldest(list, n) == SubSeq(list, 1, Min({n, Len(list)}))
newest(list, n) == IF Len(list) <= n THEN list ELSE SubSeq(list, Len(list) - n + 1, Len(list))
first(list, n) == SubSeq(list, 1, Min({n, Len(list)}))

(***************************************************************************)
(* The answers                                                             *)
(***************************************************************************)
Reply(r) ==
    /\ reply' = r
    /\ UNCHANGED <<log, past, now, horizon, pruning, windowQuestion, rows>>

answering(tool) == windowQuestion.tool = tool /\ reply = silent

refused == [tool |-> "refused"]

(* recent_changes classifies a row from its tag, fetches the record only   *)
(* to filter on it or to return it, and skips a record that is gone.       *)
recentChanges ==
    LET q == windowQuestion
        kept == SelectSeq(rows, LAMBDA e :
                    /\ tagged(e) \/ e \in log
                    /\ keepKindClass(e, q.kind) /\ keepClass(e, q)
                    /\ needsRecord(q) => e \in log /\ keepScope(e, q))
        listed == first(SelectSeq(kept, LAMBDA e : e \in log), q.limit)
    IN /\ answering("recent")
       /\ Reply(IF q.bounds = <<>> THEN refused
                ELSE [tool |-> "recent", listed |-> listed, total |-> Len(kept),
                      truncated |-> Len(kept) > q.limit,
                      covered |-> horizonWarning(q.bounds[1], q.bounds[2])])

(* recentChanges drops a tagged heartbeat early and an untagged one after  *)
(* fetching it; it says nothing of the horizon.                            *)
RecentChanges ==
    LET q == windowQuestion
        kept == SelectSeq(rows, LAMBDA e :
                    /\ q.heartbeats \/ ~tagged(e) \/ e.type # "entity.unchanged"
                    /\ e \in log
                    /\ q.heartbeats \/ tagged(e) \/ e.type # "entity.unchanged"
                    /\ keepScope(e, q))
    IN /\ answering("recentChanges")
       /\ Reply(IF q.bounds = <<>> THEN refused
                ELSE [tool |-> "recentChanges", listed |-> first(kept, q.limit),
                      total |-> Len(kept), truncated |-> Len(kept) > q.limit,
                      covered |-> FALSE])

inHistory(e, q) ==
    /\ q.from # none => e.et >= q.from
    /\ q.to # none => e.et <= q.to
    /\ q.known # none => e.rt <= q.known

(* entity_history keeps the newest and stays oldest first; entityHistory   *)
(* pages the same list from its start.                                     *)
entityHistory ==
    LET q == windowQuestion
        kept == SelectSeq(rows, LAMBDA e : e \in log /\ inHistory(e, q) /\ keepClass(e, q))
        list == SortSeq(kept, earlier)
    IN /\ answering("history")
       /\ Reply([tool |-> "history", listed |-> newest(list, q.limit), total |-> Len(list),
                 truncated |-> Len(list) > q.limit,
                 covered |-> q.from # none
                             /\ horizonWarning(q.from, IF q.to = none THEN now ELSE q.to)])

dropHeartbeats(list) == SelectSeq(list, LAMBDA e : e.type # "entity.unchanged")

EntityHistory ==
    LET q == windowQuestion
        found == SelectSeq(rows, LAMBDA e : e \in log)
        evs == IF q.heartbeats THEN found ELSE dropHeartbeats(found)
        list == SortSeq(SelectSeq(evs, LAMBDA e : inHistory(e, q)), earlier)
    IN /\ answering("entityHistory")
       /\ Reply([tool |-> "entityHistory", listed |-> first(list, q.limit), total |-> Len(list),
                 truncated |-> Len(list) > q.limit, covered |-> FALSE])

(* The first event of a thing in the window, its last appearance or        *)
(* disappearance, and the attributes that changed decide its bucket.       *)
bucket(events) ==
    LET turns == SelectSeq(events, LAMBDA e : e.type \in starts \cup ends)
        gone == turns # <<>> /\ turns[Len(turns)].type \in ends
        born == events # <<>> /\ events[1].type \in starts
    IN CASE born /\ ~gone -> "created"
         [] born /\ gone -> "transient"
         [] ~born /\ gone -> "deleted"
         [] ~born /\ ~gone
            /\ \E i \in DOMAIN events : events[i].keys # {} \/ events[i].type = "relation.changed"
                -> "changed"
         [] OTHER -> "same"

graphDiff ==
    LET q == windowQuestion
        evs == SelectSeq(rows, LAMBDA e : e \in log /\ e.type # "entity.unchanged")
    IN /\ answering("diff")
       /\ Reply(IF q.bounds = <<>> THEN refused
                ELSE [tool |-> "diff",
                      buckets |-> [x \in {"e", "r"} |->
                                     bucket(SelectSeq(evs, LAMBDA e : e.about = x))],
                      covered |-> horizonWarning(q.bounds[1], q.bounds[2])])

WindowsInit ==
    /\ log = {} /\ past = {} /\ now = FirstTime /\ horizon = 0 /\ pruning = 0
    /\ windowQuestion = silent /\ rows = <<>> /\ reply = silent

WindowsNext ==
    \/ \E s \in Scopes : RelationHappens(s) \/ \E v \in Values : EntityHappens(v, s)
    \/ TimePasses
    \/ \E cutoff \in FirstTime .. MaxTime : PruneOlderThan(cutoff)
    \/ PublishHorizon
    \/ \E q \in Questions : AskWindow(q)
    \/ recentChanges \/ RecentChanges \/ entityHistory \/ EntityHistory \/ graphDiff

WindowsSpec == WindowsInit /\ [][WindowsNext]_windowVars

-----------------------------------------------------------------------------
WindowsTypeOK ==
    /\ now \in FirstTime .. MaxTime /\ horizon \in 0 .. now /\ pruning \in 0 .. now
    /\ \A e \in log : e \in past \/ e.baseline

answered == reply # silent /\ reply # refused
lists == answered /\ reply.tool # "diff"

(* The events that answer a list question, told from the question alone:   *)
(* both ends of the window belong to it.                                   *)
asked(e) ==
    LET q == windowQuestion
        closed(a, b) == e.et >= a /\ e.et <= b
    IN /\ IF q.tool \in {"history", "entityHistory"}
          THEN /\ e.about = "e"
               /\ closed(IF q.from = none THEN 0 ELSE q.from, IF q.to = none THEN now ELSE q.to)
               /\ q.known # none => e.rt <= q.known
          ELSE closed(q.bounds[1], q.bounds[2]) /\ keepKindClass(e, q.kind) /\ keepScope(e, q)
       /\ IF q.type # "" THEN e.type = q.type
          ELSE q.heartbeats \/ e.type # "entity.unchanged"

(* A list of changes is never short in silence: every event that happened  *)
(* and answers the question is listed, or the answer says that it was cut, *)
(* or retention had taken the event and not yet published its horizon.     *)
(* The GraphQL lists and a timeline asked for from its start do not tell   *)
(* of the horizon, and are held to the rest.                               *)
untold == reply.tool \in {"recentChanges", "entityHistory"} \/ (reply.tool = "history" /\ windowQuestion.from = none)

NeverShortInSilence ==
    lists =>
        \A e \in past : (asked(e) /\ e \notin Range(reply.listed)) =>
            \/ reply.truncated
            \/ reply.covered
            \/ e \notin log /\ (pruning > e.et \/ untold)

(* What is listed answers the question, and what a cut leaves out is at    *)
(* the far end: older than everything listed, or newer in the one list     *)
(* that is paged from its start.                                           *)
ListsAreTheNewest ==
    lists =>
        /\ \A e \in Range(reply.listed) : asked(e)
        /\ \A e \in log : (asked(e) /\ ~e.baseline /\ e \notin Range(reply.listed)
                              /\ e \in Range(rows)) =>
              \A f \in Range(reply.listed) :
                 IF reply.tool = "entityHistory" THEN earlier(f, e) ELSE earlier(e, f)

(* Both instants of a difference are readings of the same history.         *)
presentAt(x, t) ==
    LET turns == {e \in of(x, past) : e.et <= t /\ e.type \in starts \cup ends}
    IN turns # {} /\ lastOf(turns).type \in starts

valueAt(x, t) == lastOf({e \in of(x, past) : e.et <= t}).value

differs(x, a, b) ==
    CASE presentAt(x, b) /\ ~presentAt(x, a) -> {"created"}
      [] presentAt(x, a) /\ ~presentAt(x, b) -> {"deleted"}
      [] ~presentAt(x, a) /\ ~presentAt(x, b) -> {"same", "transient"}
      [] OTHER -> {"same", "changed"}

eventsWithin(x, a, b) == {e \in of(x, past) : e.et > a /\ e.et <= b}

(* The net difference is that of the two instants: created is present at   *)
(* to and not at from, deleted the converse, transient neither but seen in *)
(* between, and an attribute that differs is a change; whatever happened   *)
(* in between, as long as nothing happened at the instants themselves and  *)
(* retention did not reach into the window.                                *)
NetDifference ==
    (answered /\ reply.tool = "diff" /\ ~reply.covered /\ pruning = 0
        /\ \A e \in past : e.et \notin Range(windowQuestion.bounds)
        /\ horizon \notin Range(windowQuestion.bounds)) =>
        \A x \in {"e", "r"} :
            LET a == windowQuestion.bounds[1]  b == windowQuestion.bounds[2]
            IN /\ reply.buckets[x] \in differs(x, a, b)
               /\ reply.buckets[x] = "transient" <=>
                    (~presentAt(x, a) /\ ~presentAt(x, b) /\ eventsWithin(x, a, b) # {})
               /\ (presentAt(x, a) /\ presentAt(x, b) /\ valueAt(x, a) # valueAt(x, b)
                      /\ \A e \in eventsWithin(x, a, b) : e.type \notin ends) =>
                    reply.buckets[x] = "changed"

(* The same, at every instant: "entities present at to but not at from".   *)
BoundsBelong ==
    (answered /\ reply.tool = "diff" /\ ~reply.covered /\ pruning = 0) =>
        \A x \in {"e", "r"} :
            reply.buckets[x] \in differs(x, windowQuestion.bounds[1], windowQuestion.bounds[2])

(* "entities present at both instants whose attributes changed": also when *)
(* the entity went and came back in between.                               *)
ChangedAttributesReported ==
    (answered /\ reply.tool = "diff" /\ ~reply.covered
        /\ \A e \in past : e.et \notin Range(windowQuestion.bounds)) =>
        LET a == windowQuestion.bounds[1]  b == windowQuestion.bounds[2]
        IN (presentAt("e", a) /\ presentAt("e", b) /\ valueAt("e", a) # valueAt("e", b)) =>
              reply.buckets["e"] = "changed"

(* What a reader of a time window is told holds of the log: nothing is missing    *)
(* without a word, a cut list is the near end of it, and a difference is that of  *)
(* its two instants (diff.go, the window tools, the changes resolvers).          *)
WindowsTrue ==
    NeverShortInSilence /\ ListsAreTheNewest /\ NetDifference
=============================================================================
