------------------------------- MODULE Paging -------------------------------
(***************************************************************************)
(* Reading a long answer page by page while the graph and the log move     *)
(* under the reader: find_entities and get_neighbors of the MCP server     *)
(* (internal/mcp/tools.go, internal/projection/graph.go), and the          *)
(* connections of the GraphQL surface (internal/graphql/resolvers/         *)
(* resolver.go, convert.go).                                               *)
(*                                                                         *)
(* An item is its ordering key: an identity fingerprint, a logical id, or  *)
(* the position of an event in time.  Between two pages an item may        *)
(* arrive, leave, or (a neighbor) move to another distance.                *)
(***************************************************************************)
EXTENDS Integers, FiniteSets, FiniteSetsExt, Sequences, SequencesExt

CONSTANTS
    Items,          \* ordering keys: a set of positive integers
    Matching,       \* the items that carry the attribute a filter asks for
    Reads,          \* [surface, first, churn]: what is read, the page asked for,
                    \* and how the data may change meanwhile
    DefaultPage,    \* the page size when none is asked for
    MaxPage,        \* the page bound
    MaxChanges      \* how many changes happen during one read

VARIABLES
    pagedRead,        \* the read, chosen once
    present,        \* the items there are
    distance,       \* the distance of each item, for a neighborhood
    collected,      \* what the pages so far listed, in order
    cursor,         \* where to resume: <<>> at the start, else the key of the last item
    page,           \* the last page: its items and what it claims
    stayed,         \* the items that stayed where they were during the whole read
    changes         \* how many changes happened

pagingVars == <<pagedRead, present, distance, collected, cursor, page, stayed, changes>>

noPage == [items |-> <<>>, more |-> TRUE, holdsNewest |-> TRUE,
           holdsOldest |-> TRUE, noMatch |-> FALSE, answered |-> FALSE]

(***************************************************************************)
(* The page size                                                           *)
(***************************************************************************)
(* MCP clamps what it is asked for; GraphQL refuses more than its bound    *)
(* and reads a negative size as zero.                                      *)
clampLimit(n) ==
    CASE n <= 0 -> DefaultPage
      [] n > MaxPage -> MaxPage
      [] OTHER -> n

(***************************************************************************)
(* The lists that are paged                                                *)
(***************************************************************************)
ListEntitiesByFingerprint == SetToSortSeq(present, <)

matched == SelectSeq(ListEntitiesByFingerprint, LAMBDA k : k \in Matching)

nearer(j, k) ==
    \/ distance[j] < distance[k]
    \/ distance[j] = distance[k] /\ j < k

neighborhood == SetToSortSeq(present, nearer)

ListEntities == SetToSortSeq(present, <)

oldestFirst == SetToSortSeq(present, <)

newestFirst == SetToSortSeq(present, >)

(***************************************************************************)
(* One page of each                                                        *)
(***************************************************************************)
(* What is left of a list after the cursor, for a cursor that is a key.    *)
afterKeyOffset(list) ==
    IF cursor = <<>> THEN list ELSE SubSeq(list, Len(collected) + 1, Len(list))

afterKey(list) ==
    IF cursor = <<>> THEN list
    ELSE SelectSeq(list, LAMBDA k : k > cursor[Len(cursor)])

afterNeighbor(list) ==
    IF cursor = <<>> THEN list
    ELSE SelectSeq(list, LAMBDA k :
            \/ distance[k] > cursor[1]
            \/ distance[k] = cursor[1] /\ k > cursor[2])

(* The MCP page: a cursor is given only when something remains.            *)
pageByFingerprint(rest, n, key) ==
    IF Len(rest) <= n THEN [items |-> rest, next |-> <<>>]
    ELSE [items |-> SubSeq(rest, 1, n), next |-> key[rest[n]]]

PageEntitiesByFingerprint(list, n) == pageByFingerprint(afterKey(list), n, [k \in Items |-> <<k>>])

pageNeighbors(list, n) ==
    pageByFingerprint(afterNeighbor(list), n, [k \in present |-> <<distance[k], k>>])

(* The GraphQL page resumes after the POSITION of the cursor's item; a     *)
(* cursor whose item is no longer listed resumes after the last.           *)
paginate(list, n) ==
    LET at == {i \in DOMAIN list : list[i] = cursor[1]}
        start == CASE cursor = <<>> -> 0
                   [] cursor # <<>> /\ at # {} -> Min(at)
                   [] OTHER -> Len(list)
        end == Min({start + (IF n < 0 THEN 0 ELSE n), Len(list)})
    IN [items |-> SubSeq(list, start + 1, end), more |-> end < Len(list)]

(* Which end of the timeline a page claims to hold.                        *)
changeConnection(list, p, order) ==
    [holdsNewest |-> list = <<>> \/ order = "newest" \/ ~p.more,
     holdsOldest |-> list = <<>> \/ order = "oldest" \/ ~p.more]

(***************************************************************************)
(* The reader                                                              *)
(***************************************************************************)
PagingInit ==
    /\ pagedRead \in Reads
    /\ present \in SUBSET Items
    /\ distance \in {d \in [Items -> {1, 2}] :
                        pagedRead.surface # "neighbors" => \A k \in Items : d[k] = 1}
    /\ collected = <<>> /\ cursor = <<>> /\ page = noPage
    /\ stayed = present /\ changes = 0

Turn(items, next, claims) ==
    /\ page.more
    /\ collected' = collected \o items
    /\ cursor' = next
    /\ page' = claims
    /\ stayed' = IF page.answered THEN stayed ELSE present
    /\ UNCHANGED <<pagedRead, present, distance, changes>>

(* find_entities, without and with an attribute filter.                    *)
findEntities(list) ==
    LET p == PageEntitiesByFingerprint(list, clampLimit(pagedRead.first))
    IN Turn(p.items, p.next,
            [items |-> p.items, more |-> p.next # <<>>, holdsNewest |-> TRUE,
             holdsOldest |-> TRUE, noMatch |-> p.items = <<>>, answered |-> TRUE])

getNeighborsPage ==
    LET p == pageNeighbors(neighborhood, clampLimit(pagedRead.first))
    IN Turn(p.items, p.next,
            [items |-> p.items, more |-> p.next # <<>>, holdsNewest |-> TRUE,
             holdsOldest |-> TRUE, noMatch |-> FALSE, answered |-> TRUE])

(* The four connections; a page past the bound is refused, and a reader    *)
(* passes the end cursor of one page on to the next.                       *)
connection(list, order) ==
    LET p == paginate(list, pagedRead.first)
        ends == changeConnection(list, p, order)
    IN /\ pagedRead.first <= MaxPage
       /\ Turn(p.items, IF p.items = <<>> THEN cursor ELSE <<p.items[Len(p.items)]>>,
               [items |-> p.items, more |-> p.more, noMatch |-> FALSE,
                holdsNewest |-> ends.holdsNewest, holdsOldest |-> ends.holdsOldest,
                answered |-> TRUE])

NextPage ==
    CASE pagedRead.surface = "find" -> findEntities(ListEntitiesByFingerprint)
      [] pagedRead.surface = "match" -> findEntities(matched)
      [] pagedRead.surface = "neighbors" -> getNeighborsPage
      [] pagedRead.surface = "entities" -> connection(ListEntities, "none")
      [] pagedRead.surface = "history" -> connection(oldestFirst, "oldest")
      [] OTHER -> connection(newestFirst, "newest")

Change(kind) ==
    /\ kind \in pagedRead.churn /\ page.more /\ changes < MaxChanges
    /\ changes' = changes + 1
    /\ UNCHANGED <<pagedRead, collected, cursor, page>>

(* An event arrives at the new end of a timeline.                          *)
Arrive(k) ==
    /\ Change("arrive") /\ k \notin present
    /\ pagedRead.surface \in {"history", "recent"} => \A j \in present : j < k
    /\ present' = present \cup {k}
    /\ UNCHANGED <<distance, stayed>>

(* A deleted entity, a closer route lost, a coalesced or pruned event.     *)
Leave(k) ==
    /\ Change("leave") /\ k \in present
    /\ present' = present \ {k}
    /\ stayed' = stayed \ {k}
    /\ UNCHANGED distance

(* A neighbor whose distance changes may be listed twice or not at all.    *)
Move(k) ==
    /\ Change("move") /\ k \in present
    /\ distance' = [distance EXCEPT ![k] = 3 - @]
    /\ stayed' = stayed \ {k}
    /\ UNCHANGED present

PagingNext ==
    \/ NextPage
    \/ \E k \in Items : Arrive(k) \/ Leave(k) \/ Move(k)

PagingSpec == PagingInit /\ [][PagingNext]_pagingVars

-----------------------------------------------------------------------------
wantedItems == IF pagedRead.surface = "match" THEN stayed \cap Matching ELSE stayed

PagingTypeOK ==
    /\ present \subseteq Items /\ stayed \subseteq Items
    /\ Range(collected) \subseteq Items
    /\ changes \in 0 .. MaxChanges

(* "Resuming AFTER a key cannot skip or repeat anything that still         *)
(* exists": once the last page has been read, every item that kept its     *)
(* place the whole time has been listed exactly once, whatever came, went  *)
(* or moved between the pages.                                             *)
EnumerationComplete ==
    ~page.more =>
        \A k \in wantedItems : Cardinality({i \in DOMAIN collected : collected[i] = k}) = 1

(* A page of changes that claims to hold the far end of its timeline (the  *)
(* newest event, oldest-first; the oldest, newest-first) completes a       *)
(* reading that has it.                                                    *)
FarEndHeld ==
    (page.answered /\ page.items # <<>>) =>
        /\ (pagedRead.surface = "history" /\ page.holdsNewest) =>
              \A k \in stayed : k <= Max(Range(page.items))
        /\ (pagedRead.surface = "recent" /\ page.holdsOldest) =>
              \A k \in stayed : k >= Min(Range(page.items))

(* "Whether the newest matching event is inside this page", and the        *)
(* oldest: the two claims of a page of changes, read as the schema states  *)
(* them, at the moment the page is served.                                 *)
PagesSayWhichEnd ==
    [][(page' # page /\ pagedRead.surface \in {"history", "recent"} /\ present # {}) =>
          /\ page'.holdsNewest => Max(present) \in Range(page'.items)
          /\ page'.holdsOldest => Min(present) \in Range(page'.items)]_pagingVars

(* An answer that says nothing matched is only given when nothing does.    *)
NoMatchMeansNone ==
    [][(page' # page /\ page'.noMatch) =>
          (IF pagedRead.surface = "match" THEN present \cap Matching ELSE present) = {}]_pagingVars

(* Page by page, a reader sees everything that stayed, once, and is not told to    *)
(* have reached an end it has not (paginate, the cursors).                        *)
PagesComplete ==
    EnumerationComplete /\ FarEndHeld
=============================================================================
