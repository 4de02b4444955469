------------------------------ MODULE Aliases ------------------------------
(***************************************************************************)
(* Identity aliases (internal/change/alias.go): the equivalences same_as        *)
(* observations assert, their expiry, and the edges that reach an entity        *)
(* through another of its names, at once or out of the reconciliation buffer.   *)
(*                                                                           *)
(* Abstractions.  All endpoints have one entity type.  A deadline is the time   *)
(* left to it.  Whoever asserts an edge here does not assert its source, so an   *)
(* edge without an interval inherits none.                                       *)
(***************************************************************************)
EXTENDS Integers, Sequences, FiniteSets, SequencesExt

CONSTANTS Identities,   \* functions from attribute keys to <<kind, value>>
          Relations,    \* the observations: [type, from, to, confidence, speaker,
                        \* interval, sourceInterval]
          BufferTTL,    \* Engine.bufferTTL
          MaxPending,   \* maxPendingRelations
          MaxCycle      \* maxPlausibleLivenessPromise

ASSUME AliasAssumption ==
    /\ BufferTTL \in Nat \ {0} /\ MaxPending \in Nat \ {0} /\ MaxCycle \in Nat
    /\ \A o \in Relations :
         /\ {o.from, o.to} \subseteq Identities /\ o.from # o.to
         /\ o.confidence \in {"strong", "weak", "unreadable"}
         /\ {o.interval, o.sourceInterval} \subseteq Nat

VARIABLES live,      \* identities of the entities in the projection
          speakers,  \* identityAliasIndex.speakers, by claim and speaker
          byAlias,   \* identityAliasIndex.byAlias
          edgeRefs,  \* Engine.relRefs, by <<edge, speaker>>; an edge <<type, from, to>>
                     \* is in the projection while it has one
          waiting,   \* Engine.pending
          hashes,    \* Engine.pendingHashes
          fate,      \* history: what became of the last sending of each observation
          said,      \* history: the claims made, by claim and speaker
          disputed   \* history: aliases that had several canonical values at once

aliasVars == <<live, speakers, byAlias, edgeRefs, waiting, hashes, fate, said, disputed>>

(* A deadline after d, which d = 0 makes a deadline that never lapses. *)
deadlineIn(d) == [armed |-> d > 0, left |-> d]
isPast(d) == d.armed /\ d.left < 0
sooner(d) == IF d.armed /\ d.left >= 0 THEN [d EXCEPT !.left = @ - 1] ELSE d
soonerAll(f) == [x \in DOMAIN f |-> sooner(f[x])]

put(f, k, v) == [x \in DOMAIN f \cup {k} |-> IF x = k THEN v ELSE f[x]]
without(f, ks) == [x \in DOMAIN f \ ks |-> f[x]]

-----------------------------------------------------------------------------
(* aliasClaimFromObservation: a believed same_as between identities of the same   *)
(* keys that differ on one of them, whose values there are strings.               *)
differOn(o) == {k \in DOMAIN o.from : o.from[k] # o.to[k]}

claimed(o) ==
    /\ o.type = "same_as"
    /\ o.confidence = "strong"
    /\ DOMAIN o.from = DOMAIN o.to
    /\ Cardinality(differOn(o)) = 1
    /\ \A k \in differOn(o) : o.from[k][1] = "string" /\ o.to[k][1] = "string"

aliasClaim(o) ==
    LET k == CHOOSE x \in differOn(o) : TRUE
    IN  [alias |-> <<k, o.to[k][2]>>, canonical |-> o.from[k][2]]

aliasDeclaredCycle(o) == IF o.interval > 0 THEN o.interval ELSE o.sourceInterval

(* aliasDeadline: two of the speaker's cycles. *)
aliasDeadline(o) == deadlineIn(2 * aliasDeclaredCycle(o))

candidates(index, a) == IF a \in DOMAIN index THEN index[a] ELSE {}

(* identityAliasIndex.resolve: exactly one canonical value, or none. *)
resolves(index, a) == Cardinality(candidates(index, a)) = 1

(* substituteAliases: only string values, and only exact ones. *)
substituteAliases(index, id) ==
    [k \in DOMAIN id |->
        IF id[k][1] = "string" /\ resolves(index, <<k, id[k][2]>>)
        THEN <<"string", CHOOSE v \in index[<<k, id[k][2]>>] : TRUE>> ELSE id[k]]

(* A world w is what resolution reads: the live identities and byAlias.            *)
(* resolveEndpoint: the exact identity first.                                       *)
resolveEndpoint(w, id) ==
    CASE id \in w.live                             -> {id}
      [] substituteAliases(w.index, id) \in w.live -> {substituteAliases(w.index, id)}
      [] OTHER                                     -> {}

resolvable(w, o) == resolveEndpoint(w, o.from) # {} /\ resolveEndpoint(w, o.to) # {}

landing(w, o) ==
    <<o.type, CHOOSE x \in resolveEndpoint(w, o.from) : TRUE,
              CHOOSE x \in resolveEndpoint(w, o.to) : TRUE>>

(* resolveEndpoints: errEndpointsCollapsed. *)
collapsed(w, o) == landing(w, o)[2] = landing(w, o)[3]

(* Engine.promise *)
edgeDeadline(o) == deadlineIn(IF o.interval <= MaxCycle THEN o.interval ELSE 0)

(* dropPendingRelation: given up on, and reported unless its belief is retained.   *)
dropped(w, o) ==
    IF claimed(o) /\ aliasClaim(o).canonical \in candidates(w.index, aliasClaim(o).alias)
    THEN "believed" ELSE "lost"

-----------------------------------------------------------------------------
(* observeRelationLocked: what an observation comes to. *)
observed(w, o) ==
    CASE ~resolvable(w, o) -> "parked"
      [] collapsed(w, o)   -> dropped(w, o)
      [] OTHER             -> "committed"

withRefs(w, rs, os) ==
    LET new(o) == <<landing(w, o), o.speaker>>
    IN  [r \in DOMAIN rs \cup {new(o) : o \in os} |->
            IF \E o \in os : new(o) = r
            THEN edgeDeadline(CHOOSE o \in os : new(o) = r) ELSE rs[r]]

(* flushPending, one parked edge: past its deadline it is given up on even if it   *)
(* would resolve now.                                                              *)
retried(w, p) == IF isPast(p.deadline) THEN dropped(w, p.obs) ELSE observed(w, p.obs)

flushed(w) == SelectSeq(waiting, LAMBDA p : retried(w, p) = "parked")

committedBy(w) == {p.obs : p \in {q \in ToSet(waiting) : retried(w, q) = "committed"}}

(* The fates the last parked copy of each observation meets; a dropped edge that   *)
(* nobody reports keeps the fate it had.                                           *)
fateBy(w) ==
    [o \in Relations |->
        LET i == SelectLastInSeq(waiting, LAMBDA p : p.obs = o)
        IN  IF i > 0 /\ retried(w, waiting[i]) # "gone" THEN retried(w, waiting[i]) ELSE fate[o]]

(* Mutant: a parked edge waits for the names it was sent with alone. *)
pendingHashesExact(index, ps) == UNION {{p.obs.from, p.obs.to} : p \in ToSet(ps)}

(* rebuildPendingHashes *)
pendingHashes(index, ps) ==
    UNION {UNION {{id, substituteAliases(index, id)} : id \in {p.obs.from, p.obs.to}}
              : p \in ToSet(ps)}

AliasInit ==
    /\ live = {}
    /\ speakers = <<>> /\ byAlias = <<>> /\ edgeRefs = <<>>
    /\ waiting = <<>> /\ hashes = {}
    /\ fate = [o \in Relations |-> "unsent"]
    /\ said = <<>> /\ disputed = {}

-----------------------------------------------------------------------------
(* observeEntityLocked: parked edges are retried when one of them waits for it. *)
EntityArrives(id) ==
    LET w == [live |-> live \cup {id}, index |-> byAlias]
    IN  /\ live' = w.live
        /\ IF id \in hashes
           THEN /\ edgeRefs' = withRefs(w, edgeRefs, committedBy(w))
                /\ fate' = fateBy(w)
                /\ waiting' = flushed(w)
                /\ hashes' = pendingHashes(byAlias, flushed(w))
           ELSE UNCHANGED <<edgeRefs, fate, waiting, hashes>>
        /\ UNCHANGED <<speakers, byAlias, said, disputed>>

(* deleteEntityLocked with its cascade, and an entity's expiry alike. *)
EntityDeparts(id) ==
    /\ id \in live
    /\ live' = live \ {id}
    /\ edgeRefs' = without(edgeRefs, {r \in DOMAIN edgeRefs : id \in {r[1][2], r[1][3]}})
    /\ UNCHANGED <<speakers, byAlias, waiting, hashes, fate, said, disputed>>

(* recordAliasLocked refuses an implausible cycle. *)
recorded(o) == claimed(o) /\ aliasDeclaredCycle(o) <= MaxCycle

(* identityAliasIndex.record *)
recordAlias(o) ==
    LET c == aliasClaim(o)
    IN  put(byAlias, c.alias, candidates(byAlias, c.alias) \cup {c.canonical})

parkedUntil(o) == deadlineIn(IF o.sourceInterval > BufferTTL THEN o.sourceInterval ELSE BufferTTL)

parkedWith(ps, o) ==
    Append(IF Len(ps) >= MaxPending THEN Tail(ps) ELSE ps, [obs |-> o, deadline |-> parkedUntil(o)])

(* observeRelationBuffered: a belief is recorded, which retries the parked edges;   *)
(* then the edge is committed, dropped, or parked, the oldest making room.          *)
ObserveRelation(o) ==
    LET learns == recorded(o)
        w == [live |-> live, index |-> IF learns THEN recordAlias(o) ELSE byAlias]
        ps == IF learns THEN flushed(w) ELSE waiting
        done == (IF learns THEN committedBy(w) ELSE {})
                \cup (IF observed(w, o) = "committed" THEN {o} ELSE {})
        parks == observed(w, o) = "parked"
        evicted == IF parks /\ Len(ps) >= MaxPending THEN {ps[1].obs} ELSE {}
    IN  /\ byAlias' = w.index
        /\ speakers' = IF learns THEN put(speakers, <<aliasClaim(o), o.speaker>>, aliasDeadline(o))
                                 ELSE speakers
        /\ edgeRefs' = withRefs(w, edgeRefs, done)
        /\ waiting' = IF parks THEN parkedWith(ps, o) ELSE ps
        /\ hashes' = IF learns \/ parks THEN pendingHashes(w.index, waiting') ELSE hashes
        /\ fate' = [x \in Relations |->
              CASE x = o          -> observed(w, o)
                [] x \in evicted -> "lost"
                [] OTHER          -> IF learns THEN fateBy(w)[x] ELSE fate[x]]
        /\ said' = IF learns
                   THEN put(said, <<aliasClaim(o), o.speaker>>,
                            deadlineIn(aliasDeclaredCycle(o) + aliasDeclaredCycle(o)))
                   ELSE said
        /\ disputed' = disputed \cup {a \in DOMAIN w.index : Cardinality(w.index[a]) > 1}
        /\ UNCHANGED live

(* removeRelationLocked: nothing to do for an endpoint that does not resolve. *)
RemoveRelation(o) ==
    LET w == [live |-> live, index |-> byAlias]
    IN  /\ resolvable(w, o) /\ ~collapsed(w, o)
        /\ edgeRefs' = without(edgeRefs, {<<landing(w, o), o.speaker>>})
        /\ UNCHANGED <<live, speakers, byAlias, waiting, hashes, fate, said, disputed>>

(* identityAliasIndex.sweep: the candidates whose claim has a speaker left. *)
swept(left) ==
    LET names(a) == {c.canonical : c \in {s[1] : s \in {t \in DOMAIN left : t[1].alias = a}}}
    IN  [a \in {s[1].alias : s \in DOMAIN left} |-> names(a)]

(* Sweep: parked edges past their deadline, edge references, then the aliases. *)
Sweep ==
    LET w == [live |-> live, index |-> byAlias]
        kept == SelectSeq(waiting, LAMBDA p : ~isPast(p.deadline))
        left == without(speakers, {s \in DOMAIN speakers : isPast(speakers[s])})
    IN  /\ fate' = [o \in Relations |->
              IF \E p \in ToSet(waiting) : p.obs = o /\ isPast(p.deadline)
              THEN (IF \E p \in ToSet(kept) : p.obs = o THEN "parked" ELSE dropped(w, o)) ELSE fate[o]]
        /\ waiting' = kept
        /\ hashes' = pendingHashes(byAlias, kept)
        /\ edgeRefs' = without(edgeRefs, {r \in DOMAIN edgeRefs : isPast(edgeRefs[r])})
        /\ speakers' = left
        /\ byAlias' = swept(left)
        /\ said' = without(said, {s \in DOMAIN said : isPast(said[s])})
        /\ UNCHANGED <<live, disputed>>

Elapse ==
    /\ speakers' = soonerAll(speakers)
    /\ edgeRefs' = soonerAll(edgeRefs)
    /\ said' = soonerAll(said)
    /\ waiting' = [i \in DOMAIN waiting |-> [waiting[i] EXCEPT !.deadline = sooner(@)]]
    /\ UNCHANGED <<live, byAlias, hashes, fate, disputed>>

AliasNext ==
    \/ \E id \in Identities : EntityArrives(id) \/ EntityDeparts(id)
    \/ \E o \in Relations : ObserveRelation(o) \/ RemoveRelation(o)
    \/ Sweep
    \/ Elapse

-----------------------------------------------------------------------------
AliasTypeOK ==
    /\ live \subseteq Identities
    /\ DOMAIN fate = Relations /\ Len(waiting) <= MaxPending
    /\ \A r \in DOMAIN edgeRefs : {r[1][2], r[1][3]} \subseteq live

(* A belief is held for as long as its speaker promised to repeat it, and one       *)
(* missed repetition: no longer through replays of the parked edge that carried it,  *)
(* and never without its alias knowing (record, sweep, aliasDeadline).               *)
BeliefsHeldAsPromised ==
    /\ speakers = said
    /\ \A a \in DOMAIN byAlias \cup {s[1].alias : s \in DOMAIN said} :
          candidates(byAlias, a) = {s[1].canonical : s \in {t \in DOMAIN said : t[1].alias = a}}

(* An edge reaches an entity under another name only while all who speak of that    *)
(* name agree on the entity (resolveEndpoint, flushPending).                         *)
agreedOn(id, as) ==
    id # as => \A k \in DOMAIN id : id[k] # as[k] =>
        LET about == {s \in DOMAIN said' : s[1].alias = <<k, id[k][2]>>}
        IN  about # {} /\ \A s \in about : as[k] = <<"string", s[1].canonical>>
DisputedNamesResolveNothing ==
    [][\A r \in DOMAIN edgeRefs' \ DOMAIN edgeRefs :
        \E o \in Relations : /\ <<o.type, o.speaker>> = <<r[1][1], r[2]>>
                             /\ agreedOn(o.from, r[1][2]) /\ agreedOn(o.to, r[1][3])]_aliasVars

(* No thing is related to itself because its names were folded together             *)
(* (resolveEndpoints, errEndpointsCollapsed).                                        *)
NeverRelatedToItself == \A r \in DOMAIN edgeRefs : r[1][2] # r[1][3]

(* An edge whose sender was told it arrived is in the buffer, was committed, was     *)
(* reported lost, or has left its belief in the index (dropPendingRelation).         *)
NothingLostSilently ==
    \A o \in Relations : fate[o] = "parked" => \E p \in ToSet(waiting) : p.obs = o

resolvesNow(o) == resolvable([live |-> live, index |-> byAlias], o)
undisputed(o) ==
    \A id \in {o.from, o.to} : \A k \in DOMAIN id : <<k, id[k][2]>> \notin disputed

(* A parked edge is committed by whichever comes last of its endpoints and the       *)
(* equivalences that name them, in any order, unless its names were ever disputed    *)
(* (rebuildPendingHashes, recordAliasLocked, observeEntityLocked).                   *)
WaitingEdgesMeet ==
    \A p \in ToSet(waiting) : undisputed(p.obs) /\ ~isPast(p.deadline) => ~resolvesNow(p.obs)

(* An entity that arrives under its canonical name commits the edges that wait for    *)
(* it under an alias (rebuildPendingHashes, observeEntityLocked).                     *)
landsNow(o) == landing([live |-> live, index |-> byAlias], o)
ArrivalsMeetWaitingEdges ==
    [][\A id \in live' \ live, p \in ToSet(waiting') :
         /\ ~isPast(p.deadline)
         /\ resolvesNow(p.obs)'
         => id \notin {landsNow(p.obs)'[2], landsNow(p.obs)'[3]}]_aliasVars

(* The alias index as its speakers and its readers rely on it: beliefs last as   *)
(* promised, disputed names resolve to nothing, no edge folds onto one thing,     *)
(* and a parked edge is committed or reported, never lost (alias.go,             *)
(* rebuildPendingHashes, recordAliasLocked).                                     *)
AliasesSound ==
    /\ [](/\ BeliefsHeldAsPromised /\ NeverRelatedToItself
          /\ NothingLostSilently /\ WaitingEdgesMeet)
    /\ DisputedNamesResolveNothing
============================================================================
