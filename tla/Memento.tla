------------------------------ MODULE Memento ------------------------------
(***************************************************************************)
(* The liveness bookkeeping of one entity or edge across restarts             *)
(* (internal/change): the references its speakers hold, the sweep that lets    *)
(* them lapse, the memento that rides on the projection snapshot and what a     *)
(* boot restores from it, written by this build or by an earlier one.          *)
(*                                                                           *)
(* Abstractions.  A deadline is the time left to it, so that the clock needs   *)
(* no bound: a tick brings all of them closer, the stored ones too, and a past  *)
(* one stays past.  alive is what the event log says, which survives a stop.    *)
(***************************************************************************)
EXTENDS Integers, Sequences, FiniteSets, FiniteSetsExt

CONSTANTS Speakers,   \* <<producer, scope>> pairs, the scope "" when unnamed
          Promises,   \* intervals a speaker may declare
          MaxPromise, \* maxPlausibleLivenessPromise
          MementoDeployments, \* [format, stops]: the memento the server finds at its
                      \* first boot, and the ways it stops: "graceful", "crash"
          MaxStops    \* bound: stops of the server

ASSUME MementoAssumption ==
    /\ Promises \subseteq Nat /\ MaxPromise \in Nat /\ MaxStops \in Nat
    /\ MementoDeployments \subseteq [format : {"none", "speakers", "undeclared", "producers"},
                                     stops : SUBSET {"graceful", "crash"}]

VARIABLES thing,     \* "entity" or "edge"
          format,    \* of the memento found at the first boot
          stops,     \* <<how the server may stop, how often it has>>
          running,   \* the server runs
          lives,     \* the thing is live in the event log
          refs,      \* Engine.refs[id] or relRefs[id], by speaker key
          blob,      \* the memento of the last snapshot: declares speaker keys, refs
          quiet,     \* speakers that will not speak again
          claims     \* history: who asserted the thing and has not withdrawn, with the
                     \* time left since it last spoke, or since a boot after that; a
                     \* crash takes it back to the last snapshot

mementoVars == <<thing, format, stops, running, lives, refs, blob, quiet, claims>>

noClaims == <<>>

(* refKey and splitRefKey: a speaker without a method is keyed by its producer   *)
(* alone, as every speaker was before keys had methods.                         *)
refKey(s) == IF s[2] = "" THEN <<s[1]>> ELSE s
splitRefKey(k) == IF Len(k) = 1 THEN <<k[1], "">> ELSE k

(* A reference: what is left to its deadline if it has one, the interval that    *)
(* armed it, and whether its method is unknowable.                               *)
liveRef(interval) ==
    [armed |-> interval > 0, left |-> interval, interval |-> interval, legacy |-> FALSE]

lapsed(ref) == ref.armed /\ ref.left < 0
closer(fs) == [k \in DOMAIN fs |-> IF fs[k].armed /\ fs[k].left >= 0
                                   THEN [fs[k] EXCEPT !.left = @ - 1] ELSE fs[k]]
with(f, k, v) == [x \in DOMAIN f \cup {k} |-> IF x = k THEN v ELSE f[x]]
less(f, ks) == [x \in DOMAIN f \ ks |-> f[x]]

plausiblePromise(declared) == IF declared <= MaxPromise THEN declared ELSE 0

-----------------------------------------------------------------------------
(* A first boot from a memento in which one or two speakers were recorded: by    *)
(* key, or by producer alone in the older format.                                *)
FirstBoots ==
    {[who |-> who, of |-> of] : who \in {S \in SUBSET Speakers : Cardinality(S) \in 1..2},
                                of \in {liveRef(i) : i \in Promises}
                                       \cup {[liveRef(i) EXCEPT !.left = -1] : i \in Promises \ {0}}}

recordedAs(f, s) == IF f = "producers" THEN <<s[1], "">> ELSE s

MementoInit ==
    /\ thing \in {"entity", "edge"}
    /\ \E d \in MementoDeployments : format = d.format /\ stops = <<d.stops, 0>>
    /\ refs = noClaims
    /\ quiet = {}
    /\ \/ /\ format = "none"
          /\ running = TRUE /\ lives = FALSE /\ claims = noClaims
          /\ blob = [speakerKeys |-> TRUE, refs |-> noClaims]
       \/ /\ format # "none"
          /\ running = FALSE /\ lives = TRUE
          /\ \E b \in FirstBoots :
               /\ format = "undeclared" => \E s \in b.who : s[2] # ""
               /\ blob = [speakerKeys |-> format = "speakers",
                          refs |-> [k \in {refKey(recordedAs(format, s)) : s \in b.who} |-> b.of]]
               /\ claims = [s \in {recordedAs(format, s) : s \in b.who} |->
                               [b.of EXCEPT !.legacy = format = "producers"]]

-----------------------------------------------------------------------------
(* observeEntityLocked, observeRelationLocked: the speaker's own reference. *)
AssertClaim(s) ==
    /\ running /\ s \notin quiet
    /\ \E declared \in Promises :
         LET ref == liveRef(plausiblePromise(declared))
         IN  refs' = with(refs, refKey(s), ref) /\ claims' = with(claims, s, ref)
    /\ lives' = TRUE
    /\ UNCHANGED <<thing, format, stops, running, blob, quiet>>

(* Mutant: a producer's retraction releases all of its methods. *)
releaseSpeakerAll(s) == less(refs, {k \in DOMAIN refs : splitRefKey(k)[1] = s[1]})

releaseSpeaker(s) ==
    less(refs, {refKey(s)} \cup {k \in DOMAIN refs : refs[k].legacy /\ splitRefKey(k)[1] = s[1]})

(* Claims from a memento without methods are their producer's, not a method's. *)
ofProducer(s) == {c \in DOMAIN claims : claims[c].legacy /\ c[1] = s[1]}

(* deleteEntityLocked, removeRelationLocked: the thing goes with its last        *)
(* reference.                                                                    *)
Withdraw(s) ==
    /\ running /\ lives /\ s \notin quiet
    /\ s \in DOMAIN claims \/ ofProducer(s) # {}
    /\ refs' = releaseSpeaker(s)
    /\ lives' = (refs' # noClaims)
    /\ claims' = IF lives' THEN less(claims, {s} \cup ofProducer(s)) ELSE noClaims
    /\ UNCHANGED <<thing, format, stops, running, blob, quiet>>

(* One liveness pass: lapsed references go, and the thing with the last of them. *)
SweepClaims ==
    LET stale == {k \in DOMAIN refs : lapsed(refs[k])}
    IN  /\ running
        /\ refs' = less(refs, stale)
        /\ lives' = (lives /\ (stale = {} \/ refs' # noClaims))
        /\ claims' = IF lives' THEN less(claims, {s \in DOMAIN claims : lapsed(claims[s])}) ELSE noClaims
        /\ UNCHANGED <<thing, format, stops, running, blob, quiet>>

GoSilent(s) ==
    /\ s \notin quiet
    /\ quiet' = quiet \cup {s}
    /\ UNCHANGED <<thing, format, stops, running, lives, refs, blob, claims>>

Tick ==
    /\ refs' = closer(refs) /\ claims' = closer(claims)
    /\ blob' = [blob EXCEPT !.refs = closer(@)]
    /\ UNCHANGED <<thing, format, stops, running, lives, quiet>>

-----------------------------------------------------------------------------
LivenessBlob == [speakerKeys |-> TRUE, refs |-> refs]

SnapshotWritten ==
    /\ running
    /\ blob' = LivenessBlob
    /\ UNCHANGED <<thing, format, stops, running, lives, refs, quiet, claims>>

(* The claims a crash leaves: those of the last snapshot, as it has them. *)
rememberedClaims ==
    [s \in {t \in DOMAIN claims : refKey(t) \in DOMAIN blob.refs} |-> blob.refs[refKey(s)]]

(* A graceful stop writes a last snapshot; a crash does not. *)
Stop ==
    /\ running /\ stops[2] < MaxStops
    /\ stops' = [stops EXCEPT ![2] = @ + 1]
    /\ running' = FALSE
    /\ refs' = noClaims
    /\ \/ "graceful" \in stops[1] /\ blob' = LivenessBlob /\ UNCHANGED claims
       \/ "crash" \in stops[1] /\ blob' = blob /\ claims' = rememberedClaims
    /\ UNCHANGED <<thing, format, lives, quiet>>

carriesAnyCompositeKey == \E k \in DOMAIN blob.refs : splitRefKey(k)[2] # ""

floorDeadline(ref, interval) ==
    [ref EXCEPT !.interval = interval,
                !.left = IF ref.armed /\ interval > 0 /\ @ < interval THEN interval ELSE @]

(* RestoreLiveness.  An entity's refused promise stays refused, and its deadline  *)
(* goes with it.                                                                 *)
restored ==
    LET legacy == ~blob.speakerKeys /\ ~carriesAnyCompositeKey
        kept(ref) == IF thing = "entity" THEN plausiblePromise(ref.interval) ELSE ref.interval
        armed(ref) == ref.armed /\ ~(kept(ref) = 0 /\ ref.interval > 0)
    IN  [k \in DOMAIN blob.refs |->
            LET ref == blob.refs[k]
            IN  [floorDeadline([ref EXCEPT !.armed = armed(ref)], kept(ref))
                    EXCEPT !.legacy = legacy /\ splitRefKey(k)[2] = ""]]

Boot ==
    /\ ~running
    /\ running' = TRUE
    /\ refs' = restored
    /\ claims' = [s \in DOMAIN claims |->
                     LET c == claims[s]
                     IN  IF thing = "entity" /\ c.interval > MaxPromise
                         THEN [liveRef(0) EXCEPT !.legacy = c.legacy]
                         ELSE [c EXCEPT !.left = IF c.armed THEN c.interval ELSE 0]]
    /\ UNCHANGED <<thing, format, stops, lives, blob, quiet>>

(* What readers are told of a thing's speakers: the producers and methods that      *)
(* have names, how many references have none, and the coarsest interval.            *)
producersOfClaims == {splitRefKey(k)[1] : k \in DOMAIN refs} \ {""}
scopesOfClaims == {splitRefKey(k)[2] : k \in DOMAIN refs} \ {""}
anonymousClaims == Cardinality({k \in DOMAIN refs : splitRefKey(k)[1] = ""})
claimInterval == Max({refs[k].interval : k \in DOMAIN refs} \cup {0})

MementoNext ==
    \/ \E s \in Speakers : AssertClaim(s) \/ Withdraw(s) \/ GoSilent(s)
    \/ SweepClaims \/ Tick \/ SnapshotWritten \/ Stop \/ Boot

(* The sweep ticker and the process manager keep running, and time passes. *)
MementoFairness == WF_mementoVars(SweepClaims) /\ WF_mementoVars(Tick) /\ WF_mementoVars(Boot)

-----------------------------------------------------------------------------
MementoTypeOK ==
    /\ running \in BOOLEAN /\ lives \in BOOLEAN
    /\ \A k \in DOMAIN refs : refs[k].left \in -1..3 /\ refs[k].interval \in Promises
    /\ DOMAIN claims \subseteq Speakers

(* The thing ends only when nobody stands by it: every speaker that asserted it    *)
(* has withdrawn or been silent for its interval, counted anew from a boot; what    *)
(* was said between the last snapshot and a crash is all that is forgotten.  One    *)
(* method's retraction never ends another's claim, nor a sweep after downtime the   *)
(* claim of a producer that had no time to speak (releaseSpeaker, Sweep,            *)
(* RestoreLiveness).                                                                *)
EndsOnlyUnclaimed ==
    [][lives /\ ~lives' =>
        \/ \A c \in DOMAIN claims : lapsed(claims[c])
        \/ \E s \in Speakers :
              /\ Withdraw(s)
              /\ \A c \in DOMAIN claims \ ({s} \cup ofProducer(s)) : lapsed(claims[c])]_mementoVars

(* Readers are told who stands by the thing and how often they promised to speak,   *)
(* across a graceful restart too: each producer once, nobody who withdrew, and a    *)
(* reader who is told of no one knows that no one asserts it (AssertingProducers,   *)
(* AssertingScopes, AnonymousReferences, ObservationInterval, RestoreLiveness).     *)
(* After a crash, a word since the last snapshot is forgotten, a withdrawal too.    *)
ReadersSeeClaims ==
    running /\ lives /\ "crash" \notin stops[1] =>
        /\ producersOfClaims = {s[1] : s \in DOMAIN claims} \ {""}
        /\ scopesOfClaims = {s[2] : s \in DOMAIN claims} \ {""}
        /\ claimInterval = Max({claims[s].interval : s \in DOMAIN claims} \cup {0})
        /\ claims # noClaims => producersOfClaims # {} \/ anonymousClaims > 0

(* The thing does not outlive its claims: whoever withdraws last ends it, also      *)
(* when the claim came from an older memento (releaseSpeaker,                       *)
(* carriesAnyCompositeKey).                                                         *)
LastWithdrawalEnds == running /\ lives => claims # noClaims

(* A thing whose speakers have all gone silent, each after promising to speak       *)
(* again, is gone in the end, whenever they went (Sweep, RestoreLiveness).          *)
SilenceEnds ==
    MementoFairness =>
    (/\ lives /\ quiet = Speakers
     /\ \A s \in DOMAIN claims : claims[s].armed /\ claims[s].interval <= MaxPromise) ~> ~lives

(* Across restarts, claims end when their speakers end them and readers are told   *)
(* of them as they stand (LivenessBlob, RestoreLiveness, releaseSpeaker).         *)
ClaimsOutliveRestarts ==
    EndsOnlyUnclaimed /\ []ReadersSeeClaims
=============================================================================
