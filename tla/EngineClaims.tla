---------------------------- MODULE EngineClaims ----------------------------
(***************************************************************************)
(* What the change engine owes its producers, over the engine of module     *)
(* Engine.  A claim is a speaker's word on an entity or an edge: made by an *)
(* acknowledged observation, it holds until its speaker takes it back or    *)
(* its interval lapses.  The history variables below record the claims from *)
(* the calls alone, without reading refs and relRefs, so the properties     *)
(* compare what producers said with what the projection shows.              *)
(***************************************************************************)
EXTENDS Engine

VARIABLES claims,    \* thing and speaker -> deadline of the acknowledged claim
          draft,     \* the same with the calls of the running batch or sweep
          retracted  \* the claims the running batch has taken back at some point

claimVars == <<claims, draft, retracted>>

allVars == <<vars, claimVars>>

Things == Identities \cup Edges

Claim == Things \X Speakers

(* The deadline a declared interval asks for; 0 is no deadline. *)
due(declared) == IF promise(declared) > 0 THEN now + promise(declared) ELSE 0

(* An edge without an interval of its own lives as its speaker's claim on the  *)
(* source does.                                                                *)
edgeDue(d, edge, speaker, declared) ==
    IF promise(declared) > 0 THEN due(declared)
    ELSE IF d[<<edge[1], speaker>>] # None THEN d[<<edge[1], speaker>>] ELSE 0

speakerOf(producer) == <<producer, staged.scope>>

(* The claims d less those on edges whose endpoint the step deletes. *)
withoutDeadEdges(d) ==
    LET died(h) == /\ MatchIdentity(after, h) # None
                   /\ MatchIdentity(after', h) # MatchIdentity(after, h)
    IN  [c \in Claim |-> IF c[1] \in Edges /\ (died(c[1][1]) \/ died(c[1][2]))
                         THEN None ELSE d[c]]

(* The claims d with those of the parked edges the step commits. *)
withCommittedEdges(d) ==
    LET committed(c) == {p \in pending \ pending' :
                            /\ p.edge = c[1] /\ <<p.producer, p.scope>> = c[2]
                            /\ ~(now > p.deadline)}
    IN  [c \in Claim |->
            IF c[1] \in Edges /\ committed(c) # {}
            THEN edgeDue(d, c[1], c[2], lastOf(committed(c)).interval)
            ELSE d[c]]

ClaimsInit ==
    /\ Init
    /\ claims = [c \in Claim |-> None]
    /\ draft = [c \in Claim |-> None]
    /\ retracted = {}

ClaimsObserveEntity(p, h, a, i) ==
    /\ ObserveEntity(p, h, a, i)
    /\ draft' = withCommittedEdges([draft EXCEPT ![<<h, speakerOf(p)>>] = due(i)])
    /\ UNCHANGED <<claims, retracted>>

ClaimsDeleteEntity(p, h) ==
    /\ DeleteEntity(p, h)
    /\ draft' = withoutDeadEdges([draft EXCEPT ![<<h, speakerOf(p)>>] = None])
    /\ retracted' = retracted \cup {<<x, speakerOf(p)>> :
                          x \in {h} \cup {edge \in Edges : h \in {edge[1], edge[2]}}}
    /\ UNCHANGED claims

ClaimsObserveRelation(p, edge, a, i, j) ==
    /\ ObserveRelation(p, edge, a, i, j)
    /\ draft' = IF resolveEndpoints(staged, edge) = None THEN draft
                ELSE [draft EXCEPT ![<<edge, speakerOf(p)>>] =
                         edgeDue(draft, edge, speakerOf(p), i)]
    /\ UNCHANGED <<claims, retracted>>

ClaimsRemoveRelation(p, edge) ==
    /\ RemoveRelation(p, edge)
    /\ draft' = [draft EXCEPT ![<<edge, speakerOf(p)>>] = None]
    /\ retracted' = retracted \cup {<<edge, speakerOf(p)>>}
    /\ UNCHANGED claims

(* The batch or sweep is acknowledged: its claims stand. *)
Acknowledge ==
    /\ claims' = draft
    /\ retracted' = {}
    /\ UNCHANGED draft

(* It is not: what it took back is no claim any more, since its producer has   *)
(* said so, and a claim it renewed counts with the earlier deadline.           *)
Refuse ==
    LET earlier(x, y) == IF x = 0 THEN y ELSE IF y = 0 \/ x < y THEN x ELSE y
        standing == [c \in Claim |->
            IF c \in retracted \/ claims[c] = None THEN None
            ELSE IF draft[c] = None THEN claims[c]
            ELSE earlier(claims[c], draft[c])]
    IN  /\ claims' = standing
        /\ draft' = standing
        /\ retracted' = {}

ClaimsNext ==
    \/ (Begin \/ SweepBegin \/ Tick) /\ UNCHANGED claimVars
    \/ \E scope \in Scopes : SetScope(scope) /\ UNCHANGED claimVars
    \/ \E p \in Producers, h \in Identities, a \in Attributes, i \in Intervals :
          ClaimsObserveEntity(p, h, a, i)
    \/ \E p \in Producers, h \in Identities : ClaimsDeleteEntity(p, h)
    \/ \E p \in Producers, edge \in Edges, a \in Attributes, i \in EdgeIntervals,
         j \in Intervals : ClaimsObserveRelation(p, edge, a, i, j)
    \/ \E p \in Producers, edge \in Edges : ClaimsRemoveRelation(p, edge)
    \/ Flush /\ Acknowledge
    \/ FlushFail /\ Refuse
    \/ \E id \in EntityIDs :
          /\ SweepEntity(id)
          /\ draft' = withoutDeadEdges(draft)
          /\ UNCHANGED <<claims, retracted>>
    \/ SweepEnd(TRUE) /\ Acknowledge
    \/ SweepEnd(FALSE) /\ Refuse

ClaimsSpec == ClaimsInit /\ [][ClaimsNext]_allVars

-----------------------------------------------------------------------------
(* c is a claim that still holds. *)
Stands(c) == claims[c] # None /\ ~(claims[c] # 0 /\ now > claims[c])

(* ADR 0019: one speaker's delete, and one speaker's silence, never take away  *)
(* an entity that another speaker still claims.  Between batches and sweeps,   *)
(* an identity with a standing claim is live (deleteEntityLocked, Sweep).      *)
EntityClaimsHonoured ==
    mode = "idle" => \A c \in Claim : c[1] \in Identities /\ Stands(c) => EntityPresent(c[1])

(* The same for an edge: while its endpoints live, a removal or a silence of   *)
(* one speaker never takes away an edge another still claims                   *)
(* (removeRelationLocked, Sweep, removeIncidentRelations).                     *)
EdgeClaimsHonoured ==
    mode = "idle" => \A c \in Claim : c[1] \in Edges /\ Stands(c) => EdgePresent(c[1])
=============================================================================
