----------------------------- MODULE MCServices -----------------------------
(* The services around the engine, for TLC: OTLP ingest, log shipping,          *)
(* annotations, the data directory, the process and its readiness, and the     *)
(* subscriptions.                                                              *)
(*                                                                             *)
(* The components share no variable, so their product would only multiply      *)
(* interleavings: a behaviour chooses one of them at the start and the others  *)
(* stay in an initial state of theirs.                                         *)
EXTENDS Ingest, LogShip, Annotations, DataDir, Server, Readiness, Subscriptions, TLC

VARIABLE part

serviceVars == <<ingestVars, shipVars, annotationVars, dirVars, serverVars,
                 readinessVars, subVars>>

one(S) == CHOOSE x \in S : TRUE

ServicesInit ==
    /\ part \in {"ship", "annotations", "dir", "server", "readiness",
                 "subscriptions", "ingest"}
    /\ IngestInit /\ (part # "ingest" => buffered)
    /\ ShipInit /\ (part # "ship" => shipJobs = one(ShipDeployments))
    /\ AnnotationInit
    /\ part # "annotations" => annotated = one(AnnotationDeployments) /\ \A n \in Nodes : rows[n] = << >>
    /\ DirInit /\ (part # "dir" => dirFaults = one(DirDeployments) /\ files = << >> /\ tenantDirs = {})
    /\ ServerInit
    /\ ReadinessInit
    /\ SubsInit

ServicesNext ==
    /\ UNCHANGED part
    /\ IF part = "ingest" THEN IngestNext ELSE UNCHANGED ingestVars
    /\ IF part = "ship" THEN ShipNext ELSE UNCHANGED shipVars
    /\ IF part = "annotations" THEN AnnotationNext ELSE UNCHANGED annotationVars
    /\ IF part = "dir" THEN DirNext ELSE UNCHANGED dirVars
    /\ IF part = "server" THEN ServerNext ELSE UNCHANGED serverVars
    /\ IF part = "readiness" THEN ReadinessNext ELSE UNCHANGED readinessVars
    /\ IF part = "subscriptions" THEN SubsNext ELSE UNCHANGED subVars

ServicesSpec == ServicesInit /\ [][ServicesNext]_<<part, serviceVars>>

filters == ("s1" :> [on |-> "entity", type |-> "", change |-> "", structuralOnly |-> FALSE])
        @@ ("s2" :> [on |-> "relation", type |-> "", change |-> "added", structuralOnly |-> TRUE])
happenings == {[on |-> "entity", type |-> "t", change |-> "created", structural |-> FALSE]}
              \cup [on : {"relation"}, type : {"u"}, change : {"added"}, structural : BOOLEAN]

-----------------------------------------------------------------------------
(* Ingest: what each sender may send, one resource per tenant. *)
m1 == <<"p", "m1">>
m2 == <<"p", "m2">>
senders == {m1, m2}
state(e, ts) == [kind |-> "state", of |-> e, edges |-> ts, unknown |-> FALSE]
statex(e, ts) == [state(e, ts) EXCEPT !.unknown = TRUE]
del(e) == [kind |-> "delete", of |-> e]
inv == [kind |-> "invalid"]
oth == [kind |-> "other"]
res(t, rs) == [tenant |-> t, records |-> rs]
ingestExports ==
       m1 :> {<<res("a", <<state("e", {"t"}), inv>>)>>, <<res("a", <<state("e", {"u"}), state("e", {})>>)>>}
    @@ m2 :> {<<res("a", <<state("e", {"u"})>>), res("b", <<statex("e", {}), oth>>)>>,
              <<res("a", <<state("f", {"g", "t"}), state("g", {})>>)>>,
              <<res("a", <<inv, del("f")>>)>>}
(* An edge sent before its target; an entity two senders describe. *)
lateExports == m1 :> {<<res("a", <<state("e", {"f"}), state("f", {})>>)>>} @@ m2 :> {}
sharedExports == m1 :> {<<res("a", <<state("e", {"t"})>>)>>, <<res("a", <<del("e")>>)>>}
              @@ m2 :> {<<res("a", <<state("e", {"u"})>>)>>}
=============================================================================
