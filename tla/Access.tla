------------------------------- MODULE Access -------------------------------
(***************************************************************************)
(* Which tenant a request is served for and whether it may be: the bearer     *)
(* checks of internal/auth on the read surfaces and on OTLP ingest, tenant    *)
(* resolution (internal/tenant), OIDC claims (internal/oidc), the tenant      *)
(* router of cmd/toise-server and the scope of a metrics scrape.              *)
(*                                                                           *)
(* Abstractions.  A bearer is what it is bound to: a set of grants <<role,    *)
(* tenant>>, "*" being every tenant, or the claims of a JWT.  The debug UI's  *)
(* own tenant parameter is left out.                                         *)
(***************************************************************************)
EXTENDS Naturals, Sequences, FiniteSets

CONSTANTS AccessTenants, \* tenant ids
          DefaultTenant, \* where a request without one goes
          ExportTenants, \* the tenants the two resources of an export may name
          MaxGrants      \* bound: lists one bearer is on

VARIABLES policy,  \* the Authenticator's fields
          request, \* the request under way
          admission, \* how far it has come, for which tenant, and whether it may write
          opened,  \* tenants with an open stack
          effects  \* what it did: <<"read" | "write" | "ingest" | "scrape", tenant>>

accessVars == <<policy, request, admission, opened, effects>>

Roles == {"full", "read", "ingest"}
Grants == Roles \X (AccessTenants \cup {"*"})
Ids == AccessTenants \cup {"", "invalid"} \* a header or attribute: absent, malformed or an id

ASSUME AccessAssumption ==
    DefaultTenant \in AccessTenants /\ ExportTenants \subseteq Ids \X Ids /\ MaxGrants \in Nat

noBearer == [kind |-> "none", grants |-> {}, tenant |-> "", role |-> ""]
Bearers ==
    {noBearer}
    \cup [kind : {"token"}, grants : {g \in SUBSET Grants : Cardinality(g) <= MaxGrants},
          tenant : {""}, role : {""}]
    \cup [kind : {"jwt"}, grants : {{}}, tenant : Ids, role : Roles \cup {"other"}]

(* OIDC is off, declared but not verifying in this process, or verifying, with *)
(* or without a role claim.                                                    *)
Policies == [others : BOOLEAN, oidc : {"off", "declared", "roles", "plain"},
             deriveOnly : BOOLEAN, ingestMTLSOnly : BOOLEAN, unauthenticatedWrites : BOOLEAN]

arrivedRequest == [at |-> "arrived", tenant |-> "", writable |-> FALSE]

AccessInit ==
    /\ policy \in Policies
    /\ policy.ingestMTLSOnly => ~policy.deriveOnly /\ policy.others
    /\ request \in [path : {"/graphql", "/metrics", "/healthz"}, bearer : Bearers,
                    header : Ids, resources : {<<>>}]
                   \cup [path : {"export"}, bearer : Bearers, header : Ids,
                         resources : ExportTenants]
    /\ admission = arrivedRequest
    /\ opened \in {{DefaultTenant}, AccessTenants}
    /\ effects = {}

-----------------------------------------------------------------------------
Enabled == policy.others \/ request.bearer.grants # {} \/ policy.oidc # "off"

UnauthenticatedWritesAllowed == policy.unauthenticatedWrites /\ ~Enabled

Sanitize(id) == IF id = "" THEN DefaultTenant ELSE id

usableTenant(id) == id # "invalid"

holds(role, t) == <<role, t>> \in request.bearer.grants

(* The surfaces' own role lists, and full, which is on both. *)
valid(role) == \E t \in AccessTenants \cup {"*"} : holds("full", t) \/ holds(role, t)

allowedForTenant(t, role) == \E w \in {"*", t} : holds("full", w) \/ holds(role, w)

(* The tenant a scoped bearer is bound to: none for an operator's bearer or for *)
(* one bound to several tenants.                                                *)
TenantForBearer ==
    LET bound == {t \in AccessTenants : \E r \in Roles : holds(r, t)}
    IN  IF Cardinality(bound) = 1 /\ ~\E r \in Roles : holds(r, "*")
        THEN CHOOSE t \in bound : TRUE
        ELSE ""

(* Mutant: the claim's tenant is not what the request is served for. *)
EffectiveTenantUnclaimed(resolved) ==
    IF policy.deriveOnly /\ Enabled /\ TenantForBearer # "" THEN TenantForBearer
    ELSE Sanitize(request.header)

EffectiveTenant(resolved) ==
    IF resolved # "" THEN resolved
    ELSE IF policy.deriveOnly /\ Enabled /\ TenantForBearer # "" THEN TenantForBearer
    ELSE Sanitize(request.header)

canWriteHeader == \E t \in AccessTenants \cup {"*"} : holds("full", t)

(* oidc.Verify: the tenant and role a JWT's claims give it, if they give any. *)
verified ==
    LET b == request.bearer
        role == IF policy.oidc = "roles" THEN b.role ELSE "full"
    IN  IF /\ policy.oidc \in {"roles", "plain"} /\ b.kind = "jwt"
           /\ b.tenant \in AccessTenants /\ role \in Roles
        THEN {<<b.tenant, role>>}
        ELSE {}

refuse == admission' = [admission EXCEPT !.at = "refused"]
admit(t, w) == admission' = [at |-> "admitted", tenant |-> t, writable |-> w]

(* HTTPMiddleware.  serving.tenant is what the middleware stamps: "" unless a   *)
(* verified claim names it.                                                     *)
HTTPMiddleware ==
    /\ request.path # "export"
    /\ admission.at = "arrived"
    /\ \/ ~Enabled /\ admit("", UnauthenticatedWritesAllowed)
       \/ Enabled /\ request.path = "/healthz" /\ admit("", FALSE)
       \/ /\ Enabled /\ request.path # "/healthz" /\ valid("read")
          /\ LET t == EffectiveTenant("")
             IN  IF usableTenant(t) /\ request.path # "/metrics" /\ ~allowedForTenant(t, "read")
                 THEN refuse
                 ELSE admit("", canWriteHeader)
       \/ /\ Enabled /\ request.path # "/healthz" /\ ~valid("read")
          /\ \E v \in verified :
               IF v[2] = "ingest" THEN refuse ELSE admit(v[1], v[2] = "full")
       \/ Enabled /\ request.path # "/healthz" /\ ~valid("read") /\ verified = {} /\ refuse
    /\ UNCHANGED <<policy, request, opened, effects>>

(* The router: resolve the tenant again, serve it from its open stack or not at *)
(* all, and let a handler that may write do so.                                 *)
ServeHTTP ==
    LET t == EffectiveTenant(admission.tenant)
    IN  /\ request.path = "/graphql"
        /\ admission.at = "admitted"
        /\ IF usableTenant(t) /\ t \in opened
           THEN /\ admission' = [admission EXCEPT !.at = "done", !.tenant = t]
                /\ \E done \in {{"read"}} \cup (IF admission.writable THEN {{"read", "write"}} ELSE {}) :
                     effects' = done \X {t}
           ELSE refuse /\ UNCHANGED effects
        /\ UNCHANGED <<policy, request, opened>>

MetricsScope ==
    IF ~Enabled THEN AccessTenants
    ELSE IF admission.tenant # "" THEN {admission.tenant}
    ELSE IF holds("full", "*") \/ holds("read", "*") THEN AccessTenants
    ELSE {TenantForBearer} \ {""}

Scrape ==
    /\ request.path = "/metrics"
    /\ admission.at = "admitted"
    /\ admission' = [admission EXCEPT !.at = "done"]
    /\ effects' = {"scrape"} \X MetricsScope
    /\ UNCHANGED <<policy, request, opened>>

Probe ==
    /\ request.path = "/healthz"
    /\ admission.at = "admitted"
    /\ admission' = [admission EXCEPT !.at = "done"]
    /\ UNCHANGED <<policy, request, opened, effects>>

-----------------------------------------------------------------------------
(* The gRPC interceptor, and Export's base tenant. *)
checkContext ==
    /\ request.path = "export"
    /\ admission.at = "arrived"
    /\ IF ~policy.ingestMTLSOnly /\ Enabled /\ ~valid("ingest") THEN refuse
       ELSE IF ~usableTenant(EffectiveTenant("")) THEN refuse
       ELSE admit(EffectiveTenant(""), TRUE)
    /\ UNCHANGED <<policy, request, opened, effects>>

locked == policy.deriveOnly /\ Enabled /\ TenantForBearer # ""

AllowedForTenantGRPC(t) ==
    policy.ingestMTLSOnly \/ ~Enabled \/ allowedForTenant(t, "ingest")

(* One ResourceLogs of the export: its own tenant attribute, unless the tenant  *)
(* is locked, then the check and the write.  A refusal ends the export and      *)
(* keeps what earlier resources wrote.                                          *)
ExportResource ==
    LET attr == Head(request.resources)
        t == IF attr # "" /\ ~locked THEN Sanitize(attr) ELSE admission.tenant
    IN  /\ request.path = "export"
        /\ admission.at = "admitted"
        /\ request.resources # <<>>
        /\ request' = [request EXCEPT !.resources = Tail(@)]
        /\ IF ~usableTenant(t) \/ ~AllowedForTenantGRPC(t)
           THEN refuse /\ UNCHANGED <<opened, effects>>
           ELSE /\ opened' = opened \cup {t}
                /\ effects' = effects \cup {<<"ingest", t>>}
                /\ UNCHANGED admission
        /\ UNCHANGED policy

AccessNext == HTTPMiddleware \/ ServeHTTP \/ Scrape \/ Probe \/ checkContext \/ ExportResource

-----------------------------------------------------------------------------
AccessTypeOK ==
    /\ admission.at \in {"arrived", "admitted", "refused", "done"}
    /\ admission.writable \in BOOLEAN
    /\ effects \subseteq {"read", "write", "ingest", "scrape"} \X AccessTenants

(* What the request's bearer entitles it to do to a tenant. *)
entitled(what, t) ==
    \/ ~Enabled
    \/ what = "ingest" /\ policy.ingestMTLSOnly
    \/ allowedForTenant(t, IF what = "ingest" THEN "ingest" ELSE "read")
    \/ \E v \in verified : v[1] = t /\ what # "ingest"

(* The tenant the middleware checked is the tenant the router serves: whatever   *)
(* the trust mode, nothing is read, written, scraped or ingested for a tenant    *)
(* that the bearer is not bound to (HTTPMiddleware, EffectiveTenantHTTP, Export). *)
ServedAsAuthorised == \A e \in effects : entitled(e[1], e[2])

(* A bearer that is on read and ingest lists alone, or a claim of those roles,    *)
(* writes nothing on the read surfaces (canWriteHeader, HTTPMiddleware).         *)
ReadersNeverWrite ==
    \A e \in effects : e[1] = "write" =>
        IF Enabled THEN \/ \E g \in request.bearer.grants : g[1] = "full"
                        \/ \E v \in verified : v[2] = "full"
        ELSE policy.unauthenticatedWrites

(* Under derive-only, a bearer bound to one tenant is served for it whatever     *)
(* header or attribute the client sends: a stray or malformed one neither         *)
(* redirects nor refuses the request (EffectiveTenantHTTP/GRPC, Export).          *)
DerivedTenantWins ==
    LET role == IF request.path = "export" THEN "ingest" ELSE "read"
    IN  policy.deriveOnly /\ TenantForBearer \in opened /\ valid(role) =>
            /\ admission.at # "refused"
            /\ \A e \in effects : e[2] = TenantForBearer

(* Every request is served for a tenant and in a role its bearer was given, and  *)
(* never refused for a header it need not have sent (HTTPMiddleware,             *)
(* EffectiveTenantHTTP/GRPC, Export).                                            *)
AccessAsConfigured ==
    ServedAsAuthorised /\ ReadersNeverWrite /\ DerivedTenantWins
=============================================================================
