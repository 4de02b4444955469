----------------------------- MODULE Endpoints -----------------------------
(***************************************************************************)
(* From an observed connection to the thing at its other end: the endpoint     *)
(* identity a producer derives for its peer (pkg/emit/endpoint.go) and the       *)
(* read-time resolution of that endpoint over the topology registered by         *)
(* others (internal/mcp/resolve.go), which comes and goes meanwhile.             *)
(*                                                                           *)
(* Abstractions.  An address is a record: the peer it denotes, its scope, and    *)
(* how it is spelled (IPv4-mapped, upper-case, zone).  Listings are in the order  *)
(* of ids, which says nothing of the things: the first is any of them.           *)
(***************************************************************************)
EXTENDS Integers, FiniteSets

CONSTANTS Machines,   \* [id, host]: hosts and the host.id they are known by
          Services,   \* [id, on, port, proto, bind]: listeners, the host they run on,
                      \* proto "" when not encoded, bind their listen.address
          Bindings,   \* [address, of]: network addresses and the host whose interface
                      \* they are bound to
          Connections, \* [from, to, port, transport]: peers a producer may report
          MaxReported \* bound: endpoints reported

VARIABLES up,       \* ids of hosts and listeners that are live
          bound,    \* the bindings known to the graph
          reported, \* endpoints asserted: [identity, connection]
          resolved  \* <<endpoint, [kind, thing]>> of the last resolution

endpointVars == <<up, bound, reported, resolved>>

nowhere == [kind |-> "nothing"]
unresolved == <<>>

EndpointsInit ==
    /\ up \in SUBSET {m.id : m \in Machines}
    /\ bound = {} /\ reported = {} /\ resolved = unresolved

-----------------------------------------------------------------------------
(* DependsOnEndpoint: the three-key identity, the address as spelled. *)
DependsOnEndpoint(address, c) ==
    [address |-> address, port |-> c.port, transport |-> c.transport, host |-> ""]

(* netip: a mapped literal is unmapped and loses its zone, an IPv6 one is rendered  *)
(* in its one text form; the zone is lower-cased.  A name is not an address.         *)
canonicalAddress(a) ==
    IF a.scope = "name" THEN a
    ELSE [a EXCEPT !.mapped = FALSE, !.upper = FALSE,
                   !.zone = IF a.mapped THEN "" ELSE IF @ = "ETH0" THEN "eth0" ELSE @]

DependsOnLocalEndpoint(c) ==
    LET e == DependsOnEndpoint(canonicalAddress(c.to), c)
    IN  IF c.to.scope \in {"loopback", "linklocal"} THEN [e EXCEPT !.host = c.from] ELSE e

Report(c) ==
    /\ Cardinality(reported) < MaxReported
    /\ reported' = reported \cup {[identity |-> DependsOnLocalEndpoint(c), connection |-> c]}
    /\ resolved' = unresolved
    /\ UNCHANGED <<up, bound>>

(* The topology changes: a listener runs on a live host and goes with it, and a      *)
(* binding leads through the host's interface.                                      *)
Appear(id) ==
    /\ id \notin up
    /\ \A s \in Services : s.id = id => s.on \in up
    /\ up' = up \cup {id}
    /\ resolved' = unresolved
    /\ UNCHANGED <<bound, reported>>

Vanish(id) ==
    /\ id \in up
    /\ up' = up \ ({id} \cup {s.id : s \in {t \in Services : t.on = id}})
    /\ bound' = {b \in bound : b.of # id}
    /\ resolved' = unresolved
    /\ UNCHANGED reported

Bind(b) ==
    /\ b.of \in up
    /\ bound' = bound \cup {b}
    /\ resolved' = unresolved
    /\ UNCHANGED <<up, reported>>

-----------------------------------------------------------------------------
(* Mutant: a listener of any transport will do. *)
protoMismatchNever(s, transport) == FALSE

protoMismatch(s, transport) == s.proto # "" /\ transport # "" /\ s.proto # transport

listening(s, port, transport) ==
    s.id \in up /\ (port = "" \/ s.port = port) /\ ~protoMismatch(s, transport)

listenerByBind(e) ==
    {s \in Services : s.bind = e.address /\ listening(s, e.port, e.transport)}

hostByID(h) == {m \in Machines : m.id \in up /\ m.host = h}

hostForAddress(address) ==
    {m \in Machines : m.id \in up /\ \E b \in bound : b.address = address /\ b.of = m.id}

listenerOnHostPort(m, e) ==
    {s \in Services : s.on = m.id /\ e.port # "" /\ listening(s, e.port, e.transport)}

listeners(found) == {[kind |-> "listener", thing |-> s] : s \in found}

onHost(hosts, e) ==
    IF hosts = {} THEN {nowhere}
    ELSE UNION {IF listenerOnHostPort(m, e) = {} THEN {[kind |-> "host", thing |-> m]}
                ELSE listeners(listenerOnHostPort(m, e)) : m \in hosts}

(* resolveEndpoint: a host-scoped endpoint on its host alone, any other by a          *)
(* listener that binds its address or else by a host that owns it.                    *)
resolveEndpointAddress(e) ==
    IF e.host # "" THEN onHost(hostByID(e.host), e)
    ELSE IF listenerByBind(e) # {} THEN listeners(listenerByBind(e))
    ELSE onHost(hostForAddress(e.address), e)

ResolveReported(r) ==
    /\ \E a \in resolveEndpointAddress(r.identity) : resolved' = <<r, a>>
    /\ UNCHANGED <<up, bound, reported>>

EndpointsNext ==
    \/ \E c \in Connections : Report(c)
    \/ \E t \in Machines \cup Services : Appear(t.id) \/ Vanish(t.id)
    \/ \E b \in Bindings : Bind(b)
    \/ \E r \in reported : ResolveReported(r)

EndpointsSpec == EndpointsInit /\ [][EndpointsNext]_endpointVars

-----------------------------------------------------------------------------
(* Live things are known ones, and a listener lives with its host. *)
EndpointsTypeOK ==
    /\ up \subseteq {t.id : t \in Machines \cup Services}
    /\ \A s \in Services : s.id \in up => s.on \in up
    /\ bound \subseteq Bindings
    /\ {r.connection : r \in reported} \subseteq Connections

(* One peer seen from one host is one endpoint however its address was spelled,      *)
(* and a peer of narrower scope than the fleet is never the same endpoint as         *)
(* another host's (DependsOnLocalEndpoint).                                           *)
OnePeerOneEndpoint ==
    \A r, q \in reported :
        LET c == r.connection
            d == q.connection
        IN  c.port = d.port /\ c.transport = d.transport =>
              /\ c.to.peer = d.to.peer /\ c.from = d.from => r.identity = q.identity
              /\ c.to.scope \in {"loopback", "linklocal"} /\ c.from # d.from => r.identity # q.identity

(* What an endpoint resolves to could have taken the connection (resolveEndpoint):   *)
(* a local peer is found on the observing host only, a listener has the port and no   *)
(* other transport, and a fleet-wide address is the listener's own or its host's.     *)
ResolvedCouldAnswer ==
    resolved # unresolved =>
        LET c == resolved[1].connection
            a == resolved[2]
            at == IF a.kind = "listener" THEN a.thing.on ELSE IF a.kind = "host" THEN a.thing.id ELSE 0
        IN  a.kind # "nothing" =>
              /\ a.thing.id \in up
              /\ c.to.scope \in {"loopback", "linklocal"} => \E m \in Machines : m.id = at /\ m.host = c.from
              /\ a.kind = "listener" => a.thing.port = c.port /\ a.thing.proto \in {"", c.transport}
              /\ c.to.scope = "global" =>
                    \/ a.kind = "listener" /\ a.thing.bind.peer = c.to.peer
                    \/ \E b \in bound : b.of = at /\ b.address.peer = c.to.peer

(* An observed peer becomes one endpoint, and an endpoint resolves to what could  *)
(* have answered (DependsOnLocalEndpoint, resolveEndpoint).                       *)
EndpointsSound ==
    OnePeerOneEndpoint /\ ResolvedCouldAnswer
=============================================================================
