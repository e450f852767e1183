--------------------------- MODULE SharedEndpoints ---------------------------
(***************************************************************************)
(* How a RegionalWorkload's sharedEndpoint configuration is resolved,      *)
(* validated and turned into the Services it asks for: the pure half of    *)
(* the shared endpoint code of controllers/regionalworkload_controller.go. *)
(*                                                                         *)
(* A configuration is [enabled, mode, ip, endpoints, autoFailback];        *)
(* endpoints is a sequence of [name, ip].  "unset" is the empty string.    *)
(* autoFailback is resolved along with the others but nothing reads it.    *)
(* Names stand for themselves: Sanitized maps each name to what is left of *)
(* it in lower case with dashes, since only equality of the results counts.*)
(* A Service of workload w is the key <<w, slot>>: slot "only" is          *)
(* <w>-shared-endpoint, any other one is <w>-shared-endpoint-<slot>.  It   *)
(* is [owned, ip, ports]: owned when it carries the label of its workload. *)
(* Its selector is the target's, which cannot change, and is left out.     *)
(* A container port is [name, protocol, number].  A port name is a         *)
(* sequence: << >> is the empty one, <<"TCP", 80>> is tcp-80, whether made *)
(* by the controller or written by a user, any other s is <<s>>.           *)
(***************************************************************************)
EXTENDS Integers, Sequences

CONSTANTS
    EndpointNames,  \* endpoint names users may write
    Sanitized,      \* what sanitizeEndpointName makes of each
    Defaults        \* what the manager was started with: a configuration's other fields

EndpointType == [enabled : BOOLEAN, mode : STRING, ip : STRING,
                 endpoints : Seq([name : EndpointNames, ip : STRING]),
                 autoFailback : BOOLEAN]
Protocols == {"TCP", "UDP", "SCTP"}
PortNames == (Protocols \X Int) \cup Seq(STRING \cup {"http"})
PortType == [name : PortNames, protocol : Protocols \cup {"unset"}, number : Int]

ASSUME SharedEndpointsAssumption ==
    /\ "primary" \in EndpointNames
    /\ Defaults \in [enabled : BOOLEAN, mode : STRING, ip : STRING, autoFailback : BOOLEAN]
    /\ DOMAIN Sanitized = EndpointNames
    /\ \A n \in EndpointNames : Sanitized[n] # "only"

Or(value, default) == IF value = "unset" THEN default ELSE value

\* resolveSharedEndpointConfig: a configuration that says nothing at all takes
\* the manager's defaults; an IP alone is an endpoint named primary.
Resolve(cfg) ==
    LET silent == ~cfg.enabled /\ cfg.mode = "unset" /\ cfg.ip = "unset"
        ip == Or(cfg.ip, Defaults.ip)
    IN  [enabled |-> IF silent THEN Defaults.enabled ELSE cfg.enabled,
         mode |-> Or(cfg.mode, Defaults.mode),
         ip |-> ip,
         endpoints |-> IF cfg.endpoints = << >> /\ ip # "unset"
                         THEN <<[name |-> "primary", ip |-> ip]>>
                         ELSE cfg.endpoints,
         autoFailback |-> IF silent THEN Defaults.autoFailback ELSE cfg.autoFailback]

\* normalizeSharedEndpointTargets fails on an endpoint without an IP, and on two
\* with the same IP or with names that become the same.
Normalizable(cfg) ==
    /\ cfg.endpoints # << >>
    /\ \A i \in DOMAIN cfg.endpoints : cfg.endpoints[i].ip # "unset"
    /\ \A i, j \in DOMAIN cfg.endpoints :
          i # j => /\ cfg.endpoints[i].ip # cfg.endpoints[j].ip
                   /\ Sanitized[cfg.endpoints[i].name]
                         # Sanitized[cfg.endpoints[j].name]

\* sharedEndpointServiceName: a single target has no suffix.
Slot(cfg, i) ==
    IF Len(cfg.endpoints) = 1 THEN "only" ELSE Sanitized[cfg.endpoints[i].name]

\* buildSharedEndpointServices: the IP of each Service wanted for w.
Addresses(w, cfg) ==
    [k \in {<<w, Slot(cfg, i)>> : i \in DOMAIN cfg.endpoints} |->
        cfg.endpoints[CHOOSE i \in DOMAIN cfg.endpoints : Slot(cfg, i) = k[2]].ip]

\* extractServicePorts, for the ports of all containers in a row: of those with the
\* same protocol and number the first stands; without any there is http on 80.  A
\* port without a name gets one made of protocol and number, which another port may
\* bear already; order does not matter.
Protocol(p) == Or(p.protocol, "TCP")
PortName(p) == IF p.name = << >> THEN <<Protocol(p), p.number>> ELSE p.name
ExtractServicePorts(ports) ==
    LET usable == {i \in DOMAIN ports : ports[i].number > 0}
        Same(i, j) == /\ Protocol(ports[i]) = Protocol(ports[j])
                      /\ ports[i].number = ports[j].number
        first == {i \in usable : \A j \in usable : j < i => ~Same(i, j)}
    IN  IF usable = {}
          THEN {[name |-> <<"http">>, protocol |-> "TCP", number |-> 80]}
          ELSE {[name |-> PortName(ports[i]), protocol |-> Protocol(ports[i]),
                 number |-> ports[i].number] : i \in first}

\* The API server refuses a Service of which two ports have the same name.
Admissible(service) == \A p, q \in service.ports : p.name = q.name => p = q

\* The Services wanted for w when its target's containers have these ports.
Services(w, cfg, ports) ==
    LET addresses == Addresses(w, cfg)
    IN  [k \in DOMAIN addresses |->
            [owned |-> TRUE, ip |-> addresses[k], ports |-> ExtractServicePorts(ports)]]

ServicePortType == [name : PortNames, protocol : Protocols, number : Int]
ServiceType == [owned : BOOLEAN, ip : STRING, ports : SUBSET ServicePortType]

=============================================================================
