------------------------- MODULE EndpointExchange -------------------------
(***************************************************************************)
(* How a node's network endpoint is found, sent and used: GetHostname,     *)
(* ResolveHostname and CanEstablishConnection (src/network/kernel/         *)
(* utils.cpp), the slk Save and Load of an Endpoint (src/network/kernel/   *)
(* serialization.hpp), and the RpcFailedException that carries the        *)
(* endpoint of a failed call (src/lib/rpc/exceptions.hpp).                 *)
(*                                                                         *)
(* One node names a host (its own hostname, or a configured name),        *)
(* resolves it, builds the Endpoint from the address and a port, and      *)
(* saves it into an slk stream; a peer loads it and connects; a failed    *)
(* connection is reported as RpcFailedException(endpoint).                 *)
(*                                                                         *)
(* The resolver is a table: getaddrinfo(name) with AF_UNSPEC and          *)
(* SOCK_STREAM gives a sequence of [family, addr] entries, empty when it  *)
(* fails. inet_ntop is the table of each address's canonical text. An     *)
(* slk stream is the sequence of the primitive values saved into it, each *)
(* with its C++ type; loading a value as another type yields Garbage.     *)
(* The Endpoint constructor and slk itself are outside the repository:    *)
(* the endpoint is the record of its three fields.                        *)
(***************************************************************************)
EXTENDS Integers, Sequences

CONSTANTS
    Names,      \* host names and address literals a node may resolve
    IpLiterals, \* the members of Names that are IPv4 or IPv6 address literals
    Self,       \* what gethostname() returns on the node
    Lookup,     \* [Names -> Seq([family, addr])]: getaddrinfo's result list
    Text4,      \* inet_ntop(AF_INET, ...): IPv4 address -> text
    Text6,      \* inet_ntop(AF_INET6, ...): IPv6 address -> text
    Ports,      \* ports an endpoint may carry
    Reachable,  \* addresses a Socket can connect to
    None,       \* no value
    Garbage     \* a value read with the wrong type

VARIABLES
    phase,     \* the step the exchange has reached
    hostName,  \* GetHostname(): Self or None (std::nullopt)
    name,      \* the name passed to ResolveHostname
    endpoint,  \* the endpoint the node built and saved
    stream,    \* the slk stream between the node and the peer
    loaded,    \* the endpoint the peer loaded
    error      \* None, or the RpcFailedException thrown

vars == <<phase, hostName, name, endpoint, stream, loaded, error>>

Texts == {Text4[a] : a \in DOMAIN Text4} \cup {Text6[a] : a \in DOMAIN Text6}

\* inet_ntop of the sockaddr's address bytes, read as the given family:
\* bytes of the other family's sockaddr do not hold one of its addresses.
Ntop4(a) == IF a \in DOMAIN Text4 THEN Text4[a] ELSE Garbage
Ntop6(a) == IF a \in DOMAIN Text6 THEN Text6[a] ELSE Garbage

\* Mutant: every entry read as a sockaddr_in.
ResolveHostnameV4Only(h) ==
    IF Lookup[h] = <<>> THEN None
    ELSE Ntop4(Head(Lookup[h]).addr)

\* Mutant: a failed getaddrinfo only logged, not asserted: servinfo is
\* left unset and whatever it points at is read as an address.
ResolveHostnameNoAssert(h) ==
    IF Lookup[h] = <<>> THEN Garbage
    ELSE LET e == Head(Lookup[h])
         IN IF e.family = "AF_INET" THEN Ntop4(e.addr) ELSE Ntop6(e.addr)

\* ResolveHostname(hostname): the first entry of getaddrinfo's list as
\* text; None when the TG_ASSERTs on getaddrinfo fail (the process aborts).
ResolveHostname(h) ==
    IF Lookup[h] = <<>> THEN None
    ELSE LET e == Head(Lookup[h])
         IN IF e.family = "AF_INET" THEN Ntop4(e.addr) ELSE Ntop6(e.addr)

\* slk::Save(endpoint, builder): address_, port_, family_, in this order.
Save(ep, s) ==
    s \o <<<<"string", ep.address>>, <<"uint16", ep.port>>, <<"family", ep.family>>>>

\* slk::Load of one value of type t from the next item of the stream.
LoadValue(t, item) == IF item[1] = t THEN item[2] ELSE Garbage

\* Mutant: port_ loaded before address_.
LoadPortFirst(s) ==
    [port |-> LoadValue("uint16", s[1]), address |-> LoadValue("string", s[2]),
     family |-> LoadValue("family", s[3])]

\* slk::Load(endpoint, reader): address_, port_, family_, in this order.
Load(s) ==
    [address |-> LoadValue("string", s[1]), port |-> LoadValue("uint16", s[2]),
     family |-> LoadValue("family", s[3])]

\* RpcFailedException(endpoint): the exception keeps a copy of the endpoint,
\* which endpoint() returns.
RpcFailedException(ep) == [what |-> "RpcFailed", endpoint |-> ep]

Init ==
    /\ phase = "start"
    /\ hostName = None
    /\ name = None
    /\ endpoint = None
    /\ stream = <<>>
    /\ loaded = None
    /\ error = None

\* GetHostname(): gethostname() succeeds, or std::nullopt.
GetHostname ==
    /\ phase = "start"
    /\ hostName' \in {Self, None}
    /\ phase' = "named"
    /\ UNCHANGED <<name, endpoint, stream, loaded, error>>

\* The node resolves its own hostname when it has one, or a configured
\* name, and builds its endpoint; a failed lookup aborts the process.
Resolve ==
    /\ phase = "named"
    /\ \E h \in Names \cup (IF hostName = None THEN {} ELSE {hostName}) :
          LET text == ResolveHostname(h)
          IN /\ name' = h
             /\ IF text = None
                THEN /\ phase' = "aborted"
                     /\ UNCHANGED endpoint
                ELSE /\ phase' = "resolved"
                     \* the family of an unset servinfo is taken as IPv6
                     /\ \E p \in Ports :
                          endpoint' = [address |-> text, port |-> p,
                                       family |-> IF /\ Lookup[h] # <<>>
                                                     /\ Head(Lookup[h]).family = "AF_INET"
                                                  THEN "IP4" ELSE "IP6"]
    /\ UNCHANGED <<hostName, stream, loaded, error>>

\* slk::Save(endpoint, builder)
SaveEndpoint ==
    /\ phase = "resolved"
    /\ stream' = Save(endpoint, stream)
    /\ phase' = "sent"
    /\ UNCHANGED <<hostName, name, endpoint, loaded, error>>

\* slk::Load(&endpoint, reader) on the peer.
LoadEndpoint ==
    /\ phase = "sent"
    /\ loaded' = Load(stream)
    /\ phase' = "loaded"
    /\ UNCHANGED <<hostName, name, endpoint, stream, error>>

\* CanEstablishConnection(endpoint): Socket::Connect, which may also fail on
\* a reachable address; a failure is reported as RpcFailedException.
Connect ==
    /\ phase = "loaded"
    /\ \E ok \in BOOLEAN :
          /\ ok => \E a \in DOMAIN Text4 \cup DOMAIN Text6 :
                      a \in Reachable /\ loaded.address \in {Ntop4(a), Ntop6(a)}
          /\ phase' = IF ok THEN "connected" ELSE "failed"
          /\ error' = IF ok THEN None ELSE RpcFailedException(loaded)
    /\ UNCHANGED <<hostName, name, endpoint, stream, loaded>>

Next == GetHostname \/ Resolve \/ SaveEndpoint \/ LoadEndpoint \/ Connect

Spec == Init /\ [][Next]_vars

-----------------------------------------------------------------------------
(* Properties.                                                              *)

Endpoints == [address : Texts, port : Ports, family : {"IP4", "IP6"}]

\* Every variable has its type: what the peer loads is a well-formed
\* endpoint.
TypeOK ==
    /\ phase \in {"start", "named", "aborted", "resolved", "sent", "loaded",
                  "connected", "failed"}
    /\ hostName \in {Self, None}
    /\ name \in Names \cup {None}
    /\ endpoint \in Endpoints \cup {None}
    /\ loaded \in Endpoints \cup {None}
    /\ error \in {None} \cup {RpcFailedException(e) : e \in Endpoints}

\* The texts inet_ntop gives for the addresses getaddrinfo lists for h.
TextsOf(h) ==
    {IF Lookup[h][i].family = "AF_INET" THEN Ntop4(Lookup[h][i].addr)
     ELSE Ntop6(Lookup[h][i].addr) : i \in 1..Len(Lookup[h])}

\* What the peer loads, and what an RpcFailedException reports, is the
\* endpoint the node saved, and its address is one of the addresses of the
\* host the node named, whichever family getaddrinfo listed first.
PeerSeesNamedHost ==
    /\ loaded # None => /\ loaded = endpoint
                        /\ loaded.address \in TextsOf(name)
    /\ error # None => error.endpoint = loaded

\* The comment on ResolveHostname says "if already an ip, just returns
\* it": resolving an address literal gives back the same text.
IpLiteralReturnedAsIs ==
    (endpoint # None /\ name \in IpLiterals) => endpoint.address = name

=============================================================================
