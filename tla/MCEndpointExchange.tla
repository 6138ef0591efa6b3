------------------------ MODULE MCEndpointExchange ------------------------
EXTENDS EndpointExchange

\* Two IPv4 and two IPv6 addresses, and their inet_ntop texts.
MCText4 == [lo4 |-> "127.0.0.1", ip4 |-> "10.0.0.1"]
MCText6 == [lo6 |-> "::1", ip6 |-> "fd00::1"]

V4(a) == [family |-> "AF_INET", addr |-> a]
V6(a) == [family |-> "AF_INET6", addr |-> a]

\* getaddrinfo: a dual-stack host, an IPv6-only host, a host that does
\* not resolve, and address literals in canonical and in other accepted
\* forms (inet_aton's "127.1", a zero group written out in IPv6).
MCLookup ==
    [h \in {"db1", "db2", "nx", "127.0.0.1", "127.1", "::1", "::0:1"} |->
        CASE h = "db1"       -> <<V4("ip4"), V6("ip6")>>
          [] h = "db2"       -> <<V6("ip6")>>
          [] h = "nx"        -> <<>>
          [] h \in {"127.0.0.1", "127.1"} -> <<V4("lo4")>>
          [] h \in {"::1", "::0:1"}       -> <<V6("lo6")>>]

MCNames == DOMAIN MCLookup
MCIpLiterals == {"127.0.0.1", "127.1", "::1", "::0:1"}

=============================================================================
