---------------------------- MODULE MCProxySession -----------------------------
(***************************************************************************)
(* ProxySession for TLC: the start requests of each run.                   *)
(***************************************************************************)
EXTENDS ProxySession

CONSTANTS s1, s2

Plain == [tun |-> FALSE, aux |-> FALSE, forced |-> TRUE]
NotForced == [tun |-> FALSE, aux |-> FALSE, forced |-> FALSE]
Tun == [tun |-> TRUE, aux |-> FALSE, forced |-> TRUE]
TunWithRelay == [tun |-> TRUE, aux |-> TRUE, forced |-> TRUE]

PlainRequests == {Plain, NotForced}
OneRequest == {Plain}
TunRequests == {Tun}
MixedRequests == {Tun, TunWithRelay}
RelayRequests == {TunWithRelay}
===============================================================================
