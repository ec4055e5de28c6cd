------------------------------- MODULE MCServices -------------------------------
(***************************************************************************)
(* The services around the session on one small instance.  They share no   *)
(* variables, so a behaviour is one of a single service, the `focus`, and  *)
(* the others rest in their initial state.                                 *)
(***************************************************************************)
EXTENDS HealthWatch, GroupFailover, CoreUpdate, SubscriptionUpdate, CoreConfig, Handover,
        Sharing

CONSTANTS a, b, c, d, \* servers
          news,       \* a subscription
          Focus       \* the services to explore

ThreeServers == <<a, b, c>>
ListOf == [s \in {news} |-> {1, 2}]
Subscribed == <<news>>

\* What a user may have configured: routing rules of every shape beside the built-in
\* profiles, with the resolvers as they are shipped; and every state of the resolvers.
R(out, domain, ip, process, all) ==
    [out |-> out, domain |-> domain, ip |-> ip, process |-> process, all |-> all]
BypassCN == <<R("block", {"set"}, {}, {}, {}), R("direct", {"host"}, {}, {}, {}),
              R("direct", {}, {"addr"}, {}, {}), R("proxy", {}, {}, {}, {"every"})>>
Blacklist == <<R("direct", {}, {}, {}, {"protocol"}), R("block", {"set"}, {}, {}, {}),
               R("proxy", {"gone", "host"}, {"region"}, {}, {}), R("direct", {}, {}, {}, {"every"})>>
Global == <<R("proxy", {}, {}, {}, {"every"})>>
Mixed == <<R("proxy", {"host", "gone"}, {}, {}, {}), R("direct", {}, {}, {}, {"every"})>>
Closed == <<R("direct", {"host"}, {}, {}, {}), R("block", {}, {}, {}, {"every"})>>
CustomRules == {R("block", {"host"}, {}, {}, {}), R("direct", {"set", "file"}, {}, {}, {"web"}),
                R("proxy", {"host"}, {"addr"}, {}, {}), R("direct", {"set"}, {}, {}, {}),
                R("direct", {}, {}, {"process"}, {"web"}), R("proxy", {}, {}, {}, {"web"}),
                R("block", {}, {"addr"}, {}, {"protocol"}), R("direct", {"bare"}, {}, {}, {}),
                R("block", {"dotless"}, {}, {}, {})}
CustomLists == {<<>>} \cup {<<p>> : p \in CustomRules} \cup {<<p, q>> : p, q \in CustomRules}
Address == {"none", "ip", "host", "known"}
Shipped == [bootstrap |-> "ip", remote |-> "ip", direct |-> "ip", node |-> "none",
            hosts |-> TRUE, fake |-> "off", own |-> <<>>, fragment |-> FALSE,
            custom |-> <<>>, profile |-> BypassCN]
Resolvers == {[Shipped EXCEPT !.bootstrap = p[1], !.direct = p[2], !.node = p[3], !.remote = r,
                              !.hosts = h, !.fake = f, !.own = o, !.profile = rules] :
                 p \in Address \X Address \X Address, r \in Address \cup {"object"},
                 h \in BOOLEAN, f \in {"off", "scoped", "global"},
                 o \in {<<>>, <<"mine">>}, rules \in {<<>>, Blacklist}}
Routings == {[Shipped EXCEPT !.custom = list, !.profile = rules, !.fragment = f] :
                list \in CustomLists, f \in BOOLEAN,
                rules \in {<<>>, BypassCN, Blacklist, Global, Mixed, Closed}}
\* A custom object's servers matter only with such an object.
Configured == {s \in Resolvers : s.own # <<>> => s.remote = "object"} \cup Routings

\* Servers to pass on: of each protocol a plain one, and all that differ from it in up to
\* two fields.
With(fields) == [f \in ItemFields |-> IF f \in DOMAIN fields THEN fields[f] ELSE ""]
Plain(type) ==
    With(CASE type \in OverStandardTransport ->
                  [id |-> "plain", streamSecurity |-> "tls", network |-> "tcp", headerType |-> "none"]
           [] type = "tuic" -> [id |-> "plain", streamSecurity |-> "tls", security |-> "plain",
                                congestionControl |-> "plain", udpRelayMode |-> "plain"]
           [] type = "naive" -> [id |-> "plain", streamSecurity |-> "tls", username |-> "plain"]
           [] type \in {"hysteria2", "anytls"} -> [id |-> "plain", streamSecurity |-> "tls"]
           [] type = "wireguard" -> [id |-> "plain", peerPublicKey |-> "plain",
                                     localAddress |-> "plain"]
           [] OTHER -> [id |-> "plain"])

\* What the fields may hold, for all protocols and where one of them has more to choose.
Values == [allowInsecure |-> {"", "true", "1", "false"}, alpn |-> {"", "plain", "marked"},
           certSha |-> {"", "marked"}, path |-> {"", "marked"}, reserved |-> {"", "marked"},
           muxEnabled |-> {"", "on", "off"}, obfsPassword |-> {"", "plain", "marked", "007"},
           username |-> {"", "plain", "spoilt"},
           peerPublicKey |-> {"plain", "marked"}, localAddress |-> {"plain", "marked", "three"},
           headerType |-> {"none", "http"}, network |-> Networks,
           fingerprint |-> {"", "plain", "chrome"}]
Choices(type, f) ==
    CASE f = "id" -> {"", "plain", "007", "null"}
                     \cup CASE type = "shadowsocks" -> {"slashed"} [] type = "socks" -> {"colon"}
                            [] OTHER -> {"marked", "spoilt"}
      [] f = "security" /\ f \in Secrets(type) ->
             {"", "plain", "007"} \cup CASE type = "tuic" -> {"spoilt"} [] type = "socks" -> {"colon"}
                                        [] OTHER -> {"marked"}
      [] f = "streamSecurity" -> Securities(type)
      [] f \in DOMAIN Values -> Values[f]
      [] OTHER -> {"", "plain"}
Varied(type, items) ==
    UNION {{[i EXCEPT ![f] = v] : v \in Choices(type, f)} :
               f \in FieldsOf(type) \cup {"streamSecurity"}, i \in items}
ManyServers == UNION {{Item(type, i) : i \in Varied(type, Varied(type, {Plain(type)}))} :
                         type \in Linkable \cup {"http"}}

VARIABLE focus

vars == <<focus, healthVars, failoverVars, coreUpdateVars, subsVars, configVars, handoverVars,
          sharingVars>>

\* The instance is one the theorems about the services speak of.
ASSUME TheoremsApply == /\ Numbers /\ FailoverInstance /\ SubsInstance /\ ConfigInstance
                        /\ SharingInstance /\ MaxCoreUpdates \in Nat /\ Executable \in Files

OnlyHealth == /\ focus = "health"
              /\ UNCHANGED <<focus, failoverVars, coreUpdateVars, subsVars, configVars, handoverVars, sharingVars>>
OnlyFailover == /\ focus = "failover"
                /\ UNCHANGED <<focus, healthVars, coreUpdateVars, subsVars, configVars, handoverVars, sharingVars>>
OnlyCore == /\ focus = "core"
            /\ UNCHANGED <<focus, healthVars, failoverVars, subsVars, configVars, handoverVars, sharingVars>>
OnlySubs == /\ focus = "subscriptions"
            /\ UNCHANGED <<focus, healthVars, failoverVars, coreUpdateVars, configVars, handoverVars, sharingVars>>
OnlyConfig == /\ focus = "config"
              /\ UNCHANGED <<focus, healthVars, failoverVars, coreUpdateVars, subsVars, handoverVars, sharingVars>>
OnlyHandover == /\ focus = "handover"
                /\ UNCHANGED <<focus, healthVars, failoverVars, coreUpdateVars, subsVars, configVars, sharingVars>>
OnlySharing == /\ focus = "sharing"
               /\ UNCHANGED <<focus, healthVars, failoverVars, coreUpdateVars, subsVars, configVars, handoverVars>>

NothingShared == /\ server = Refused /\ sent = Refused /\ shared = NoText
                 /\ way = "none" /\ hops = 0
                 /\ defaults = [insecure |-> FALSE, fingerprint |-> "", mux |-> FALSE]

Init == /\ focus \in Focus
        /\ HealthInit /\ (focus # "health" => node /\ network)
        /\ FailoverInit /\ (focus # "failover" => current = a)
        /\ CoreUpdateInit /\ (focus # "core" => proxy = "off" /\ ~gzipped)
        /\ SubsInit
        /\ ConfigInit /\ (focus # "config" => settings = Shipped)
        /\ HandoverInit /\ (focus # "handover" => ~saved)
        /\ IF focus = "sharing" THEN SharingInit ELSE NothingShared

InHealth == OnlyHealth /\ HealthNext

InFailover == OnlyFailover /\ FailoverNext

InCore == OnlyCore /\ CoreUpdateNext

InSubs == OnlySubs /\ SubsNext

InConfig == OnlyConfig /\ ConfigNext

\* Bound: nothing follows a wait that ran out; and what follows an overtaken process
\* is looked at without an update script at the same time.
HandoverGoesOn == OnlyHandover /\ ~late /\ (overtaken = {} \/ script = {})

InHandover == HandoverGoesOn /\ HandoverNext

InSharing == OnlySharing /\ SharingNext

Next == InHealth \/ InFailover \/ InCore \/ InSubs \/ InConfig \/ InHandover \/ InSharing

Spec == Init /\ [][Next]_vars
=================================================================================
