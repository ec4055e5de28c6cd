------------------------------- MODULE CoreConfig -------------------------------
(***************************************************************************)
(* What is generated for the core that runs.  The configuration names up   *)
(* to four resolvers and an ordered list of routing rules; each of the     *)
(* three cores gets them in its own form.  A sing-box root is full of      *)
(* names: servers that resolve the address of a server, the final one, the *)
(* ones rules ask, the node's own.  Every part of it is built apart, from  *)
(* the same settings, and any of the resolvers may have been cleared.      *)
(***************************************************************************)
EXTENDS Naturals, Sequences

CONSTANT Settings   \* what the user can have configured

VARIABLES settings, \* the configuration of this start
          root      \* the generated root of the sing-box core, or NoRoot

configVars == <<settings, root>>

\* A resolver's address: cleared, an address that needs no lookup, a host name, or
\* a host name that is in the table of common hosts.
Addresses == {"none", "ip", "host", "known"}

\* What a connection may match.  "gone" and "region" are rule sets nobody publishes
\* for sing-box, "file" a set loaded from a file, which Xray alone can; "bare" a value
\* without a prefix, a part of the name, and "dotless" a part of a name that has no dot.
\* A process is named as its core sees it: sing-box's rules have ".exe" appended.
Domains == {"host", "set", "gone", "file", "bare", "dotless"}
Ips == {"addr", "region"}
Ports == {"every", "web"}
Matchers == Domains \cup Ips \cup {"process", "protocol", "lan", "probe"} \cup Ports
Dropped == {"gone", "file", "region"}

\* A rule: what it lists of each kind, and the conditions that go with all of it.
Rules == [out : {"block", "direct", "proxy"}, domain : SUBSET Domains, ip : SUBSET Ips,
          process : SUBSET {"process"}, all : SUBSET (Ports \cup {"protocol"})]

\* What the user may have configured: the resolvers (the remote one perhaps as an object
\* with servers of its own, `own'), the node's address, whether there is a table of hosts
\* and where fake addresses are given, and the rules.
Configurations == [bootstrap : Addresses, remote : Addresses \cup {"object"}, direct : Addresses,
                   node : Addresses, hosts : BOOLEAN, fake : {"off", "scoped", "global"},
                   own : Seq(STRING \ {""}), fragment : BOOLEAN,
                   custom : Seq(Rules), profile : Seq(Rules)]

ConfigInstance == Settings \subseteq Configurations

(***************************************************************************)
(* Routing: the first rule that takes a connection decides.                *)
(***************************************************************************)
\* The user's own rules come first, those that block before those that go direct and
\* those before the proxied ones, each as they are listed; then the profile's.
Bands == <<"block", "direct", "proxy">>
Places(s) == {p \in (1..3) \X (DOMAIN s.custom) : s.custom[p[2]].out = Bands[p[1]]}
             \cup ({4} \X (DOMAIN s.profile))
Before(p, q) == p[1] < q[1] \/ (p[1] = q[1] /\ p[2] < q[2])

effectiveRoutingRules(s) ==
    [p \in Places(s) |-> IF p[1] = 4 THEN s.profile[p[2]] ELSE s.custom[p[2]]]

\* One generated rule: any of some values, and all of some conditions.
Entry(any, all) == [any |-> any, all |-> all]
Matches(e, conn) == (e.any = {} \/ e.any \cap conn # {}) /\ e.all \subseteq conn

ValueLists(r) == {r.domain, r.ip, r.process} \ {{}}

\* One rule for each kind of values; values the core cannot express are left out.
appendRoutingRule(r, unknown) ==
    IF ValueLists(r) # {} THEN {Entry(any \ unknown, r.all) : any \in ValueLists(r)}
    ELSE IF r.all # {} THEN {Entry({}, r.all)} ELSE {}

\* A value may be read more narrowly than that its text is in the name: the DNS section
\* of sing-box takes a bare one for the whole name, and Xray alone minds the dot.
Narrower(values, v, narrow) == IF v \in values THEN (values \ {v}) \cup {narrow} ELSE values
WholeNames(values) == Narrower(values, "bare", "whole")
Undotted(values) == Narrower(values, "dotless", "undotted")

\* Xray's rules hold every value as it is written.
appendLegacyRoutingRule(r) == {Entry(Undotted(e.any), e.all) : e \in appendRoutingRule(r, {})}

\* (slip) The conditions are kept only where the rule lists no values.
appendSingBoxRoutingRuleWide(r) ==
    {Entry(any \ Dropped, {}) : any \in ValueLists(r)}
    \cup (IF ValueLists(r) = {} /\ r.all # {} THEN {Entry({}, r.all)} ELSE {})

appendSingBoxRoutingRule(r) == appendRoutingRule(r, Dropped)

\* mihomo has a rule for each value and for each port, and no other condition.  A bare
\* value is a keyword here as in sing-box, and so is, for want of a better, a dotless one.
appendMihomoRules(r) ==
    {Entry({v}, {}) : v \in (UNION ValueLists(r)) \ {"file"}}
    \cup {Entry({}, {p}) : p \in r.all \cap Ports}

Takes(core, r, conn) ==
    \E e \in CASE core = "xray" -> appendLegacyRoutingRule(r)
               [] core = "sing-box" -> appendSingBoxRoutingRule(r)
               [] core = "mihomo" -> appendMihomoRules(r) : Matches(e, conn)

\* What no rule takes goes to the first outbound, which with fragmentation is not the
\* proxy but what the proxy dials through.
Default(s, core) == IF core = "xray" /\ s.fragment THEN "frag-proxy" ELSE "proxy"

\* The place of the first rule that takes a connection, if one does.
NoPlace == <<5, 0>>
First(taken) == IF taken = {} THEN NoPlace
                ELSE CHOOSE p \in taken : \A q \in taken : ~Before(q, p)

Decider(s, core, conn) ==
    LET rules == effectiveRoutingRules(s)
    IN First({p \in DOMAIN rules : Takes(core, rules[p], conn)})

\* Before the user's rules: the probe of the exit location takes the proxy, and in
\* sing-box a private address is reached directly.
Verdict(s, core, conn) ==
    LET p == Decider(s, core, conn)
    IN IF "probe" \in conn /\ core # "mihomo" THEN "proxy"
       ELSE IF "lan" \in conn /\ core = "sing-box" THEN "direct"
       ELSE IF p # NoPlace THEN effectiveRoutingRules(s)[p].out ELSE Default(s, core)

(***************************************************************************)
(* The servers of the sing-box root.                                       *)
(***************************************************************************)
usesDirectDnsAsFinalServer(s) ==
    /\ s.profile # <<>>
    /\ LET last == s.profile[Len(s.profile)]
       IN /\ last.out = "direct" /\ last.domain = {} /\ last.process = {} /\ last.ip = {}
          /\ "web" \notin last.all

CustomObject(s) == s.remote = "object"

Optional(given, server) == IF given THEN <<server>> ELSE <<>>

\* applyHostsResolver: a name of the table is looked up there.
Server(s, tag, address, detour, resolver) ==
    [tag |-> tag, address |-> address, detour |-> detour,
     resolver |-> IF address = "known" /\ s.hosts THEN "hosts_dns" ELSE resolver]

Fixed(tag) == [tag |-> tag, address |-> "ip", detour |-> "", resolver |-> ""]
OwnServer(tag) == [tag |-> tag, address |-> "ip", detour |-> "", resolver |-> ""]
NodeServer(s) == [tag |-> "proxy_server_dns", address |-> s.node, detour |-> "", resolver |-> ""]

\* (slip) A custom object is taken as it is.
dnsServersAsGiven(s) ==
    IF CustomObject(s) THEN [i \in DOMAIN s.own |-> OwnServer(s.own[i])]
    ELSE Optional(s.bootstrap # "none", Server(s, "local_local", s.bootstrap, "", ""))
         \o Optional(s.remote # "none", Server(s, "remote_dns", s.remote, "proxy", "local_local"))
         \o Optional(s.direct # "none", Server(s, "direct_dns", s.direct, "", "local_local"))

\* A custom object's servers and the node's, or those of the settings.
dnsServers(s) ==
    IF CustomObject(s)
    THEN [i \in DOMAIN s.own |-> OwnServer(s.own[i])] \o Optional(s.node # "none", NodeServer(s))
    ELSE Optional(s.bootstrap # "none", Server(s, "local_local", s.bootstrap, "", ""))
         \o Optional(s.remote # "none", Server(s, "remote_dns", s.remote, "proxy", "local_local"))
         \o Optional(s.direct # "none", Server(s, "direct_dns", s.direct, "", "local_local"))
         \o Optional(s.node # "none", Server(s, "proxy_server_dns", s.node, "",
                                             IF s.bootstrap = "none" THEN "" ELSE "local_local"))
         \o Optional(s.hosts, Fixed("hosts_dns"))
         \o Optional(s.fake # "off", Fixed("fake_dns"))

Tags(servers) == {servers[i].tag : i \in DOMAIN servers}

\* (slip) The resolver the proxied names use comes first.
defaultDomainResolverTagRemoteFirst(servers) ==
    LET tags == Tags(servers)
    IN IF "remote_dns" \in tags THEN "remote_dns"
       ELSE IF "direct_dns" \in tags THEN "direct_dns"
       ELSE IF servers = <<>> THEN "" ELSE servers[1].tag

defaultDomainResolverTag(servers) ==
    LET tags == Tags(servers)
        Preferred == <<"direct_dns", "proxy_server_dns", "local_local", "remote_dns">>
        named == {i \in DOMAIN Preferred : Preferred[i] \in tags}
    IN IF named # {} THEN Preferred[CHOOSE i \in named : \A j \in named : i <= j]
       ELSE IF servers = <<>> THEN "" ELSE servers[1].tag

finalDnsServerTag(s) ==
    IF s.remote # "none" /\ ~usesDirectDnsAsFinalServer(s) THEN "remote_dns"
    ELSE IF s.direct # "none" THEN "direct_dns"
    ELSE IF s.hosts THEN "hosts_dns" ELSE ""

\* The servers a routing rule's names are asked at, whether or not they are there.
askedByRule(s, r) ==
    IF r.domain \ {"file"} = {} THEN {}
    ELSE CASE r.out = "direct" -> {"direct_dns"}
           [] r.out = "block" -> {}
           [] r.out = "proxy" -> {"remote_dns"} \cup (IF s.fake = "scoped" THEN {"fake_dns"} ELSE {})

askedByRules(s) ==
    (IF s.hosts THEN {"hosts_dns"} ELSE {})
    \cup (IF s.remote # "none" THEN {"remote_dns"} ELSE {})
    \cup (IF s.direct # "none" THEN {"direct_dns"} ELSE {})
    \cup (IF s.fake = "global" \/ (s.fake = "scoped" /\ ~usesDirectDnsAsFinalServer(s))
          THEN {"fake_dns"} ELSE {})
    \cup UNION {askedByRule(s, effectiveRoutingRules(s)[p]) : p \in Places(s)}

\* The server a name is asked at, where no table and no fake address answers.
askedAt(s, name) ==
    LET rules == effectiveRoutingRules(s)
        p == First({q \in DOMAIN rules : WholeNames(rules[q].domain \ Dropped) \cap name # {}})
    IN IF p # NoPlace THEN askedByRule(s, rules[p]) \ {"fake_dns"} ELSE {finalDnsServerTag(s)}

\* The node's outbound names the node's own resolver if there is one.
buildPrimaryOutbound(s) == IF s.node # "none" THEN "proxy_server_dns" ELSE ""

NoRoot == [servers |-> <<>>, default |-> "", node |-> "", asked |-> {}]

buildClientRoot(s) ==
    LET servers == dnsServers(s)
    IN [servers |-> servers, default |-> defaultDomainResolverTag(servers),
        node |-> buildPrimaryOutbound(s),
        asked |-> IF CustomObject(s) \/ servers = <<>> THEN {}
                  ELSE {finalDnsServerTag(s)} \cup askedByRules(s)]

ConfigInit == settings \in Settings /\ root = NoRoot

writeClientConfigs == /\ root = NoRoot
                      /\ root' = buildClientRoot(settings)
                      /\ UNCHANGED settings

ConfigNext == writeClientConfigs

ConfigSpec == ConfigInit /\ [][ConfigNext]_configVars

(***************************************************************************)
(* Properties.                                                             *)
(***************************************************************************)
ConfigTypeOK == settings \in Settings /\ root \in {NoRoot, buildClientRoot(settings)}

Named(r) == ({r.servers[i].resolver : i \in DOMAIN r.servers} \cup r.asked \cup {r.default, r.node})
            \ {""}

ClearedTags(s) == (IF s.bootstrap = "none" THEN {"local_local"} ELSE {})
              \cup (IF s.remote = "none" THEN {"remote_dns"} ELSE {})
              \cup (IF s.direct = "none" THEN {"direct_dns"} ELSE {})

\* Every server a sing-box root names is declared in it, with a custom object as well
\* (SingBoxDnsConfigBuilder, defaultDomainResolverTag), unless the user cleared the
\* very resolver; and a root with more than one server names the default one, without
\* which the core does not start.
NamesExist ==
    /\ Named(root) \ Tags(root.servers) \subseteq
         IF CustomObject(settings) THEN {} ELSE ClearedTags(settings)
    /\ Len(root.servers) > 1 => root.default # ""

\* Following the lookup of the node's name: the server that is asked, the one its own
\* name is asked at, and so on, up to an address.
At(r, tag) == CHOOSE i \in DOMAIN r.servers : r.servers[i].tag = tag
NextServer(r, tag) ==
    IF tag \notin Tags(r.servers) \/ r.servers[At(r, tag)].address = "ip" THEN ""
    ELSE IF r.servers[At(r, tag)].resolver # "" THEN r.servers[At(r, tag)].resolver ELSE r.default
NodeLookup(r) == LET first == IF r.node # "" THEN r.node ELSE r.default
                     second == NextServer(r, first)
                     third == NextServer(r, second)
                 IN <<first, second, third, NextServer(r, third)>>

\* The node's own name is never looked up through the proxy that is about to dial it,
\* and the lookup ends, if the bootstrap resolver can be found without one
\* (buildPrimaryOutbound, defaultDomainResolverTag, applyHostsResolver).
NodeIsFound ==
    LET lookup == NodeLookup(root)
    IN /\ root # NoRoot /\ ~CustomObject(settings)
       /\ settings.bootstrap = "ip" \/ (settings.bootstrap = "known" /\ settings.hosts)
       => /\ \A i \in 1..3 : lookup[i] # "remote_dns"
          /\ lookup[4] = ""

\* Which way a connection goes is one decision.  Every core takes the same, unless a
\* rule uses what one of them cannot express: rule sets that are not published for
\* sing-box, conditions mihomo has no rule for, the default of a fragmented proxy, and
\* for Xray the text of a dotless value in a name that has a dot.
\* And sing-box asks for a name where the decision says, on either side of the proxy,
\* unless the rule that decides lists no names and is not the profile's last (or is, and
\* blocks the rest), or a rule has conditions beside them, or none of either, or the name
\* has a bare value for a part only (appendRoutingRules of the DNS section,
\* finalDnsServerTag).  The connections are those whose names are not in the table of
\* hosts, which sing-box looks up before its rules.
Expressible(r) == (ValueLists(r) # {} \/ r.all # {}) /\ \A any \in ValueLists(r) : any \ Dropped # {}
PortOrValues(r) == r.all = {} \/ (ValueLists(r) = {} /\ \E p \in Ports : r.all = {p})
NamesAlone(r) == (r.domain # {} => r.all = {}) /\ "protocol" \notin r.all

\* A rule without names that decides is the last one, and does not block.
NamesDecide(s, p) ==
    p # NoPlace /\ effectiveRoutingRules(s)[p].domain = {}
    => p = <<4, Len(s.profile)>> /\ effectiveRoutingRules(s)[p].out # "block"

\* The connections there can be when no rule set is left out, every one with a port: to
\* names whose parts are read alike by all cores, and, by name alone, to any names or to
\* those a bare value matches as a whole.
Connections == {any \cup Undotted(any) \cup {"every"} :
                   any \in SUBSET (Matchers \ (Dropped \cup {"lan", "every"}))}
ByName == {any \cup {"every"} : any \in SUBSET (Domains \ Dropped)}
ByWholeName == {conn \cup WholeNames(conn) : conn \in ByName}

SameWay(s) ==
    LET rules == {effectiveRoutingRules(s)[p] : p \in Places(s)}
    IN \A conn \in Connections :
       /\ ~s.fragment \/ Decider(s, "xray", conn) # NoPlace
          => Verdict(s, "xray", conn) = Verdict(s, "sing-box", conn)
       /\ (\A r \in rules : PortOrValues(r)) /\ "probe" \notin conn
          => Verdict(s, "mihomo", conn) = Verdict(s, "sing-box", conn)

AskedTheSameWay(s, connections) ==
    /\ s.remote \notin {"none", "object"} /\ s.direct # "none"
    /\ \A p \in Places(s) : NamesAlone(effectiveRoutingRules(s)[p])
    => \A conn \in connections :
       NamesDecide(s, Decider(s, "sing-box", conn))
       => askedAt(s, conn) = CASE Verdict(s, "sing-box", conn) = "direct" -> {"direct_dns"}
                               [] Verdict(s, "sing-box", conn) = "proxy" -> {"remote_dns"}
                               [] Verdict(s, "sing-box", conn) = "block" -> {}

AllExpressible(s) == \A p \in Places(s) : Expressible(effectiveRoutingRules(s)[p])

OneDecision == root # NoRoot /\ AllExpressible(settings)
               => SameWay(settings) /\ AskedTheSameWay(settings, ByWholeName)

\* What the header of appendDomainField says, and what is not so in the DNS section: "a
\* routing rule's bare value is a keyword".  A name that has one for a part is asked for
\* where the routing rule sends it.
BareIsKeyword == root # NoRoot /\ AllExpressible(settings) => AskedTheSameWay(settings, ByName)
=================================================================================
