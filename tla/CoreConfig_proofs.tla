---------------------------- MODULE CoreConfig_proofs ----------------------------
(***************************************************************************)
(* Proofs about CoreConfig, for every configuration the user can save: any *)
(* resolvers cleared, any table, any list of rules of any length.          *)
(***************************************************************************)
EXTENDS CoreConfig, WellFoundedInduction, TLAPS

(***************************************************************************)
(* A list of servers as the set of what it holds.                          *)
(***************************************************************************)
Members(q) == {q[i] : i \in DOMAIN q}

LEMMA MembersType == ASSUME NEW S, NEW q \in Seq(S) PROVE Members(q) \subseteq S /\ DOMAIN q = 1..Len(q) /\ Len(q) \in Nat
BY DEF Members

LEMMA Joined ==
  ASSUME NEW S, NEW s \in Seq(S), NEW t \in Seq(S)
  PROVE  s \o t \in Seq(S) /\ Members(s \o t) = Members(s) \cup Members(t)
<1>1. s \o t \in Seq(S)
  OBVIOUS
<1>2. ASSUME NEW i \in DOMAIN (s \o t) PROVE (s \o t)[i] \in Members(s) \cup Members(t)
  <2>1. CASE i <= Len(s)
    BY <2>1 DEF Members
  <2>2. CASE i > Len(s)
    <3>1. (s \o t)[i] = t[i - Len(s)] /\ i - Len(s) \in DOMAIN t
      BY <2>2
    <3> QED  BY <3>1 DEF Members
  <2> QED  BY <2>1, <2>2
<1>3. ASSUME NEW i \in DOMAIN s PROVE s[i] \in Members(s \o t)
  <2>1. i \in DOMAIN (s \o t) /\ (s \o t)[i] = s[i]
    OBVIOUS
  <2> QED  BY <2>1 DEF Members
<1>4. ASSUME NEW i \in DOMAIN t PROVE t[i] \in Members(s \o t)
  <2>1. i + Len(s) \in DOMAIN (s \o t) /\ (s \o t)[i + Len(s)] = t[i]
    OBVIOUS
  <2> QED  BY <2>1 DEF Members
<1> QED  BY <1>1, <1>2, <1>3, <1>4 DEF Members

\* Six lists after one another, as the root's servers are put together.
Then(s, t) == s \o t
AllSix(a, b, c, d, e, f) == a \o b \o c \o d \o e \o f

LEMMA JoinedSix ==
  ASSUME NEW S, NEW a \in Seq(S), NEW b \in Seq(S), NEW c \in Seq(S), NEW d \in Seq(S),
         NEW e \in Seq(S), NEW f \in Seq(S)
  PROVE  /\ AllSix(a, b, c, d, e, f) \in Seq(S)
         /\ Members(AllSix(a, b, c, d, e, f)) =
              Members(a) \cup Members(b) \cup Members(c) \cup Members(d) \cup Members(e) \cup Members(f)
<1>1. ASSUME NEW s \in Seq(S), NEW t \in Seq(S)
      PROVE  Then(s, t) \in Seq(S) /\ Members(Then(s, t)) = Members(s) \cup Members(t)
  BY Joined DEF Then
<1> DEFINE ab == Then(a, b)
           abc == Then(ab, c)
           abcd == Then(abc, d)
           abcde == Then(abcd, e)
           all == Then(abcde, f)
<1>2. ab \in Seq(S) /\ Members(ab) = Members(a) \cup Members(b)
  BY <1>1
<1> HIDE DEF ab
<1>3. abc \in Seq(S) /\ Members(abc) = Members(ab) \cup Members(c)
  BY <1>1, <1>2
<1> HIDE DEF abc
<1>4. abcd \in Seq(S) /\ Members(abcd) = Members(abc) \cup Members(d)
  BY <1>1, <1>3
<1> HIDE DEF abcd
<1>5. abcde \in Seq(S) /\ Members(abcde) = Members(abcd) \cup Members(e)
  BY <1>1, <1>4
<1> HIDE DEF abcde
<1>6. all \in Seq(S) /\ Members(all) = Members(abcde) \cup Members(f)
  BY <1>1, <1>5
<1>7. all = AllSix(a, b, c, d, e, f)
  BY DEF AllSix, all, abcde, abcd, abc, ab, Then
<1> HIDE DEF all
<1> QED  BY <1>2, <1>3, <1>4, <1>5, <1>6, <1>7

LEMMA OptionalMembers ==
  ASSUME NEW x, NEW given \in BOOLEAN
  PROVE  /\ \A S : (given => x \in S) => Optional(given, x) \in Seq(S)
         /\ Members(Optional(given, x)) = IF given THEN {x} ELSE {}
BY DEF Optional, Members

\* What a configuration of the user's names, one by one.
Given(s) ==
    (IF s.bootstrap # "none" THEN {Server(s, "local_local", s.bootstrap, "", "")} ELSE {})
    \cup (IF s.remote # "none" THEN {Server(s, "remote_dns", s.remote, "proxy", "local_local")} ELSE {})
    \cup (IF s.direct # "none" THEN {Server(s, "direct_dns", s.direct, "", "local_local")} ELSE {})
    \cup (IF s.node # "none"
          THEN {Server(s, "proxy_server_dns", s.node, "", IF s.bootstrap = "none" THEN "" ELSE "local_local")}
          ELSE {})
    \cup (IF s.hosts THEN {Fixed("hosts_dns")} ELSE {})
    \cup (IF s.fake # "off" THEN {Fixed("fake_dns")} ELSE {})

LEMMA GivenHolds ==
  ASSUME NEW s
  PROVE  /\ s.bootstrap # "none" => Server(s, "local_local", s.bootstrap, "", "") \in Given(s)
         /\ s.remote # "none" => Server(s, "remote_dns", s.remote, "proxy", "local_local") \in Given(s)
         /\ s.direct # "none" => Server(s, "direct_dns", s.direct, "", "local_local") \in Given(s)
         /\ s.node # "none"
            => Server(s, "proxy_server_dns", s.node, "", IF s.bootstrap = "none" THEN "" ELSE "local_local")
                 \in Given(s)
         /\ s.hosts => Fixed("hosts_dns") \in Given(s)
         /\ s.fake # "off" => Fixed("fake_dns") \in Given(s)
BY DEF Given

LEMMA GivenTags ==
  ASSUME NEW s, NEW x \in Given(s)
  PROVE  \/ x = Server(s, "local_local", s.bootstrap, "", "") /\ s.bootstrap # "none"
         \/ x = Server(s, "remote_dns", s.remote, "proxy", "local_local") /\ s.remote # "none"
         \/ x = Server(s, "direct_dns", s.direct, "", "local_local") /\ s.direct # "none"
         \/ /\ x = Server(s, "proxy_server_dns", s.node, "", IF s.bootstrap = "none" THEN "" ELSE "local_local")
            /\ s.node # "none"
         \/ x = Fixed("hosts_dns") /\ s.hosts
         \/ x = Fixed("fake_dns") /\ s.fake # "off"
BY DEF Given

LEMMA GivenResolvers ==
  ASSUME NEW s, NEW x \in Given(s)
  PROVE  x.resolver \in {"", "local_local"} \/ (s.hosts /\ x.resolver = "hosts_dns")
<1> DEFINE Fits(r) == r \in {"", "local_local"} \/ (s.hosts /\ r = "hosts_dns")
<1>1. /\ Fits(Server(s, "local_local", s.bootstrap, "", "").resolver)
      /\ Fits(Server(s, "remote_dns", s.remote, "proxy", "local_local").resolver)
      /\ Fits(Server(s, "direct_dns", s.direct, "", "local_local").resolver)
      /\ Fits(Server(s, "proxy_server_dns", s.node, "", IF s.bootstrap = "none" THEN "" ELSE "local_local").resolver)
      /\ Fits(Fixed("hosts_dns").resolver) /\ Fits(Fixed("fake_dns").resolver)
  BY DEF Server, Fixed
<1> HIDE DEF Fits
<1>2. Fits(x.resolver)
  BY <1>1, GivenTags
<1> QED  BY <1>2 DEF Fits

LEMMA ServersOfSettings ==
  ASSUME NEW s \in Configurations, ~CustomObject(s)
  PROVE  dnsServers(s) \in Seq(Given(s)) /\ Members(dnsServers(s)) = Given(s)
<1> DEFINE one == Optional(s.bootstrap # "none", Server(s, "local_local", s.bootstrap, "", ""))
           two == Optional(s.remote # "none", Server(s, "remote_dns", s.remote, "proxy", "local_local"))
           three == Optional(s.direct # "none", Server(s, "direct_dns", s.direct, "", "local_local"))
           own == Server(s, "proxy_server_dns", s.node, "", IF s.bootstrap = "none" THEN "" ELSE "local_local")
           four == Optional(s.node # "none", own)
           five == Optional(s.hosts, Fixed("hosts_dns"))
           six == Optional(s.fake # "off", Fixed("fake_dns"))
<1>1. s.remote \in Addresses /\ s.bootstrap \in Addresses /\ s.direct \in Addresses
      /\ s.node \in Addresses /\ s.hosts \in BOOLEAN
  BY DEF Configurations, CustomObject
<1>3. /\ (s.bootstrap # "none") \in BOOLEAN /\ (s.remote # "none") \in BOOLEAN
      /\ (s.direct # "none") \in BOOLEAN /\ (s.node # "none") \in BOOLEAN
      /\ (s.fake # "off") \in BOOLEAN
  OBVIOUS
<1>4. /\ one \in Seq(Given(s)) /\ two \in Seq(Given(s)) /\ three \in Seq(Given(s))
      /\ four \in Seq(Given(s)) /\ five \in Seq(Given(s)) /\ six \in Seq(Given(s))
  BY <1>1, <1>3, GivenHolds, OptionalMembers
<1>5. dnsServers(s) = AllSix(one, two, three, four, five, six)
  BY DEF dnsServers, AllSix
<1>6. /\ dnsServers(s) \in Seq(Given(s))
      /\ Members(dnsServers(s)) = Members(one) \cup Members(two) \cup Members(three)
                                  \cup Members(four) \cup Members(five) \cup Members(six)
  <2> HIDE DEF one, two, three, four, five, six, own
  <2> QED  BY <1>4, <1>5, JoinedSix
<1>7. /\ Members(one) = IF s.bootstrap # "none" THEN {Server(s, "local_local", s.bootstrap, "", "")} ELSE {}
      /\ Members(two) = IF s.remote # "none" THEN {Server(s, "remote_dns", s.remote, "proxy", "local_local")} ELSE {}
      /\ Members(three) = IF s.direct # "none" THEN {Server(s, "direct_dns", s.direct, "", "local_local")} ELSE {}
      /\ Members(four) = IF s.node # "none" THEN {own} ELSE {}
      /\ Members(five) = IF s.hosts THEN {Fixed("hosts_dns")} ELSE {}
      /\ Members(six) = IF s.fake # "off" THEN {Fixed("fake_dns")} ELSE {}
  BY <1>1, <1>3, OptionalMembers
<1> QED
  <2>1. own = Server(s, "proxy_server_dns", s.node, "", IF s.bootstrap = "none" THEN "" ELSE "local_local")
    OBVIOUS
  <2> HIDE DEF one, two, three, four, five, six, own
  <2> QED  BY <1>6, <1>7, <2>1 DEF Given

\* An object of the user's own keeps its servers, and the node's is added to them.
Own(s) == {OwnServer(o) : o \in Members(s.own)} \cup (IF s.node # "none" THEN {NodeServer(s)} ELSE {})

LEMMA ServersOfObject ==
  ASSUME NEW s \in Configurations, CustomObject(s)
  PROVE  /\ dnsServers(s) \in Seq(Own(s)) /\ Members(dnsServers(s)) = Own(s)
         /\ "" \notin Members(s.own)
<1>1. s.own \in Seq(STRING \ {""})
  BY DEF Configurations
<1>2. "" \notin Members(s.own)
  <2> DEFINE Words == STRING \ {""}
  <2>1. s.own \in Seq(Words)
    BY <1>1
  <2>2. "" \notin Words
    OBVIOUS
  <2> HIDE DEF Words
  <2> QED  BY <2>1, <2>2, MembersType
<1> DEFINE given == [i \in DOMAIN s.own |-> OwnServer(s.own[i])]
<1>3. given \in Seq(Own(s)) /\ Members(given) = {OwnServer(o) : o \in Members(s.own)}
  <2> DEFINE q == s.own
  <2>0. q \in Seq(STRING \ {""})
    BY <1>1
  <2>1. DOMAIN q = 1..Len(q) /\ Len(q) \in Nat
    BY <2>0, MembersType
  <2>2. \A i \in 1..Len(q) : OwnServer(q[i]) \in Own(s)
    BY <2>1 DEF Own, Members
  <2>3. given = [i \in 1..Len(q) |-> OwnServer(q[i])]
    BY <2>1
  <2> HIDE DEF given, q
  <2>4. given \in Seq(Own(s))
    BY <2>1, <2>2, <2>3
  <2>5. DOMAIN given = DOMAIN q /\ \A i \in DOMAIN q : given[i] = OwnServer(q[i])
    BY <2>1, <2>3
  <2>6. Members(given) = {OwnServer(o) : o \in Members(q)}
    BY <2>5 DEF Members
  <2> QED  BY <2>4, <2>6 DEF q
<1>4. (s.node # "none") \in BOOLEAN
  OBVIOUS
<1>5. /\ Optional(s.node # "none", NodeServer(s)) \in Seq(Own(s))
      /\ Members(Optional(s.node # "none", NodeServer(s))) = IF s.node # "none" THEN {NodeServer(s)} ELSE {}
  BY <1>4, OptionalMembers DEF Own
<1>6. dnsServers(s) = given \o Optional(s.node # "none", NodeServer(s))
  BY DEF dnsServers
<1> HIDE DEF given
<1>7. /\ dnsServers(s) \in Seq(Own(s))
      /\ Members(dnsServers(s)) = Members(given) \cup Members(Optional(s.node # "none", NodeServer(s)))
  BY <1>3, <1>5, <1>6, Joined
<1> QED  BY <1>2, <1>3, <1>5, <1>7 DEF Own

LEMMA TagsOfMembers == ASSUME NEW q PROVE Tags(q) = {x.tag : x \in Members(q)}
BY DEF Tags, Members

\* The tags, where the user gave the resolvers one by one, and where in an object.
LEMMA SettingsTags ==
  ASSUME NEW s \in Configurations, ~CustomObject(s)
  PROVE  /\ "" \notin Tags(dnsServers(s))
         /\ "local_local" \in Tags(dnsServers(s)) <=> s.bootstrap # "none"
         /\ "remote_dns" \in Tags(dnsServers(s)) <=> s.remote # "none"
         /\ "direct_dns" \in Tags(dnsServers(s)) <=> s.direct # "none"
         /\ "proxy_server_dns" \in Tags(dnsServers(s)) <=> s.node # "none"
         /\ "hosts_dns" \in Tags(dnsServers(s)) <=> s.hosts
         /\ "fake_dns" \in Tags(dnsServers(s)) <=> s.fake # "off"
<1>1. Tags(dnsServers(s)) = {x.tag : x \in Given(s)}
  BY ServersOfSettings, TagsOfMembers
<1>2. /\ Server(s, "local_local", s.bootstrap, "", "").tag = "local_local"
      /\ Server(s, "remote_dns", s.remote, "proxy", "local_local").tag = "remote_dns"
      /\ Server(s, "direct_dns", s.direct, "", "local_local").tag = "direct_dns"
      /\ Server(s, "proxy_server_dns", s.node, "", IF s.bootstrap = "none" THEN "" ELSE "local_local").tag
           = "proxy_server_dns"
      /\ Fixed("hosts_dns").tag = "hosts_dns" /\ Fixed("fake_dns").tag = "fake_dns"
  BY DEF Server, Fixed
<1>3. \A x \in Given(s) :
         \/ x.tag = "local_local" /\ s.bootstrap # "none"
         \/ x.tag = "remote_dns" /\ s.remote # "none"
         \/ x.tag = "direct_dns" /\ s.direct # "none"
         \/ x.tag = "proxy_server_dns" /\ s.node # "none"
         \/ x.tag = "hosts_dns" /\ s.hosts
         \/ x.tag = "fake_dns" /\ s.fake # "off"
  BY <1>2, GivenTags
<1>4. /\ s.bootstrap # "none" => \E x \in Given(s) : x.tag = "local_local"
      /\ s.remote # "none" => \E x \in Given(s) : x.tag = "remote_dns"
      /\ s.direct # "none" => \E x \in Given(s) : x.tag = "direct_dns"
      /\ s.node # "none" => \E x \in Given(s) : x.tag = "proxy_server_dns"
      /\ s.hosts => \E x \in Given(s) : x.tag = "hosts_dns"
      /\ s.fake # "off" => \E x \in Given(s) : x.tag = "fake_dns"
  BY <1>2, GivenHolds
<1> QED  BY <1>1, <1>3, <1>4

LEMMA ObjectTags ==
  ASSUME NEW s \in Configurations, CustomObject(s)
  PROVE  /\ "" \notin Tags(dnsServers(s))
         /\ s.node # "none" => "proxy_server_dns" \in Tags(dnsServers(s))
         /\ \A x \in Members(dnsServers(s)) : x.resolver = ""
<1>1. Tags(dnsServers(s)) = {x.tag : x \in Members(dnsServers(s))}
  BY TagsOfMembers
<1>2. /\ \A t : OwnServer(t).tag = t /\ OwnServer(t).resolver = ""
      /\ NodeServer(s).tag = "proxy_server_dns" /\ NodeServer(s).resolver = ""
  BY DEF OwnServer, NodeServer
<1>3. /\ \A x \in Own(s) : x.resolver = "" /\ (x.tag = "proxy_server_dns" \/ x.tag \in Members(s.own))
      /\ s.node # "none" => \E x \in Own(s) : x.tag = "proxy_server_dns"
  BY <1>2 DEF Own
<1> QED  BY <1>1, <1>3, ServersOfObject

\* The default resolver: the first of the four names that is declared, or the first server.
LEMMA DefaultIsFirstNamed ==
  ASSUME NEW S, NEW servers \in Seq(S)
  PROVE  LET d == defaultDomainResolverTag(servers)
             tags == Tags(servers)
         IN /\ "direct_dns" \in tags => d = "direct_dns"
            /\ "direct_dns" \notin tags /\ "proxy_server_dns" \in tags => d = "proxy_server_dns"
            /\ tags \cap {"direct_dns", "proxy_server_dns"} = {} /\ "local_local" \in tags
               => d = "local_local"
            /\ servers # <<>> => d \in tags
            /\ servers = <<>> => d = ""
<1> DEFINE tags == Tags(servers)
           Preferred == <<"direct_dns", "proxy_server_dns", "local_local", "remote_dns">>
           named == {i \in DOMAIN Preferred : Preferred[i] \in tags}
           first == CHOOSE i \in named : \A j \in named : i <= j
           d == defaultDomainResolverTag(servers)
<1>1. d = IF named # {} THEN Preferred[first] ELSE IF servers = <<>> THEN "" ELSE servers[1].tag
  BY DEF defaultDomainResolverTag
<1>2. named \subseteq {1, 2, 3, 4}
  OBVIOUS
<1>3. /\ 1 \in named <=> "direct_dns" \in tags
      /\ 2 \in named <=> "proxy_server_dns" \in tags
      /\ 3 \in named <=> "local_local" \in tags
      /\ 4 \in named <=> "remote_dns" \in tags
  OBVIOUS
<1>4. named # {} => first \in named /\ \A j \in named : first <= j
  <2>1. named # {} => \E i \in named : \A j \in named : i <= j
    <3> HIDE DEF named
    <3>1. CASE 1 \in named
      BY <1>2, <3>1
    <3>2. CASE 1 \notin named /\ 2 \in named
      BY <1>2, <3>2
    <3>3. CASE named \cap {1, 2} = {} /\ 3 \in named
      BY <1>2, <3>3
    <3>4. CASE named \cap {1, 2, 3} = {} /\ 4 \in named
      BY <1>2, <3>4
    <3> QED  BY <1>2, <3>1, <3>2, <3>3, <3>4
  <2> QED  BY <2>1
<1>5. servers = <<>> => tags = {}
  BY DEF Tags
<1>6. servers # <<>> => servers[1].tag \in tags
  BY DEF Tags
<1>7. /\ Preferred[1] = "direct_dns" /\ Preferred[2] = "proxy_server_dns"
      /\ Preferred[3] = "local_local" /\ Preferred[4] = "remote_dns"
  OBVIOUS
<1>8. /\ "direct_dns" \in tags => d = "direct_dns"
      /\ "direct_dns" \notin tags /\ "proxy_server_dns" \in tags => d = "proxy_server_dns"
      /\ tags \cap {"direct_dns", "proxy_server_dns"} = {} /\ "local_local" \in tags
         => d = "local_local"
      /\ servers # <<>> => d \in tags
      /\ servers = <<>> => d = ""
  <2> HIDE DEF named, first, tags, Preferred, d
  <2>1. CASE named # {}
    <3>1. first \in {1, 2, 3, 4} /\ first \in named /\ d = Preferred[first]
          /\ \A j \in named : first <= j
      BY <1>1, <1>2, <1>4, <2>1
    <3>2. servers # <<>>
      BY <1>3, <1>5, <1>2, <2>1
    <3>3. CASE first = 1
      BY <1>3, <1>7, <3>1, <3>2, <3>3
    <3>4. CASE first = 2
      <4>1. 1 \notin named
        BY <3>1, <3>4
      <4> QED  BY <1>3, <1>7, <3>1, <3>2, <3>4, <4>1
    <3>5. CASE first = 3
      <4>1. 1 \notin named /\ 2 \notin named
        BY <3>1, <3>5
      <4> QED  BY <1>3, <1>7, <3>1, <3>2, <3>5, <4>1
    <3>6. CASE first = 4
      <4>1. 1 \notin named /\ 2 \notin named /\ 3 \notin named
        BY <3>1, <3>6
      <4> QED  BY <1>3, <1>7, <3>1, <3>2, <3>6, <4>1
    <3> QED  BY <3>1, <3>3, <3>4, <3>5, <3>6
  <2>2. CASE named = {}
    BY <1>1, <1>3, <1>5, <1>6, <2>2
  <2> QED  BY <2>1, <2>2
<1> QED  BY <1>8

(***************************************************************************)
(* Every name is declared.                                                 *)
(***************************************************************************)
LEMMA RuleAtPlace ==
  ASSUME NEW s \in Configurations, NEW p \in Places(s)
  PROVE  /\ effectiveRoutingRules(s)[p] \in Rules
         /\ p = <<p[1], p[2]>> /\ p[1] \in 1..4 /\ p[2] \in Nat
<1>1. s.custom \in Seq(Rules) /\ s.profile \in Seq(Rules)
  BY DEF Configurations
<1>2. p \in (1..3) \X (DOMAIN s.custom) \/ p \in {4} \X (DOMAIN s.profile)
  BY DEF Places
<1>3. p = <<p[1], p[2]>> /\ p[1] \in 1..4 /\ p[2] \in Nat
  BY <1>1, <1>2
<1>4. effectiveRoutingRules(s)[p] = IF p[1] = 4 THEN s.profile[p[2]] ELSE s.custom[p[2]]
  BY DEF effectiveRoutingRules
<1>5. IF p[1] = 4 THEN p[2] \in DOMAIN s.profile ELSE p[2] \in DOMAIN s.custom
  BY <1>2
<1> QED  BY <1>1, <1>3, <1>4, <1>5

\* What a root asks is there, or one of the resolvers the user cleared.
LEMMA AskedAreThere ==
  ASSUME NEW s \in Configurations, ~CustomObject(s)
  PROVE  ({finalDnsServerTag(s)} \cup askedByRules(s)) \ {""} \subseteq Tags(dnsServers(s)) \cup ClearedTags(s)
<1> DEFINE There == Tags(dnsServers(s)) \cup ClearedTags(s)
<1>1. /\ "remote_dns" \in There /\ "direct_dns" \in There
      /\ s.hosts => "hosts_dns" \in There
      /\ s.fake # "off" => "fake_dns" \in There
  BY SettingsTags DEF ClearedTags
<1>2. ASSUME NEW p \in Places(s) PROVE askedByRule(s, effectiveRoutingRules(s)[p]) \subseteq There
  <2>1. effectiveRoutingRules(s)[p].out \in {"block", "direct", "proxy"}
    BY RuleAtPlace DEF Rules
  <2>2. s.fake = "scoped" => s.fake # "off"
    OBVIOUS
  <2> HIDE DEF There
  <2> QED  BY <1>1, <2>1, <2>2 DEF askedByRule
<1>3. askedByRules(s) \subseteq There
  <2>1. s.fake = "scoped" \/ s.fake = "global" => s.fake # "off"
    OBVIOUS
  <2> HIDE DEF There
  <2> QED  BY <1>1, <1>2, <2>1 DEF askedByRules
<1>4. finalDnsServerTag(s) \in There \cup {""}
  <2> HIDE DEF There
  <2> QED  BY <1>1 DEF finalDnsServerTag
<1> QED  BY <1>3, <1>4

LEMMA TypeAlways == ConfigSpec => []ConfigTypeOK
<1>1. ConfigInit => ConfigTypeOK
  BY DEF ConfigInit, ConfigTypeOK
<1>2. ConfigTypeOK /\ [ConfigNext]_configVars => ConfigTypeOK'
  BY DEF ConfigTypeOK, ConfigNext, writeClientConfigs, configVars
<1> QED  BY <1>1, <1>2, PTL DEF ConfigSpec

LEMMA TypeGivesNames == ASSUME ConfigInstance, ConfigTypeOK PROVE NamesExist
<1>1. CASE root = NoRoot
  <2>0. root.servers = <<>> /\ root.asked = {} /\ root.default = "" /\ root.node = ""
    BY <1>1 DEF NoRoot
  <2>1. Named(root) = {}
    <3>1. {root.servers[i].resolver : i \in DOMAIN root.servers} = {}
      <4>1. DOMAIN <<>> = {}
        OBVIOUS
      <4>2. DOMAIN root.servers = {}
        BY <2>0, <4>1
      <4> QED  BY <4>2
    <3> QED  BY <2>0, <3>1 DEF Named
  <2>2. ~(Len(root.servers) > 1)
    <3>1. Len(<<>>) = 0
      OBVIOUS
    <3>2. Len(root.servers) = 0
      BY <2>0, <3>1, Zenon
    <3> QED  BY <3>2
  <2> QED  BY <2>1, <2>2 DEF NamesExist
<1>2. CASE root = buildClientRoot(settings)
  <2> DEFINE servers == dnsServers(settings)
  <2>1. settings \in Configurations
    BY DEF ConfigInstance, ConfigTypeOK
  <2>2. /\ root.servers = servers /\ root.default = defaultDomainResolverTag(servers)
        /\ root.node = buildPrimaryOutbound(settings)
        /\ root.asked = IF CustomObject(settings) \/ servers = <<>> THEN {}
                        ELSE {finalDnsServerTag(settings)} \cup askedByRules(settings)
    BY <1>2 DEF buildClientRoot
  <2>3. \E S : servers \in Seq(S)
    BY <2>1, ServersOfSettings, ServersOfObject
  <2>4. "" \notin Tags(servers)
    BY <2>1, SettingsTags, ObjectTags
  <2>5. root.default \in Tags(servers) \cup {""} /\ (Len(root.servers) > 1 => root.default # "")
    <3>1. Len(servers) > 1 => servers # <<>>
      OBVIOUS
    <3> QED  BY <3>1, <2>2, <2>3, <2>4, DefaultIsFirstNamed
  <2>6. root.node \in Tags(servers) \cup {""}
    BY <2>1, <2>2, SettingsTags, ObjectTags DEF buildPrimaryOutbound
  <2>7. root.asked \ {""} \subseteq Tags(servers) \cup ClearedTags(settings)
    BY <2>1, <2>2, AskedAreThere
  <2>8. {servers[i].resolver : i \in DOMAIN servers} = {x.resolver : x \in Members(servers)}
    BY DEF Members
  <2>9. CASE CustomObject(settings)
    <3>1. root.asked = {}
      BY <2>2, <2>9
    <3>2. {servers[i].resolver : i \in DOMAIN servers} \subseteq {""}
      BY <2>1, <2>8, <2>9, ObjectTags
    <3> HIDE DEF servers
    <3> QED  BY <2>2, <2>5, <2>6, <2>9, <3>1, <3>2 DEF NamesExist, Named
  <2>10. CASE ~CustomObject(settings)
    <3>1. ASSUME NEW x \in Members(servers)
          PROVE  x.resolver \in {""} \cup Tags(servers) \cup ClearedTags(settings)
      <4>1. x.resolver \in {"", "local_local"} \/ (settings.hosts /\ x.resolver = "hosts_dns")
        BY <2>1, <2>10, ServersOfSettings, GivenResolvers
      <4>2. "local_local" \in Tags(servers) \cup ClearedTags(settings)
        BY <2>1, <2>10, SettingsTags DEF ClearedTags
      <4>3. settings.hosts => "hosts_dns" \in Tags(servers)
        BY <2>1, <2>10, SettingsTags
      <4> QED  BY <4>1, <4>2, <4>3
    <3>2. {servers[i].resolver : i \in DOMAIN servers} \subseteq {""} \cup Tags(servers) \cup ClearedTags(settings)
      BY <2>8, <3>1
    <3>3. Named(root) \ Tags(root.servers) \subseteq ClearedTags(settings)
      <4> HIDE DEF servers
      <4> QED  BY <2>2, <2>5, <2>6, <2>7, <3>2 DEF Named
    <3> QED  BY <2>5, <2>10, <3>3 DEF NamesExist
  <2> QED  BY <2>9, <2>10
<1> QED  BY <1>1, <1>2 DEF ConfigTypeOK

(***************************************************************************)
(* The node is found.                                                      *)
(***************************************************************************)
\* No two of the servers made from the settings have the same tag.
LEMMA GivenIsUnique ==
  ASSUME NEW s, NEW x \in Given(s), NEW y \in Given(s), x.tag = y.tag
  PROVE  x = y
<1> DEFINE a == Server(s, "local_local", s.bootstrap, "", "")
           b == Server(s, "remote_dns", s.remote, "proxy", "local_local")
           c == Server(s, "direct_dns", s.direct, "", "local_local")
           d == Server(s, "proxy_server_dns", s.node, "", IF s.bootstrap = "none" THEN "" ELSE "local_local")
           e == Fixed("hosts_dns")
           f == Fixed("fake_dns")
<1>1. /\ a.tag = "local_local" /\ b.tag = "remote_dns" /\ c.tag = "direct_dns"
      /\ d.tag = "proxy_server_dns" /\ e.tag = "hosts_dns" /\ f.tag = "fake_dns"
  BY DEF Server, Fixed
<1>2. x \in {a, b, c, d, e, f} /\ y \in {a, b, c, d, e, f}
  BY GivenTags
<1> HIDE DEF a, b, c, d, e, f
<1> QED  BY <1>1, <1>2

LEMMA ServerAt ==
  ASSUME NEW s \in Configurations, ~CustomObject(s), NEW x \in Given(s), NEW r, r = buildClientRoot(s)
  PROVE  x.tag \in Tags(r.servers) /\ r.servers[At(r, x.tag)] = x
<1>1. r.servers = dnsServers(s)
  BY DEF buildClientRoot
<1>2. Members(r.servers) = Given(s)
  BY <1>1, ServersOfSettings
<1>3. PICK i \in DOMAIN r.servers : r.servers[i] = x
  BY <1>2 DEF Members
<1>4. At(r, x.tag) \in DOMAIN r.servers /\ r.servers[At(r, x.tag)].tag = x.tag
  BY <1>3 DEF At
<1>5. r.servers[At(r, x.tag)] \in Given(s)
  BY <1>2, <1>4 DEF Members
<1>6. r.servers[At(r, x.tag)] = x
  BY <1>4, <1>5, GivenIsUnique
<1>7. x.tag \in Tags(r.servers)
  BY <1>3 DEF Tags
<1> QED  BY <1>6, <1>7

\* Where each server's own name is asked at, if the bootstrap resolver needs nobody.
LEMMA NextOfEach ==
  ASSUME NEW s \in Configurations, ~CustomObject(s),
         s.bootstrap = "ip" \/ (s.bootstrap = "known" /\ s.hosts), NEW r, r = buildClientRoot(s)
  PROVE  LET Table == {t \in {"hosts_dns"} : s.hosts}
         IN /\ NextServer(r, "") = ""
            /\ s.hosts => NextServer(r, "hosts_dns") = ""
            /\ NextServer(r, "local_local") \in {""} \cup Table
            /\ s.direct # "none" => NextServer(r, "direct_dns") \in {"", "local_local"} \cup Table
            /\ s.node # "none" => NextServer(r, "proxy_server_dns") \in {"", "local_local"} \cup Table
<1> DEFINE Next2(x) == IF x.address = "ip" THEN "" ELSE IF x.resolver # "" THEN x.resolver ELSE r.default
<1>1. ASSUME NEW x \in Given(s) PROVE NextServer(r, x.tag) = Next2(x)
  <2>1. x.tag \in Tags(r.servers) /\ r.servers[At(r, x.tag)] = x
    BY <1>1, ServerAt
  <2> QED  BY <2>1 DEF NextServer
<1>2. NextServer(r, "") = ""
  <2>1. "" \notin Tags(r.servers)
    BY SettingsTags DEF buildClientRoot
  <2> QED  BY <2>1 DEF NextServer
<1>3. /\ s.bootstrap # "none" /\ s.hosts \in BOOLEAN
      /\ s.direct \in Addresses /\ s.node \in Addresses
  BY DEF Configurations
<1>4. s.hosts => NextServer(r, "hosts_dns") = ""
  <2>1. Fixed("hosts_dns").tag = "hosts_dns" /\ Fixed("hosts_dns").address = "ip"
    BY DEF Fixed
  <2> QED  BY <1>1, <2>1, GivenHolds
<1>5. NextServer(r, "local_local") \in {""} \cup {t \in {"hosts_dns"} : s.hosts}
  <2> DEFINE x == Server(s, "local_local", s.bootstrap, "", "")
  <2>1. x \in Given(s)
    BY <1>3, GivenHolds
  <2>2. x.tag = "local_local" /\ x.address = s.bootstrap
        /\ x.resolver = IF s.bootstrap = "known" /\ s.hosts THEN "hosts_dns" ELSE ""
    BY DEF Server
  <2> HIDE DEF x
  <2> QED  BY <1>1, <1>3, <2>1, <2>2
<1>6. s.direct # "none" => NextServer(r, "direct_dns") \in {"", "local_local"} \cup {t \in {"hosts_dns"} : s.hosts}
  <2> DEFINE x == Server(s, "direct_dns", s.direct, "", "local_local")
  <2>1. s.direct # "none" => x \in Given(s)
    BY GivenHolds
  <2>2. x.tag = "direct_dns"
        /\ x.resolver = IF s.direct = "known" /\ s.hosts THEN "hosts_dns" ELSE "local_local"
    BY DEF Server
  <2> HIDE DEF x
  <2> QED  BY <1>1, <2>1, <2>2
<1>7. s.node # "none" => NextServer(r, "proxy_server_dns") \in {"", "local_local"} \cup {t \in {"hosts_dns"} : s.hosts}
  <2> DEFINE x == Server(s, "proxy_server_dns", s.node, "", IF s.bootstrap = "none" THEN "" ELSE "local_local")
  <2>1. s.node # "none" => x \in Given(s)
    BY GivenHolds
  <2>2. x.tag = "proxy_server_dns"
        /\ x.resolver = IF s.node = "known" /\ s.hosts THEN "hosts_dns" ELSE "local_local"
    BY <1>3 DEF Server
  <2> HIDE DEF x
  <2> QED  BY <1>1, <2>1, <2>2
<1> QED  BY <1>2, <1>4, <1>5, <1>6, <1>7

LEMMA TypeFindsNode == ASSUME ConfigInstance, ConfigTypeOK PROVE NodeIsFound
<1> DEFINE s == settings
<1>1. SUFFICES ASSUME root # NoRoot, ~CustomObject(s), s.bootstrap = "ip" \/ (s.bootstrap = "known" /\ s.hosts)
               PROVE  LET lookup == NodeLookup(root)
                      IN (\A i \in 1..3 : lookup[i] # "remote_dns") /\ lookup[4] = ""
  BY DEF NodeIsFound
<1>2. s \in Configurations /\ root = buildClientRoot(s) /\ s.hosts \in BOOLEAN
  BY <1>1 DEF ConfigInstance, ConfigTypeOK, Configurations
<1> DEFINE first == IF root.node # "" THEN root.node ELSE root.default
           second == NextServer(root, first)
           third == NextServer(root, second)
           fourth == NextServer(root, third)
<1>3. \/ first = "proxy_server_dns" /\ s.node # "none"
      \/ first = "direct_dns" /\ s.direct # "none"
      \/ first = "local_local"
  <2>1. root.node = buildPrimaryOutbound(s) /\ root.default = defaultDomainResolverTag(dnsServers(s))
    BY <1>2 DEF buildClientRoot
  <2>2. s.bootstrap # "none"
    BY <1>1
  <2>3. dnsServers(s) \in Seq(Given(s))
    BY <1>1, <1>2, ServersOfSettings
  <2>4. \/ root.default = "direct_dns" /\ s.direct # "none"
        \/ root.default = "proxy_server_dns" /\ s.node # "none"
        \/ root.default = "local_local"
    BY <1>1, <1>2, <2>1, <2>2, <2>3, SettingsTags, DefaultIsFirstNamed
  <2> QED  BY <2>1, <2>4 DEF buildPrimaryOutbound
<1> DEFINE Table == {t \in {"hosts_dns"} : s.hosts}
<1>4. /\ NextServer(root, "") = ""
      /\ s.hosts => NextServer(root, "hosts_dns") = ""
      /\ NextServer(root, "local_local") \in {""} \cup Table
      /\ s.direct # "none" => NextServer(root, "direct_dns") \in {"", "local_local"} \cup Table
      /\ s.node # "none" => NextServer(root, "proxy_server_dns") \in {"", "local_local"} \cup Table
  BY <1>1, <1>2, NextOfEach
<1>5. second \in {"", "local_local"} \cup Table
  <2> HIDE DEF first
  <2> QED  BY <1>3, <1>4
<1>6. third \in {""} \cup Table
  <2> HIDE DEF second
  <2> QED  BY <1>4, <1>5
<1>7. fourth = ""
  <2> HIDE DEF third
  <2> QED  BY <1>4, <1>6
<1>8. /\ NodeLookup(root)[1] = first /\ NodeLookup(root)[2] = second
      /\ NodeLookup(root)[3] = third /\ NodeLookup(root)[4] = fourth
  BY DEF NodeLookup
<1> HIDE DEF first, second, third, fourth
<1>9. first # "remote_dns" /\ second # "remote_dns" /\ third # "remote_dns"
  BY <1>3, <1>5, <1>6
<1>10. \A i \in 1..3 : i = 1 \/ i = 2 \/ i = 3
  OBVIOUS
<1> QED  BY <1>7, <1>8, <1>9, <1>10

(***************************************************************************)
(* The first rule that takes a connection.                                 *)
(***************************************************************************)
LEMMA PlacesAreNumbered ==
  ASSUME NEW s \in Configurations
  PROVE  Places(s) \subseteq Nat \X Nat /\ NoPlace \notin Places(s)
<1>1. ASSUME NEW p \in Places(s) PROVE p \in Nat \X Nat /\ p # NoPlace
  <2>1. p = <<p[1], p[2]>> /\ p[1] \in 1..4 /\ p[2] \in Nat
    BY RuleAtPlace
  <2>2. p[1] \in Nat /\ p[1] # 5
    BY <2>1
  <2>3. NoPlace[1] = 5
    BY DEF NoPlace
  <2> QED  BY <2>1, <2>2, <2>3
<1> QED  BY <1>1

LEMMA LessThanWellFounded == IsWellFoundedOn({p \in Nat \X Nat : p[1] < p[2]}, Nat)
BY NatLessThanWellFounded DEF OpToRel

\* Among any places there is a first one, and only one.
LEMMA FirstIsFirst ==
  ASSUME NEW taken \in SUBSET (Nat \X Nat), taken # {}
  PROVE  /\ First(taken) \in taken
         /\ \A q \in taken : ~Before(q, First(taken))
         /\ \A p \in taken : (\A q \in taken : ~Before(q, p)) => p = First(taken)
<1> DEFINE L == {p \in Nat \X Nat : p[1] < p[2]}
           R == LexPairOrdering(L, L, Nat, Nat)
<1>1. IsWellFoundedOn(R, Nat \X Nat)
  <2>1. IsWellFoundedOn(L, Nat)
    BY LessThanWellFounded
  <2> HIDE DEF L
  <2> QED  BY <2>1, WFLexPairOrdering
<1>2. ASSUME NEW p \in Nat \X Nat, NEW q \in Nat \X Nat, Before(p, q) PROVE <<p, q>> \in R
  <2>1. p[1] \in Nat /\ q[1] \in Nat /\ p[2] \in Nat /\ q[2] \in Nat
    OBVIOUS
  <2>2. <<p[1], q[1]>> \in L \/ (p[1] = q[1] /\ <<p[2], q[2]>> \in L)
    BY <1>2, <2>1 DEF Before
  <2> HIDE DEF L
  <2> QED  BY <2>2 DEF LexPairOrdering
<1>3. \E p \in taken : \A q \in taken : ~Before(q, p)
  <2>1. PICK p \in taken : \A q \in taken : ~(<<q, p>> \in R)
    <3> HIDE DEF R
    <3> QED  BY <1>1, WFMin
  <2> HIDE DEF R
  <2> QED  BY <1>2, <2>1
<1>4. First(taken) \in taken /\ \A q \in taken : ~Before(q, First(taken))
  BY <1>3 DEF First
<1>5. ASSUME NEW p \in taken, \A q \in taken : ~Before(q, p) PROVE p = First(taken)
  <2> DEFINE f == First(taken)
  <2>1. ~Before(p, f) /\ ~Before(f, p)
    BY <1>4, <1>5
  <2>2. p \in Nat \X Nat /\ f \in Nat \X Nat
    BY <1>4
  <2> HIDE DEF f
  <2>3. p[1] = f[1] /\ p[2] = f[2]
    <3>1. p[1] \in Nat /\ f[1] \in Nat /\ p[2] \in Nat /\ f[2] \in Nat
      BY <2>2
    <3> QED  BY <2>1, <3>1 DEF Before
  <2> QED  BY <2>2, <2>3 DEF f
<1> QED  BY <1>4, <1>5

(***************************************************************************)
(* Which rules take a connection, in each core.                            *)
(***************************************************************************)
LEMMA ValuesOf ==
  ASSUME NEW r \in Rules
  PROVE  /\ \A any \in ValueLists(r) : any # {} /\ (any = r.domain \/ any = r.ip \/ any = r.process)
         /\ r.domain # {} => r.domain \in ValueLists(r)
         /\ r.ip # {} => r.ip \in ValueLists(r)
         /\ r.process # {} => r.process \in ValueLists(r)
         /\ r.domain \subseteq Domains /\ r.ip \subseteq Ips /\ r.process \subseteq {"process"}
         /\ r.all \subseteq Ports \cup {"protocol"}
<1>1. /\ r.domain \subseteq Domains /\ r.ip \subseteq Ips /\ r.process \subseteq {"process"}
      /\ r.all \subseteq Ports \cup {"protocol"}
  BY DEF Rules
<1> QED  BY <1>1 DEF ValueLists

\* The connections of the property: nothing that is left out, and no value that would be
\* read more narrowly here than there.
LEMMA ConnectionsArePlain ==
  ASSUME NEW conn \in Connections
  PROVE  /\ conn \cap Dropped = {} /\ "lan" \notin conn /\ "every" \in conn
         /\ "dotless" \in conn <=> "undotted" \in conn
<1>1. PICK any \in SUBSET (Matchers \ (Dropped \cup {"lan", "every"})) :
        conn = any \cup Undotted(any) \cup {"every"}
  BY DEF Connections
<1>2. "undotted" \notin any /\ "lan" \notin any /\ any \cap Dropped = {}
  BY <1>1 DEF Matchers, Domains, Ips, Ports
<1>3. Undotted(any) = IF "dotless" \in any THEN (any \ {"dotless"}) \cup {"undotted"} ELSE any
  BY DEF Undotted, Narrower
<1>4. "undotted" \notin Dropped /\ "every" \notin Dropped
  BY DEF Dropped
<1>5. conn = IF "dotless" \in any THEN any \cup {"undotted", "every"} ELSE any \cup {"every"}
  BY <1>1, <1>3
<1> HIDE DEF Dropped
<1> QED  BY <1>2, <1>4, <1>5

LEMMA NamesArePlain ==
  ASSUME NEW conn \in ByWholeName
  PROVE  /\ conn \subseteq (Domains \ Dropped) \cup {"every", "whole"} /\ conn \cap Dropped = {}
         /\ "every" \in conn
         /\ "bare" \in conn <=> "whole" \in conn
<1>1. PICK any \in SUBSET (Domains \ Dropped) :
        conn = (any \cup {"every"}) \cup WholeNames(any \cup {"every"})
  BY DEF ByWholeName, ByName
<1>2. "whole" \notin any /\ any \cap Dropped = {}
  BY <1>1 DEF Domains
<1>3. "whole" \notin Dropped /\ "every" \notin Dropped
  BY DEF Dropped
<1>4. conn = IF "bare" \in any THEN any \cup {"whole", "every"} ELSE any \cup {"every"}
  BY <1>1 DEF WholeNames, Narrower
<1> QED  BY <1>1, <1>2, <1>3, <1>4

\* A list of values takes the same of them, read narrowly or not.
LEMMA UndottedTakesAlike ==
  ASSUME NEW any, "undotted" \notin any, NEW conn \in Connections
  PROVE  /\ Undotted(any) \cap conn # {} <=> any \cap conn # {}
         /\ Undotted(any) = {} <=> any = {}
BY ConnectionsArePlain DEF Undotted, Narrower

LEMMA WholeTakesAlike ==
  ASSUME NEW any, "whole" \notin any, NEW conn \in ByWholeName
  PROVE  WholeNames(any) \cap conn # {} <=> any \cap conn # {}
BY NamesArePlain DEF WholeNames, Narrower

\* sing-box and Xray.
LEMMA XrayTakesAlike ==
  ASSUME NEW r \in Rules, Expressible(r), NEW conn \in Connections
  PROVE  Takes("xray", r, conn) <=> Takes("sing-box", r, conn)
<1>1. CASE ValueLists(r) # {}
  <2>1. /\ appendRoutingRule(r, {}) = {Entry(any \ {}, r.all) : any \in ValueLists(r)}
        /\ appendSingBoxRoutingRule(r) = {Entry(any \ Dropped, r.all) : any \in ValueLists(r)}
    BY <1>1 DEF appendSingBoxRoutingRule, appendRoutingRule
  <2>2. ASSUME NEW any \in ValueLists(r)
        PROVE  Matches(Entry(Undotted(any \ {}), r.all), conn) <=> Matches(Entry(any \ Dropped, r.all), conn)
    <3>1. any # {} /\ any \ Dropped # {} /\ "undotted" \notin any
      BY ValuesOf DEF Expressible, Domains, Ips
    <3>2. any \cap conn # {} <=> (any \ Dropped) \cap conn # {}
      BY ConnectionsArePlain
    <3>3. any \ {} = any
      OBVIOUS
    <3>4. /\ Undotted(any) \cap conn # {} <=> any \cap conn # {}
          /\ Undotted(any) # {}
      BY <3>1, UndottedTakesAlike
    <3> QED  BY <3>1, <3>2, <3>3, <3>4 DEF Matches, Entry
  <2>3. Takes("xray", r, conn) <=> \E any \in ValueLists(r) : Matches(Entry(Undotted(any \ {}), r.all), conn)
    <3>1. \A any : Entry(any, r.all).any = any /\ Entry(any, r.all).all = r.all
      BY DEF Entry
    <3>2. Takes("xray", r, conn) <=> \E e \in appendRoutingRule(r, {}) : Matches(Entry(Undotted(e.any), e.all), conn)
      BY DEF Takes, appendLegacyRoutingRule
    <3> QED  BY <2>1, <3>1, <3>2
  <2>4. Takes("sing-box", r, conn) <=> \E any \in ValueLists(r) : Matches(Entry(any \ Dropped, r.all), conn)
    BY <2>1 DEF Takes
  <2> QED  BY <2>2, <2>3, <2>4
<1>2. CASE ValueLists(r) = {}
  <2>1. appendRoutingRule(r, {}) = appendSingBoxRoutingRule(r)
    BY <1>2 DEF appendSingBoxRoutingRule, appendRoutingRule
  <2>2. \A e \in appendRoutingRule(r, {}) : Entry(Undotted(e.any), e.all) = e
    BY <1>2 DEF appendRoutingRule, Entry, Undotted, Narrower
  <2>3. appendLegacyRoutingRule(r) = appendSingBoxRoutingRule(r)
    BY <2>1, <2>2 DEF appendLegacyRoutingRule
  <2> QED  BY <2>3 DEF Takes
<1> QED  BY <1>1, <1>2

\* What sing-box takes: any of the values, all of the conditions.
LEMMA SingBoxTakes ==
  ASSUME NEW r \in Rules, Expressible(r), NEW conn, conn \cap Dropped = {}
  PROVE  Takes("sing-box", r, conn) <=>
           /\ r.all \subseteq conn
           /\ ValueLists(r) = {} \/ \E any \in ValueLists(r) : any \cap conn # {}
<1>1. CASE ValueLists(r) # {}
  <2>1. appendSingBoxRoutingRule(r) = {Entry(any \ Dropped, r.all) : any \in ValueLists(r)}
    BY <1>1 DEF appendSingBoxRoutingRule, appendRoutingRule
  <2>2. ASSUME NEW any \in ValueLists(r)
        PROVE  Matches(Entry(any \ Dropped, r.all), conn) <=> any \cap conn # {} /\ r.all \subseteq conn
    <3>1. any \ Dropped # {}
      BY DEF Expressible
    <3>2. any \cap conn # {} <=> (any \ Dropped) \cap conn # {}
      OBVIOUS
    <3> QED  BY <3>1, <3>2 DEF Matches, Entry
  <2>3. Takes("sing-box", r, conn) <=> \E any \in ValueLists(r) : Matches(Entry(any \ Dropped, r.all), conn)
    BY <2>1 DEF Takes
  <2> QED  BY <1>1, <2>2, <2>3
<1>2. CASE ValueLists(r) = {}
  <2>1. appendSingBoxRoutingRule(r) = {Entry({}, r.all)}
    BY <1>2 DEF appendSingBoxRoutingRule, appendRoutingRule, Expressible
  <2>2. Matches(Entry({}, r.all), conn) <=> r.all \subseteq conn
    BY DEF Matches, Entry
  <2> QED  BY <1>2, <2>1, <2>2 DEF Takes
<1> QED  BY <1>1, <1>2

\* mihomo, which has a rule for each value.
LEMMA MihomoTakesAlike ==
  ASSUME NEW r \in Rules, Expressible(r), PortOrValues(r), NEW conn, conn \cap Dropped = {}
  PROVE  Takes("mihomo", r, conn) <=> Takes("sing-box", r, conn)
<1>1. ASSUME NEW v PROVE Matches(Entry({v}, {}), conn) <=> v \in conn
  BY DEF Matches, Entry
<1>2. ASSUME NEW p PROVE Matches(Entry({}, {p}), conn) <=> p \in conn
  BY DEF Matches, Entry
<1>3. Takes("mihomo", r, conn) <=>
        \/ \E v \in (UNION ValueLists(r)) \ {"file"} : Matches(Entry({v}, {}), conn)
        \/ \E p \in r.all \cap Ports : Matches(Entry({}, {p}), conn)
  BY DEF Takes, appendMihomoRules
<1>4. "file" \notin conn
  BY DEF Dropped
<1>5. Takes("mihomo", r, conn) <=>
        (\E any \in ValueLists(r) : any \cap conn # {}) \/ r.all \cap Ports \cap conn # {}
  BY <1>1, <1>2, <1>3, <1>4
<1>6. CASE r.all = {}
  <2>1. ValueLists(r) # {}
    BY <1>6 DEF Expressible
  <2> QED  BY <1>5, <1>6, <2>1, SingBoxTakes
<1>7. CASE ValueLists(r) = {} /\ \E p \in Ports : r.all = {p}
  BY <1>5, <1>7, SingBoxTakes
<1> QED  BY <1>6, <1>7 DEF PortOrValues

(***************************************************************************)
(* One decision.                                                           *)
(***************************************************************************)
Taken(s, core, conn) == {p \in Places(s) : Takes(core, effectiveRoutingRules(s)[p], conn)}

LEMMA DeciderIsFirst == ASSUME NEW s, NEW core, NEW conn
                        PROVE  Decider(s, core, conn) = First(Taken(s, core, conn))
<1>1. DOMAIN effectiveRoutingRules(s) = Places(s)
  BY DEF effectiveRoutingRules
<1> QED  BY <1>1 DEF Decider, Taken

LEMMA GoesTheSameWay == ASSUME NEW s \in Configurations, AllExpressible(s) PROVE SameWay(s)
<1> DEFINE rule(p) == effectiveRoutingRules(s)[p]
<1>1. ASSUME NEW conn \in Connections, ~s.fragment \/ Decider(s, "xray", conn) # NoPlace
      PROVE  Verdict(s, "xray", conn) = Verdict(s, "sing-box", conn)
  <2>1. Taken(s, "xray", conn) = Taken(s, "sing-box", conn)
    <3>1. \A p \in Places(s) : Takes("xray", rule(p), conn) <=> Takes("sing-box", rule(p), conn)
      BY RuleAtPlace, XrayTakesAlike, ConnectionsArePlain DEF AllExpressible
    <3> QED  BY <3>1 DEF Taken
  <2>2. Decider(s, "xray", conn) = Decider(s, "sing-box", conn)
    BY <2>1, DeciderIsFirst
  <2>3. Default(s, "sing-box") = "proxy" /\ (~s.fragment => Default(s, "xray") = "proxy")
    BY DEF Default
  <2> QED  BY <1>1, <2>2, <2>3, ConnectionsArePlain DEF Verdict
<1>2. ASSUME NEW conn \in Connections, \A p \in Places(s) : PortOrValues(rule(p)), "probe" \notin conn
      PROVE  Verdict(s, "mihomo", conn) = Verdict(s, "sing-box", conn)
  <2>1. Taken(s, "mihomo", conn) = Taken(s, "sing-box", conn)
    <3>1. \A p \in Places(s) : Takes("mihomo", rule(p), conn) <=> Takes("sing-box", rule(p), conn)
      BY <1>2, RuleAtPlace, MihomoTakesAlike, ConnectionsArePlain DEF AllExpressible
    <3> QED  BY <3>1 DEF Taken
  <2>2. Decider(s, "mihomo", conn) = Decider(s, "sing-box", conn)
    BY <2>1, DeciderIsFirst
  <2>3. Default(s, "sing-box") = "proxy" /\ Default(s, "mihomo") = "proxy"
    BY DEF Default
  <2> QED  BY <1>2, <2>2, <2>3, ConnectionsArePlain DEF Verdict
<1>3. ASSUME NEW rules, rules = {rule(p) : p \in Places(s)}, \A r \in rules : PortOrValues(r)
      PROVE  \A p \in Places(s) : PortOrValues(rule(p))
  BY <1>3
<1> QED  BY <1>1, <1>2, <1>3 DEF SameWay

\* Places whose names sing-box has a resolver's rule for.
Naming(s, conn) ==
    {q \in Places(s) : WholeNames(effectiveRoutingRules(s)[q].domain \ Dropped) \cap conn # {}}

LEMMA AskedAtFirstNaming ==
  ASSUME NEW s, NEW conn
  PROVE  LET p == First(Naming(s, conn))
         IN askedAt(s, conn) = IF p # NoPlace THEN askedByRule(s, effectiveRoutingRules(s)[p]) \ {"fake_dns"}
                               ELSE {finalDnsServerTag(s)}
<1>1. DOMAIN effectiveRoutingRules(s) = Places(s)
  BY DEF effectiveRoutingRules
<1> QED  BY <1>1 DEF askedAt, Naming

\* A rule that lists names decides exactly where its resolver's rule does.
LEMMA NamingIsTaking ==
  ASSUME NEW s \in Configurations, AllExpressible(s), NEW conn \in ByWholeName,
         NEW p \in Places(s), NamesAlone(effectiveRoutingRules(s)[p])
  PROVE  /\ p \in Naming(s, conn) => p \in Taken(s, "sing-box", conn)
         /\ p \in Taken(s, "sing-box", conn) /\ effectiveRoutingRules(s)[p].domain # {}
            => p \in Naming(s, conn)
         /\ p \in Taken(s, "sing-box", conn) /\ effectiveRoutingRules(s)[p].domain = {}
            => /\ ValueLists(effectiveRoutingRules(s)[p]) = {}
               /\ effectiveRoutingRules(s)[p].all \subseteq conn
<1> DEFINE r == effectiveRoutingRules(s)[p]
<1>1. r \in Rules /\ Expressible(r) /\ NamesAlone(r)
  BY RuleAtPlace DEF AllExpressible
<1>2. p \in Naming(s, conn) <=> WholeNames(r.domain \ Dropped) \cap conn # {}
  BY DEF Naming
<1>3. p \in Taken(s, "sing-box", conn) <=> Takes("sing-box", r, conn)
  BY DEF Taken
<1> HIDE DEF r
<1>4. conn \subseteq (Domains \ Dropped) \cup {"every", "whole"} /\ conn \cap Dropped = {}
  BY NamesArePlain
<1>5. Takes("sing-box", r, conn) <=>
        r.all \subseteq conn /\ (ValueLists(r) = {} \/ \E any \in ValueLists(r) : any \cap conn # {})
  BY <1>1, <1>4, SingBoxTakes
<1>6. r.ip \cap conn = {} /\ r.process \cap conn = {}
  <2>1. Ips \cap conn = {} /\ {"process"} \cap conn = {}
    BY <1>4 DEF Domains, Dropped, Ips
  <2> QED  BY <1>1, <2>1, ValuesOf
<1>7. WholeNames(r.domain \ Dropped) \cap conn # {} <=> r.domain \cap conn # {}
  <2>1. "whole" \notin r.domain \ Dropped
    BY <1>1, ValuesOf DEF Domains
  <2> QED  BY <1>4, <2>1, WholeTakesAlike
<1>8. r.domain # {} => r.all = {}
  BY <1>1 DEF NamesAlone
<1>9. r.domain \cap conn # {} => Takes("sing-box", r, conn)
  BY <1>1, <1>5, <1>8, ValuesOf
<1>10. Takes("sing-box", r, conn) => r.domain \cap conn # {} \/ ValueLists(r) = {}
  BY <1>1, <1>5, <1>6, ValuesOf
<1>11. ValueLists(r) = {} => r.domain = {}
  BY <1>1, ValuesOf
<1> QED  BY <1>2, <1>3, <1>5, <1>7, <1>9, <1>10, <1>11 DEF r

\* The profile's last rule, when it takes what lists no names, says where the rest goes.
LEMMA LastDecides ==
  ASSUME NEW s \in Configurations, AllExpressible(s), NEW conn \in ByWholeName,
         NEW p \in Places(s), NamesAlone(effectiveRoutingRules(s)[p]), p = <<4, Len(s.profile)>>,
         ValueLists(effectiveRoutingRules(s)[p]) = {}, effectiveRoutingRules(s)[p].all \subseteq conn
  PROVE  usesDirectDnsAsFinalServer(s) <=> effectiveRoutingRules(s)[p].out = "direct"
<1> DEFINE r == effectiveRoutingRules(s)[p]
<1>1. r = s.profile[Len(s.profile)] /\ s.profile # <<>>
  <2>1. r = s.profile[Len(s.profile)]
    BY DEF effectiveRoutingRules
  <2>2. p \in {4} \X (DOMAIN s.profile)
    BY DEF Places
  <2>3. Len(s.profile) \in DOMAIN s.profile
    BY <2>2
  <2> QED  BY <2>1, <2>3
<1>2. r \in Rules
  BY RuleAtPlace
<1> HIDE DEF r
<1>3. r.domain = {} /\ r.ip = {} /\ r.process = {}
  BY <1>2, ValuesOf DEF r
<1>4. "web" \notin r.all
  BY NamesArePlain DEF r, Domains, Dropped
<1> QED  BY <1>1, <1>3, <1>4 DEF usesDirectDnsAsFinalServer, r

\* Unless every place was passed by, the profile's last rule does not send the rest
\* directly.
LEMMA NothingTaken ==
  ASSUME NEW s \in Configurations, AllExpressible(s), NEW conn \in ByWholeName,
         \A p \in Places(s) : NamesAlone(effectiveRoutingRules(s)[p]),
         Taken(s, "sing-box", conn) = {}
  PROVE  ~usesDirectDnsAsFinalServer(s)
<1> SUFFICES ASSUME usesDirectDnsAsFinalServer(s) PROVE FALSE
  OBVIOUS
<1> DEFINE p == <<4, Len(s.profile)>>
           r == effectiveRoutingRules(s)[p]
<1>1. s.profile # <<>> /\ s.profile \in Seq(Rules)
  BY DEF usesDirectDnsAsFinalServer, Configurations
<1>2. p \in Places(s)
  <2>1. Len(s.profile) \in DOMAIN s.profile
    BY <1>1
  <2> QED  BY <2>1 DEF Places
<1>3. r = s.profile[Len(s.profile)]
  BY <1>2 DEF effectiveRoutingRules
<1>4. r \in Rules /\ Expressible(r) /\ NamesAlone(r)
  BY <1>2, RuleAtPlace DEF AllExpressible
<1> HIDE DEF r
<1>5. ValueLists(r) = {} /\ "web" \notin r.all /\ "protocol" \notin r.all
  BY <1>3, <1>4 DEF usesDirectDnsAsFinalServer, ValueLists, NamesAlone
<1>6. r.all \subseteq {"every"}
  BY <1>4, <1>5, ValuesOf DEF Ports
<1>7. "every" \in conn /\ conn \cap Dropped = {}
  BY NamesArePlain
<1>8. Takes("sing-box", r, conn)
  BY <1>4, <1>5, <1>6, <1>7, SingBoxTakes
<1> QED  BY <1>2, <1>8 DEF Taken, r

LEMMA AskedAlike == ASSUME NEW s \in Configurations, AllExpressible(s) PROVE AskedTheSameWay(s, ByWholeName)
<1> DEFINE rule(p) == effectiveRoutingRules(s)[p]
<1>1. SUFFICES ASSUME s.remote \notin {"none", "object"}, s.direct # "none",
                      \A p \in Places(s) : NamesAlone(rule(p)),
                      NEW conn \in ByWholeName, NamesDecide(s, Decider(s, "sing-box", conn))
               PROVE  askedAt(s, conn) = CASE Verdict(s, "sing-box", conn) = "direct" -> {"direct_dns"}
                                           [] Verdict(s, "sing-box", conn) = "proxy" -> {"remote_dns"}
                                           [] Verdict(s, "sing-box", conn) = "block" -> {}
  BY DEF AskedTheSameWay
<1> DEFINE taken == Taken(s, "sing-box", conn)
           naming == Naming(s, conn)
           p == First(taken)
<1>2. p = Decider(s, "sing-box", conn)
  BY DeciderIsFirst
<1>3. "probe" \notin conn /\ "lan" \notin conn
  BY NamesArePlain DEF Domains
<1>4. Verdict(s, "sing-box", conn) = IF p # NoPlace THEN rule(p).out ELSE "proxy"
  <2> HIDE DEF p
  <2> QED  BY <1>2, <1>3 DEF Verdict, Default
<1>5. taken \in SUBSET (Nat \X Nat) /\ naming \in SUBSET (Nat \X Nat) /\ NoPlace \notin taken
      /\ taken \subseteq Places(s) /\ naming \subseteq Places(s)
  BY PlacesAreNumbered DEF Taken, Naming
<1>6. naming \subseteq taken
  BY <1>1, <1>5, NamingIsTaking
<1>7. finalDnsServerTag(s) = IF usesDirectDnsAsFinalServer(s) THEN "direct_dns" ELSE "remote_dns"
  BY <1>1 DEF finalDnsServerTag
<1>8. naming = {} => askedAt(s, conn) = {finalDnsServerTag(s)}
  BY AskedAtFirstNaming DEF First
<1>9. CASE taken = {}
  <2>1. p = NoPlace
    BY <1>9 DEF First
  <2>2. ~usesDirectDnsAsFinalServer(s)
    BY <1>1, <1>9, NothingTaken
  <2>3. askedAt(s, conn) = {"remote_dns"}
    BY <1>6, <1>7, <1>8, <1>9, <2>2
  <2> QED  BY <1>4, <2>1, <2>3
<1>10. CASE taken # {}
  <2>1. p \in taken /\ (\A q \in taken : ~Before(q, p)) /\ p # NoPlace /\ p \in Places(s)
    <3>1. p \in taken /\ \A q \in taken : ~Before(q, p)
      BY <1>5, <1>10, FirstIsFirst
    <3> QED  BY <1>5, <3>1
  <2>2. rule(p) \in Rules /\ rule(p).out \in {"block", "direct", "proxy"}
    <3> HIDE DEF p
    <3>1. rule(p) \in Rules
      BY <2>1, RuleAtPlace
    <3> QED  BY <3>1 DEF Rules
  <2> HIDE DEF p
  <2>3. CASE rule(p).domain # {}
    <3>1. p \in naming
      BY <1>1, <2>1, <2>3, NamingIsTaking
    <3>2. p = First(naming)
      BY <1>5, <1>6, <2>1, <3>1, FirstIsFirst
    <3>3. askedAt(s, conn) = askedByRule(s, rule(p)) \ {"fake_dns"}
      BY <2>1, <3>2, AskedAtFirstNaming
    <3>4. rule(p).domain \ {"file"} # {}
      BY <3>1 DEF Naming, Dropped, WholeNames, Narrower
    <3>5. askedByRule(s, rule(p)) \ {"fake_dns"} =
            CASE rule(p).out = "direct" -> {"direct_dns"}
              [] rule(p).out = "proxy" -> {"remote_dns"}
              [] rule(p).out = "block" -> {}
      BY <2>2, <3>4 DEF askedByRule
    <3> QED  BY <1>4, <2>1, <3>3, <3>5
  <2>4. CASE rule(p).domain = {}
    <3>1. p = <<4, Len(s.profile)>> /\ rule(p).out # "block"
      BY <1>1, <1>2, <2>1, <2>4 DEF NamesDecide
    <3>2. naming = {}
      <4>1. SUFFICES ASSUME NEW q \in naming PROVE FALSE
        OBVIOUS
      <4>2. q \in Places(s) /\ ~Before(q, p)
        BY <1>5, <1>6, <2>1
      <4>3. q = <<q[1], q[2]>> /\ q[1] \in 1..4 /\ q[2] \in Nat /\ (q[1] = 4 => q[2] \in DOMAIN s.profile)
        BY <4>2, RuleAtPlace DEF Places
      <4>4. s.profile \in Seq(Rules)
        BY DEF Configurations
      <4>5. p[1] = 4 /\ p[2] = Len(s.profile) /\ Len(s.profile) \in Nat
        BY <3>1, <4>4
      <4>6. q[1] = 4 /\ q[2] = Len(s.profile)
        <5>1. q[1] = 4
          BY <4>2, <4>3, <4>5 DEF Before
        <5>2. q[2] \in 1..Len(s.profile)
          BY <4>3, <4>4, <5>1
        <5> QED  BY <4>2, <4>3, <4>5, <5>1, <5>2 DEF Before
      <4>7. q = p
        BY <3>1, <4>3, <4>6
      <4>8. WholeNames({} \ Dropped) = {}
        BY DEF WholeNames, Narrower
      <4> QED  BY <2>4, <4>1, <4>7, <4>8 DEF Naming
    <3>3. ValueLists(rule(p)) = {} /\ rule(p).all \subseteq conn
      BY <1>1, <2>1, <2>4, NamingIsTaking
    <3>4. usesDirectDnsAsFinalServer(s) <=> rule(p).out = "direct"
      BY <1>1, <2>1, <3>1, <3>3, LastDecides
    <3>5. askedAt(s, conn) = IF rule(p).out = "direct" THEN {"direct_dns"} ELSE {"remote_dns"}
      BY <1>7, <1>8, <3>2, <3>4
    <3>6. rule(p).out = "direct" \/ rule(p).out = "proxy"
      BY <2>2, <3>1
    <3> QED  BY <1>4, <2>1, <3>5, <3>6
  <2> QED  BY <2>3, <2>4
<1> QED  BY <1>9, <1>10

(***************************************************************************)
(* The theorems.                                                           *)
(***************************************************************************)
\* Every server a sing-box root names is declared in it, unless the user cleared that
\* very resolver, and a root with several servers has a default one: for any servers of
\* the user's own, any resolvers and any rules (SingBoxDnsConfigBuilder::build).
THEOREM NamesExistAlways == ASSUME ConfigInstance PROVE ConfigSpec => []NamesExist
<1>1. ConfigTypeOK => NamesExist
  BY TypeGivesNames
<1> QED  BY <1>1, TypeAlways, PTL

\* The lookup of the node's name ends, and does not go through the proxy that needs it,
\* for every mixture of addresses and host names (buildPrimaryOutbound,
\* defaultDomainResolverTag).
THEOREM NodeIsFoundAlways == ASSUME ConfigInstance PROVE ConfigSpec => []NodeIsFound
<1>1. ConfigTypeOK => NodeIsFound
  BY TypeFindsNode
<1> QED  BY <1>1, TypeAlways, PTL

\* For rules of any number and in any order the three cores take the same decision and
\* sing-box asks for the name where it says, with the exceptions the property names
\* (appendRoutingRule of the three cores, appendRoutingRules of the DNS section).
THEOREM OneDecisionAlways == ASSUME ConfigInstance PROVE ConfigSpec => []OneDecision
<1>1. ConfigTypeOK => OneDecision
  <2>1. SUFFICES ASSUME ConfigTypeOK, AllExpressible(settings)
                 PROVE  SameWay(settings) /\ AskedTheSameWay(settings, ByWholeName)
    BY DEF OneDecision
  <2>2. settings \in Configurations
    BY <2>1 DEF ConfigInstance, ConfigTypeOK
  <2> QED  BY <2>1, <2>2, GoesTheSameWay, AskedAlike
<1> QED  BY <1>1, TypeAlways, PTL
=================================================================================
