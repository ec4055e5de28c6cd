----------------------------- MODULE Sharing_proofs -----------------------------
(***************************************************************************)
(* A server of any protocol, with any texts of the classes that fit, is    *)
(* dialled as before however often it is passed on, but for what Sharing   *)
(* lists as known to be lost.                                              *)
(* The proof walks a server through every builder and the parser that      *)
(* answers it: first what a builder leaves of every field, then what a     *)
(* parser makes of that, and last whether the parts of the outbound that   *)
(* depend on those fields differ only where a loss is listed.  That a      *)
(* server which has arrived can be passed on again is part of every lemma: *)
(* it is what the invariant at the end needs.                              *)
(***************************************************************************)
EXTENDS Sharing, TLAPS

\* What a server can speak, and can be exported as a link or an entry.
Protocols == Linkable \cup {"http"}

\* What is known of the settings, whatever they are.
Settled == defaults \in [insecure : BOOLEAN, fingerprint : {"", "chrome"}, mux : BOOLEAN]

\* Two parts of an outbound, under names of their own.
Transport(s) == IF s.type \in OverStandardTransport
                THEN <<resolveSingBoxNetwork(s.fields), buildTransport(s.fields)>> ELSE <<>>
RealityKey(i) == IF Reality(i) THEN <<i.publicKey>> ELSE <<>>

\* The parts of two outbounds one by one: each differs only if it is listed as lost.
TlsByPart(s, t) ==
    LET i == s.fields  j == t.fields  lost == Lost(s) IN
    /\ ~(Secured(s) <=> Secured(t)) => "tls" \in lost
    /\ Secured(s) /\ Secured(t) =>
       /\ Checked(i) # Checked(j) => "checked" \in lost
       /\ resolveServerName(i) # resolveServerName(j) => "name" \in lost
       /\ i.alpn # j.alpn => "alpn" \in lost
       /\ resolveFingerprint(i) # resolveFingerprint(j) => "utls" \in lost
       /\ RealityKey(i) # RealityKey(j) => "reality" \in lost

\* All parts of two outbounds.
PartByPart(s, t) ==
    /\ s.type = t.type
    /\ Credentials(s) # Credentials(t) => "credentials" \in Lost(s)
    /\ Options(s) # Options(t) => "options" \in Lost(s)
    /\ Transport(s) # Transport(t) => "transport" \in Lost(s)
    /\ ~(Multiplexed(s) <=> Multiplexed(t)) => "multiplex" \in Lost(s)
    /\ TlsByPart(s, t)

\* The names of the parts.
Parts == {"protocol", "credentials", "options", "transport", "multiplex", "tls"} \cup OfTls

\* Two outbounds that agree part by part with the list of losses differ in nothing else.
LEMMA Compared ==
    ASSUME NEW s, NEW t, PartByPart(s, t)
    PROVE  Differing(s, t) \subseteq Lost(s)
<1> DEFINE one == Outbound(s)  other == Outbound(t)
<1>1. /\ DOMAIN one = Parts
      /\ one.protocol = s.type /\ other.protocol = t.type
      /\ one.credentials = Credentials(s) /\ other.credentials = Credentials(t)
      /\ one.options = Options(s) /\ other.options = Options(t)
      /\ one.transport = Transport(s) /\ other.transport = Transport(t)
      /\ one.multiplex = Multiplexed(s) /\ other.multiplex = Multiplexed(t)
      /\ one.tls = Secured(s) /\ other.tls = Secured(t)
  BY DEF Outbound, Parts, OfTls, Transport
<1>2. ASSUME Secured(s), Secured(t)
      PROVE  /\ one.checked = Checked(s.fields) /\ other.checked = Checked(t.fields)
             /\ one.name = resolveServerName(s.fields) /\ other.name = resolveServerName(t.fields)
             /\ one.alpn = s.fields.alpn /\ other.alpn = t.fields.alpn
             /\ one.utls = resolveFingerprint(s.fields)
             /\ other.utls = resolveFingerprint(t.fields)
             /\ one.reality = RealityKey(s.fields) /\ other.reality = RealityKey(t.fields)
  BY <1>2 DEF Outbound, RealityKey
<1>3. Differing(s, t) = {p \in Parts : one[p] # other[p] /\ (p \in OfTls => one.tls /\ other.tls)}
  BY <1>1 DEF Differing
<1>4. /\ one.multiplex \in BOOLEAN /\ other.multiplex \in BOOLEAN
      /\ one.tls \in BOOLEAN /\ other.tls \in BOOLEAN
  BY <1>1 DEF Multiplexed, Secured
<1> HIDE DEF one, other
<1>5. ASSUME NEW p \in Parts, one[p] # other[p], p \in OfTls => one.tls /\ other.tls
      PROVE  p \in Lost(s)
  BY <1>1, <1>2, <1>4, <1>5 DEF PartByPart, TlsByPart, Parts, OfTls
<1> QED BY <1>3, <1>5


\* A server with another choice, as the list of losses looks at it.
LEMMA Unchosen ==
    ASSUME Settled, NEW type, NEW i, DOMAIN i = ItemFields
    PROVE  /\ resolveFingerprint([i EXCEPT !.fingerprint = ""]) =
                  IF Reality(i) THEN "chrome" ELSE defaults.fingerprint
           /\ LosesMultiplex(Item(type, i)) <=>
                  ~(Multiplexed(Item(type, i)) <=>
                      /\ type \in {"vmess", "trojan", "shadowsocks"} \/ (type = "vless" /\ i.flow = "")
                      /\ defaults.mux)
<1> DEFINE k == [i EXCEPT !.fingerprint = ""]  m == [i EXCEPT !.muxEnabled = ""]
<1>1. k.fingerprint = "" /\ k.streamSecurity = i.streamSecurity
  BY DEF ItemFields
<1>2. m.muxEnabled = "" /\ m.flow = i.flow
  BY DEF ItemFields
<1>3. /\ Item(type, m).type = type /\ Item(type, m).fields = m
      /\ Item(type, i).type = type /\ Item(type, i).fields = i
  BY DEF Item
<1> HIDE DEF k, m
<1>4. resolveFingerprint(k) = IF Reality(i) THEN "chrome" ELSE defaults.fingerprint
  BY <1>1 DEF Settled, resolveFingerprint, Reality, OrElse
<1>5. Multiplexed(Item(type, m)) <=>
        /\ type \in {"vmess", "trojan", "shadowsocks"} \/ (type = "vless" /\ i.flow = "")
        /\ defaults.mux
  BY <1>2, <1>3 DEF Multiplexed
<1>6. LosesMultiplex(Item(type, i)) <=> ~(Multiplexed(Item(type, i)) <=> Multiplexed(Item(type, m)))
  BY <1>3 DEF LosesMultiplex, m
<1> QED BY <1>4, <1>5, <1>6 DEF k

\* What may become of a field, so that the server still is one there can be.
Given == {"none", "auto", "cubic", "native", "1", "true"}
Passes(type, i, j) ==
    \A f \in ItemFields :
       \/ j[f] \in {"", i[f], YamlScalar(i[f])}
       \/ f \in UserInfoOf(type) /\ j[f] = UserInfo(i[f])
       \/ f \notin UserInfoOf(type) /\ j[f] = AsItStands(i[f])
       \/ f \in FieldsOf(type) /\ j[f] \in Given
       \/ f = "localAddress" /\ j[f] = "marked" /\ i[f] # ""
       \/ f \in {"network", "headerType", "streamSecurity"} /\ j[f] \in {"tcp", "h2", "none", "tls"}
       \/ type = "socks" /\ f \in {"id", "security"} /\ j[f] \in {"head", "colon"}

\* No conversion leaves the texts there are.
LEMMA Conversions ==
    ASSUME NEW v \in SharedTexts
    PROVE  AsItStands(v) \in SharedTexts /\ UserInfo(v) \in SharedTexts /\ YamlScalar(v) \in SharedTexts
BY DEF SharedTexts, Converted, CodeWords, AsItStands, UserInfo, YamlScalar, Marked

\* Fields a protocol has no use for are empty.
LEMMA Unused ==
    ASSUME NEW type, NEW i, Fits(type, i),
           NEW f \in ItemFields \ (FieldsOf(type) \cup {"network", "headerType", "streamSecurity"})
    PROVE  i[f] = ""
BY DEF Fits

\* A server whose fields became nothing else is a server there can be.
LEMMA StillFits ==
    ASSUME NEW type, NEW i, Fits(type, i), NEW j, Passes(type, i, j),
           j.streamSecurity \in Securities(type),
           type \in OverStandardTransport =>
               j.network \in Networks /\ j.headerType \in {"", "none", "http"}
    PROVE  Fits(type, j)
<1>1. /\ Words \subseteq ItemFields
      /\ Words \cap {"network", "headerType", "streamSecurity", "localAddress", "id", "security"} = {}
  BY DEF Words, ItemFields
<1>2. /\ UserInfoOf(type) \subseteq {"id", "security", "username"}
      /\ type = "socks" => {"id", "security"} \subseteq FieldsOf(type) \cap Secrets(type)
      /\ type \in {"socks", "shadowsocks"} => UserInfoOf(type) = {}
  BY DEF UserInfoOf, FieldsOf, Secrets
<1>3. \A f \in ItemFields : j[f] \in SharedTexts
  <2> SUFFICES ASSUME NEW f \in ItemFields PROVE j[f] \in SharedTexts
    OBVIOUS
  <2>1. i[f] \in SharedTexts
    BY DEF Fits
  <2>2. \/ j[f] \in {i[f], AsItStands(i[f]), UserInfo(i[f]), YamlScalar(i[f])}
        \/ j[f] \in Given \cup {"", "tcp", "h2", "tls", "marked", "head", "colon"}
    BY DEF Passes, Given
  <2>3. Given \cup {"", "tcp", "h2", "tls", "marked", "head", "colon"} \subseteq SharedTexts
    BY DEF Given, SharedTexts, Converted, CodeWords
  <2> QED BY <2>1, <2>2, <2>3, Conversions
<1>5. \A f \in ItemFields \ (FieldsOf(type) \cup {"network", "headerType", "streamSecurity"}) : j[f] = ""
  <2> SUFFICES ASSUME NEW f \in ItemFields \ (FieldsOf(type)
                                              \cup {"network", "headerType", "streamSecurity"})
               PROVE  j[f] = ""
    OBVIOUS
  <2>1. AsItStands("") = "" /\ YamlScalar("") = "" /\ UserInfo("") = ""
    BY DEF AsItStands, YamlScalar, UserInfo, Marked
  <2>2. i[f] = ""
    BY Unused
  <2>3. \/ j[f] \in {"", i[f], AsItStands(i[f]), UserInfo(i[f]), YamlScalar(i[f])}
        \/ f = "localAddress" /\ i[f] # ""
    BY <1>2 DEF Passes
  <2> QED BY <2>1, <2>2, <2>3
<1>6. \A f \in Words : AsItStands(j[f]) = j[f]
  <2> SUFFICES ASSUME NEW f \in Words PROVE AsItStands(j[f]) = j[f]
    OBVIOUS
  <2>1. /\ AsItStands(i[f]) = i[f] /\ f \in ItemFields
        /\ f \notin {"network", "headerType", "streamSecurity", "localAddress", "id", "security"}
    BY <1>1 DEF Fits
  <2>2. j[f] \in {"", i[f], AsItStands(i[f]), UserInfo(i[f]), YamlScalar(i[f])} \cup Given
    BY <2>1 DEF Passes
  <2> QED BY <2>1, <2>2 DEF Given, YamlScalar, AsItStands, UserInfo, Marked
<1>7. \A f \in ItemFields \ Secrets(type) : YamlScalar(j[f]) = j[f]
  <2> SUFFICES ASSUME NEW f \in ItemFields \ Secrets(type) PROVE YamlScalar(j[f]) = j[f]
    OBVIOUS
  <2>1. YamlScalar(i[f]) = i[f]
    BY DEF Fits
  <2>2. \/ j[f] \in {i[f], AsItStands(i[f]), UserInfo(i[f]), YamlScalar(i[f])}
        \/ j[f] \in Given \cup {"", "tcp", "h2", "tls", "marked", "head", "colon"}
    BY DEF Passes, Given
  <2> QED BY <2>1, <2>2 DEF Given, YamlScalar, AsItStands, UserInfo, Marked
<1>8. type = "shadowsocks" => AsItStands(j.security) = j.security
  <2> SUFFICES ASSUME type = "shadowsocks" PROVE AsItStands(j.security) = j.security
    OBVIOUS
  <2>1. AsItStands(i.security) = i.security
    BY DEF Fits
  <2>2. j.security \in {"", i.security, AsItStands(i.security), UserInfo(i.security),
                       YamlScalar(i.security)} \cup Given
    BY DEF Passes, ItemFields
  <2> QED BY <2>1, <2>2 DEF Given, YamlScalar, AsItStands, UserInfo, Marked
<1>9. \A f \in UserInfoOf(type) : j[f] # "worse"
  <2> SUFFICES ASSUME NEW f \in UserInfoOf(type) PROVE j[f] # "worse"
    OBVIOUS
  <2>1. i[f] # "worse"
    BY DEF Fits
  <2>2. f \in ItemFields /\ f \notin {"localAddress", "network", "headerType", "streamSecurity"}
    BY <1>2 DEF ItemFields
  <2>3. j[f] \in {"", i[f], UserInfo(i[f]), YamlScalar(i[f])} \cup Given
    BY <1>2, <2>2 DEF Passes
  <2> QED BY <2>1, <2>3 DEF Given, YamlScalar, UserInfo
<1>10. \A f \in ItemFields : InPlace(type, f, j[f])
  <2> SUFFICES ASSUME NEW f \in ItemFields PROVE InPlace(type, f, j[f])
    OBVIOUS
  <2>1. InPlace(type, f, i[f])
    BY DEF Fits
  <2>2. \/ j[f] \in {i[f], AsItStands(i[f]), UserInfo(i[f]), YamlScalar(i[f])}
        \/ j[f] \in Given \cup {"", "tcp", "h2", "tls", "marked"}
        \/ type = "socks" /\ f \in {"id", "security"} /\ j[f] \in {"head", "colon"}
    BY DEF Passes, Given
  <2>3. {"colon", "slashed"} \cap (Given \cup {"", "tcp", "h2", "tls", "marked"}) = {}
    BY DEF Given
  <2> QED BY <2>1, <2>2, <2>3 DEF InPlace, YamlScalar, AsItStands, UserInfo, Marked
<1> QED BY <1>3, <1>5, <1>6, <1>7, <1>8, <1>9, <1>10 DEF Fits

\* Multiplexing and the check of the certificate are lost in the same way in both forms.
LEMMA MultiplexPart ==
    ASSUME Settled, way \in {"link", "clash"}, NEW type, NEW i, NEW j, DOMAIN i = ItemFields,
           j.muxEnabled = "", type = "vless" => j.flow = i.flow
    PROVE  LET s == Item(type, i)  t == Item(type, j) IN
           ~(Multiplexed(s) <=> Multiplexed(t)) <=> "multiplex" \in Lost(s)
<1> DEFINE s == Item(type, i)  t == Item(type, j)
<1>1. "multiplex" \in Lost(s) <=> LosesMultiplex(s)
  BY DEF Lost, LostByLink, LostByEntry
<1>2. t.type = type /\ t.fields = j
  BY DEF Item
<1> HIDE DEF t
<1>3. Multiplexed(t) <=> /\ type \in {"vmess", "trojan", "shadowsocks"} \/ (type = "vless" /\ i.flow = "")
                         /\ defaults.mux
  BY <1>2 DEF Multiplexed
<1> QED BY <1>1, <1>3, Unchosen DEF t

\* What a certificate is held against, when neither certificate nor hash but for a link's
\* hash came along.
LEMMA CheckedPart ==
    ASSUME Settled, way \in {"link", "clash"}, NEW s, NEW i, i = s.fields, NEW j,
           Reality(i) => s.type \in OverStandardTransport,
           Reality(j) <=> Reality(i) /\ way = "link",
           j.cert = "",
           j.certSha = IF way = "link" /\ s.type \in {"trojan", "vless"} THEN i.certSha ELSE "",
           resolveAllowInsecure(j.allowInsecure) <=> SkippedAfter(s)
    PROVE  Checked(i) # Checked(j) <=> "checked" \in Lost(s)
<1>1. "checked" \in Lost(s) <=> LosesCheck(s)
  BY DEF Lost, LostByLink, LostByEntry
<1>2. Checked(i) # Checked(j) <=> LosesCheck(s)
  BY DEF Checked, LosesCheck
<1> QED BY <1>1, <1>2

-------------------------------------------------------------------------------
(***************************************************************************)
(* Links.                                                                  *)
(***************************************************************************)
LEMMA LostInLink ==
    ASSUME Settled, way = "link", NEW s, NEW i, s.fields = i, DOMAIN i = ItemFields
    PROVE  LET standard == s.type \in {"trojan", "vless"}  Signs == Marked \cup {"spoilt", "worse"} IN
           /\ "credentials" \in Lost(s) <=>
                \/ s.type = "socks" /\ i.id = "colon"
                \/ \E f \in UserInfoOf(s.type) : i[f] = "spoilt"
           /\ "options" \in Lost(s) <=>
                \/ s.type = "hysteria2" /\ i.obfsPassword \in Signs
                \/ s.type = "tuic" /\ (i.congestionControl = "" \/ i.udpRelayMode = "")
                \/ s.type = "wireguard" /\ (i.peerPublicKey \in Signs \/ i.localAddress \in Signs
                                            \/ i.reserved = "marked")
           /\ "transport" \in Lost(s) <=>
                standard /\ (i.network = "http" \/ (i.network = "tcp" /\ i.headerType = "http"
                                                    /\ i.path # "" /\ i.path # "/"))
           /\ "tls" \in Lost(s) <=>
                \/ s.type = "socks" /\ i.streamSecurity = "tls"
                \/ s.type = "trojan" /\ i.streamSecurity = ""
           /\ "name" \in Lost(s) <=>
                /\ standard /\ i.sni = ""
                /\ \/ i.network \in {"grpc", "kcp"} /\ i.requestHost # "" /\ i.requestHost # "address"
                   \/ i.network = "quic" /\ i.requestHost = ""
           /\ "alpn" \in Lost(s) <=> s.type \in {"hysteria2", "tuic", "naive"} /\ i.alpn \in Signs
           /\ "utls" \in Lost(s) <=>
                /\ s.type = "vmess" \/ (standard /\ ~Reality(i))
                /\ i.fingerprint # ""
                /\ i.fingerprint # IF Reality(i) THEN "chrome" ELSE defaults.fingerprint
           /\ "reality" \in Lost(s) <=> s.type = "vmess" /\ Reality(i) /\ i.publicKey # ""
<1> DEFINE default == resolveFingerprint([i EXCEPT !.fingerprint = ""])
<1>1. default = IF Reality(i) THEN "chrome" ELSE defaults.fingerprint
  BY Unchosen
<1>2. LostByLink(s).utls <=> /\ i.fingerprint \notin {"", default}
                             /\ s.type = "vmess" \/ (s.type \in {"trojan", "vless"} /\ ~Reality(i))
  BY DEF LostByLink
<1> HIDE DEF default
<1>3. "utls" \in Lost(s) <=> LostByLink(s).utls
  BY DEF Lost, LostByLink
<1>4. "utls" \in Lost(s) <=>
        /\ s.type = "vmess" \/ (s.type \in {"trojan", "vless"} /\ ~Reality(i))
        /\ i.fingerprint # ""
        /\ i.fingerprint # IF Reality(i) THEN "chrome" ELSE defaults.fingerprint
  BY <1>1, <1>2, <1>3
<1>5. "credentials" \in Lost(s) <=>
        \/ s.type = "socks" /\ i.id = "colon"
        \/ \E f \in UserInfoOf(s.type) : i[f] = "spoilt"
  BY DEF Lost, LostByLink
<1>6. "options" \in Lost(s) <=>
        \/ s.type = "hysteria2" /\ i.obfsPassword \in Marked \cup {"spoilt", "worse"}
        \/ s.type = "tuic" /\ (i.congestionControl = "" \/ i.udpRelayMode = "")
        \/ s.type = "wireguard" /\ (i.peerPublicKey \in Marked \cup {"spoilt", "worse"}
                                    \/ i.localAddress \in Marked \cup {"spoilt", "worse"}
                                    \/ i.reserved = "marked")
  BY DEF Lost, LostByLink
<1>7. "transport" \in Lost(s) <=>
        s.type \in {"trojan", "vless"}
        /\ (i.network = "http" \/ (i.network = "tcp" /\ i.headerType = "http"
                                   /\ i.path # "" /\ i.path # "/"))
  BY DEF Lost, LostByLink
<1>8. "tls" \in Lost(s) <=>
        \/ s.type = "socks" /\ i.streamSecurity = "tls"
        \/ s.type = "trojan" /\ i.streamSecurity = ""
  BY DEF Lost, LostByLink
<1>9. "name" \in Lost(s) <=>
        /\ s.type \in {"trojan", "vless"} /\ i.sni = ""
        /\ \/ i.network \in {"grpc", "kcp"} /\ i.requestHost # "" /\ i.requestHost # "address"
           \/ i.network = "quic" /\ i.requestHost = ""
  BY DEF Lost, LostByLink
<1>10. "alpn" \in Lost(s) <=>
           s.type \in {"hysteria2", "tuic", "naive"} /\ i.alpn \in Marked \cup {"spoilt", "worse"}
  BY DEF Lost, LostByLink
<1>11. "reality" \in Lost(s) <=> s.type = "vmess" /\ Reality(i) /\ i.publicKey # ""
  BY DEF Lost, LostByLink
<1> QED BY <1>4, <1>5, <1>6, <1>7, <1>8, <1>9, <1>10, <1>11

\* Of what a link says about the fingerprint.
LEMMA PrintPart ==
    ASSUME Settled, NEW i, NEW j, Reality(j) <=> Reality(i), j.fingerprint \in {"", i.fingerprint}
    PROVE  resolveFingerprint(i) # resolveFingerprint(j) <=>
               /\ j.fingerprint = "" /\ i.fingerprint # ""
               /\ i.fingerprint # IF Reality(i) THEN "chrome" ELSE defaults.fingerprint
BY DEF Settled, resolveFingerprint, OrElse

\* VMess: everything but the fingerprint, REALITY's key and what is done about certificates.
\* A VMess link has members for all but the extras of TLS (buildVmess, parseVmess).
LEMMA VmessByLink ==
    ASSUME Settled, way = "link",
           NEW i, DOMAIN i = ItemFields, Fits("vmess", i), NEW j, j = parseVmess(buildVmess(i))
    PROVE  PartByPart(Item("vmess", i), Item("vmess", j)) /\ Fits("vmess", j)
<1> DEFINE s == Item("vmess", i)  t == Item("vmess", j)
<1>1. /\ s.type = "vmess" /\ s.fields = i
      /\ t.type = "vmess" /\ t.fields = j
  BY DEF Item
<1>2. /\ j.id = i.id /\ j.security = i.security /\ j.network = i.network
      /\ j.headerType = i.headerType /\ j.requestHost = i.requestHost /\ j.path = i.path
      /\ j.streamSecurity = i.streamSecurity /\ j.sni = i.sni /\ j.alpn = i.alpn
      /\ j.allowInsecure = "" /\ j.cert = "" /\ j.certSha = "" /\ j.fingerprint = ""
      /\ j.publicKey = "" /\ j.muxEnabled = ""
  BY DEF parseVmess, buildVmess, Read, Written, ItemFields
<1>3. Fits("vmess", j)
  <2>1. Passes("vmess", i, j)
    <3> SUFFICES ASSUME NEW f \in ItemFields PROVE j[f] \in {"", i[f]}
      BY DEF Passes
    <3> QED BY DEF parseVmess, buildVmess, Read, Written
  <2>2. /\ i.network \in Networks /\ i.headerType \in {"", "none", "http"}
        /\ i.streamSecurity \in Securities("vmess")
    BY DEF Fits, OverStandardTransport
  <2> QED BY <1>2, <2>1, <2>2, StillFits
<1>4. ~(Multiplexed(s) <=> Multiplexed(t)) <=> "multiplex" \in Lost(s)
  BY <1>2, MultiplexPart
<1> HIDE DEF s, t
<1>5. resolveFingerprint(i) # resolveFingerprint(j) <=> "utls" \in Lost(s)
  <2>1. Reality(j) <=> Reality(i)
    BY <1>2 DEF Reality
  <2>2. "utls" \in Lost(s) <=>
          /\ i.fingerprint # ""
          /\ i.fingerprint # IF Reality(i) THEN "chrome" ELSE defaults.fingerprint
    BY <1>1, LostInLink
  <2>3. j.fingerprint = ""
    BY <1>2
  <2> QED BY <2>1, <2>2, <2>3, PrintPart
<1>6. Credentials(s) = Credentials(t) /\ Options(s) = Options(t) /\ Transport(s) = Transport(t)
  BY ZenonT(40), <1>1, <1>2 DEF Credentials, Options, Transport, resolveSingBoxNetwork, buildTransport,
          OverStandardTransport
<1>8. Checked(i) # Checked(j) <=> "checked" \in Lost(s)
  <2>1. resolveAllowInsecure(j.allowInsecure) <=> SkippedAfter(s)
    BY <1>1, <1>2 DEF SkippedAfter, resolveAllowInsecure, OverStandardTransport
  <2>2. (Reality(j) <=> Reality(i)) /\ s.type \in OverStandardTransport
    BY <1>1, <1>2 DEF Reality, OverStandardTransport
  <2>3. j.cert = "" /\ j.certSha = ""
    BY <1>2
  <2> QED BY <1>1, <2>1, <2>2, <2>3, CheckedPart
<1>9. RealityKey(i) # RealityKey(j) <=> "reality" \in Lost(s)
  <2>1. "reality" \in Lost(s) <=> Reality(i) /\ i.publicKey # ""
    BY <1>1, LostInLink
  <2> QED BY <1>2, <2>1 DEF RealityKey, Reality
<1>10. TlsByPart(s, t)
  BY <1>1, <1>2, <1>5, <1>8, <1>9 DEF TlsByPart, Secured, resolveServerName
<1> QED BY <1>1, <1>3, <1>4, <1>6, <1>10 DEF PartByPart, s, t

\* VLESS and Trojan: what is written, and what is read back.
IsStandardLink(b, i, names, default) ==
    LET net == i.network IN
    /\ DOMAIN b = ItemFields
    /\ b.id = (IF "id" \in names THEN i.id ELSE "")
    /\ b.security = (IF "security" \in names THEN i.security ELSE "")
    /\ b.flow = i.flow /\ b.packetEncoding = i.packetEncoding
    /\ b.sni = i.sni /\ b.alpn = i.alpn /\ b.certSha = i.certSha
    /\ b.allowInsecure = "" /\ b.cert = "" /\ b.muxEnabled = ""
    /\ b.streamSecurity = OrElse(i.streamSecurity, default)
    /\ b.network = IF net \in {"http", "h2"} THEN "http" ELSE net
    /\ b.fingerprint = IF Reality(i) THEN i.fingerprint ELSE ""
    /\ b.publicKey = IF Reality(i) THEN i.publicKey ELSE ""
    /\ b.requestHost = IF net \in {"kcp", "grpc"} THEN ""
                       ELSE IF net = "quic" THEN OrElse(i.requestHost, "none")
                       ELSE i.requestHost
    /\ b.path = IF net = "tcp" THEN "" ELSE i.path
    /\ b.headerType = IF net \in {"xhttp", "quic", "kcp", "tcp"} THEN i.headerType ELSE ""
    /\ \A f \in ItemFields \ (StreamFields \cup names \cup {"flow", "packetEncoding"}) : b[f] = ""

\* What buildStandardTransportEntries leaves of a server.
LEMMA StandardWritten ==
    ASSUME NEW i, NEW names \in SUBSET {"id", "security"}, NEW default,
           i.network \in Networks, i.streamSecurity \in Securities("vless")
    PROVE  IsStandardLink(StandardTransport(i, names, default), i, names, default)
<1> DEFINE b == StandardTransport(i, names, default)
<1> DEFINE entries == names \cup buildStandardTransportEntries(i)
           w == Written(i, entries)
<1>1. /\ DOMAIN w = ItemFields
      /\ \A f \in ItemFields : w[f] = IF f \in entries THEN i[f] ELSE ""
  BY DEF Written
<1>2. /\ DOMAIN b = ItemFields
      /\ b.streamSecurity = OrElse(w.streamSecurity, default)
      /\ b.network = IF w.network \in {"http", "h2"} THEN "http" ELSE OrElse(w.network, "tcp")
      /\ b.requestHost = IF i.network = "quic" THEN OrElse(w.requestHost, "none") ELSE w.requestHost
      /\ \A f \in ItemFields \ {"streamSecurity", "network", "requestHost"} : b[f] = w[f]
  BY <1>1 DEF StandardTransport, ItemFields
<1> HIDE DEF b
<1>3. /\ {"flow", "packetEncoding", "streamSecurity", "sni", "alpn", "certSha", "network"}
              \subseteq entries
      /\ "id" \in entries <=> "id" \in names
      /\ "security" \in entries <=> "security" \in names
      /\ entries \subseteq (names \cup StreamFields
              \cup {"flow", "packetEncoding"}) \ {"cert", "allowInsecure", "muxEnabled"}
      /\ "fingerprint" \in entries <=> Reality(i)
      /\ "publicKey" \in entries <=> Reality(i)
      /\ "requestHost" \in entries <=> i.network \notin {"kcp", "grpc"}
      /\ "path" \in entries <=> i.network # "tcp"
      /\ "headerType" \in entries <=> i.network \in {"xhttp", "quic", "kcp", "tcp"}
  BY DEF buildStandardTransportEntries, Reality, Networks, StreamFields, TlsFields
<1> HIDE DEF entries, w
<1>4. i.network # ""
  BY DEF Networks
<1>5. /\ {"id", "security", "flow", "packetEncoding", "sni", "alpn", "certSha", "allowInsecure", "cert",
          "muxEnabled", "streamSecurity", "network", "fingerprint", "publicKey", "requestHost",
          "path", "headerType"} \subseteq ItemFields
      /\ {"streamSecurity", "network", "requestHost"} \subseteq StreamFields
  BY DEF ItemFields, StreamFields, TlsFields
<1>6. /\ b.flow = i.flow /\ b.packetEncoding = i.packetEncoding
      /\ b.sni = i.sni /\ b.alpn = i.alpn /\ b.certSha = i.certSha
      /\ b.id = (IF "id" \in names THEN i.id ELSE "")
      /\ b.security = (IF "security" \in names THEN i.security ELSE "")
  BY <1>1, <1>2, <1>3, <1>5
<1>7. b.allowInsecure = "" /\ b.cert = "" /\ b.muxEnabled = ""
  BY <1>1, <1>2, <1>3, <1>5
<1>8. /\ b.streamSecurity = OrElse(i.streamSecurity, default)
      /\ b.network = IF i.network \in {"http", "h2"} THEN "http" ELSE i.network
  BY <1>1, <1>2, <1>3, <1>4, <1>5 DEF OrElse
<1>9. b.requestHost = IF i.network \in {"kcp", "grpc"} THEN ""
                      ELSE IF i.network = "quic" THEN OrElse(i.requestHost, "none") ELSE i.requestHost
  BY <1>1, <1>2, <1>3, <1>5
<1>10. /\ b.fingerprint = IF Reality(i) THEN i.fingerprint ELSE ""
       /\ b.publicKey = IF Reality(i) THEN i.publicKey ELSE ""
       /\ b.path = IF i.network = "tcp" THEN "" ELSE i.path
       /\ b.headerType = IF i.network \in {"xhttp", "quic", "kcp", "tcp"} THEN i.headerType ELSE ""
  BY ZenonT(40), <1>1, <1>2, <1>3, <1>5
<1>11. \A f \in ItemFields \ (StreamFields \cup names \cup {"flow", "packetEncoding"}) : b[f] = ""
  BY <1>1, <1>2, <1>3, <1>5
<1>12. IsStandardLink(b, i, names, default)
  BY <1>2, <1>6, <1>7, <1>8, <1>9, <1>10, <1>11 DEF IsStandardLink
<1> QED BY <1>12 DEF b

\* What resolveStandardTransport makes of a link.
IsStandardReading(r, b, asItStands) ==
    LET net == b.network IN
    /\ DOMAIN r = ItemFields
    /\ r.id = b.id
    /\ r.security = IF asItStands = {} THEN "" ELSE AsItStands(b.security)
    /\ r.flow = AsItStands(b.flow) /\ r.packetEncoding = AsItStands(b.packetEncoding)
    /\ r.sni = b.sni /\ r.alpn = b.alpn /\ r.certSha = b.certSha
    /\ r.allowInsecure = AsItStands(b.allowInsecure)
    /\ r.cert = "" /\ r.muxEnabled = ""
    /\ r.streamSecurity = AsItStands(b.streamSecurity)
    /\ r.network = IF net = "http" THEN "h2" ELSE net
    /\ r.fingerprint = b.fingerprint /\ r.publicKey = b.publicKey
    /\ r.requestHost = IF net \in {"kcp", "grpc"} THEN ""
                       ELSE IF net = "quic" THEN OrElse(b.requestHost, "none")
                       ELSE b.requestHost
    /\ r.path = IF net = "tcp" THEN "" ELSE b.path
    /\ r.headerType = IF net = "xhttp" THEN b.headerType
                      ELSE IF net \in {"quic", "kcp", "tcp"} THEN OrElse(AsItStands(b.headerType), "none")
                      ELSE ""
    /\ \A f \in ItemFields \ (StreamFields \cup {"id", "security", "flow", "packetEncoding"}) : r[f] = ""

\* The names that are looked for are those of the link, whatever the network is.
LEMMA StandardRead ==
    ASSUME NEW b, DOMAIN b = ItemFields, NEW asItStands \in SUBSET {"security"},
           b.network \in Networks \ {"h2"}
    PROVE  IsStandardReading(resolveStandardTransport(b, {"id"}, asItStands), b, asItStands)
<1> DEFINE r == resolveStandardTransport(b, {"id"}, asItStands)
<1> DEFINE net == IF b.network \in {"http", "h2"} THEN "h2" ELSE OrElse(b.network, "tcp")
           more == CASE net \in {"ws", "httpupgrade", "h2"} -> {"requestHost", "path"}
                     [] net = "xhttp" -> {"requestHost", "path", "headerType"}
                     [] net = "quic" -> {"requestHost", "path"}
                     [] net \in {"kcp", "grpc"} -> {"path"}
                     [] OTHER -> {"requestHost"}
           words == IF net \in {"kcp", "quic", "tcp"} THEN {"headerType"} ELSE {}
           decoded == {"id"} \cup more \cup {"sni", "alpn", "fingerprint", "certSha", "publicKey"}
           standing == asItStands \cup words
                       \cup {"flow", "streamSecurity", "allowInsecure", "packetEncoding"}
           w == Read(b, decoded, standing)
<1>1. net = IF b.network = "http" THEN "h2" ELSE b.network
  BY DEF OrElse, Networks
<1>2. /\ {"id", "sni", "alpn", "fingerprint", "certSha", "publicKey"} \subseteq decoded
      /\ "requestHost" \in decoded <=> net \notin {"kcp", "grpc"}
      /\ "path" \in decoded <=> net # "tcp"
      /\ "headerType" \in decoded <=> net = "xhttp"
      /\ decoded \subseteq {"id", "sni", "alpn", "fingerprint", "certSha", "publicKey", "requestHost",
                           "path", "headerType"}
  <2> HIDE DEF net
  <2>1. net \in Networks
    BY <1>1 DEF Networks
  <2>2. more = IF net = "tcp" THEN {"requestHost"}
               ELSE IF net \in {"kcp", "grpc"} THEN {"path"}
               ELSE IF net = "xhttp" THEN {"requestHost", "path", "headerType"}
               ELSE {"requestHost", "path"}
    BY <1>1, <2>1 DEF Networks
  <2> HIDE DEF more
  <2> QED BY <2>2
<1>3. /\ {"flow", "streamSecurity", "allowInsecure", "packetEncoding"} \subseteq standing
      /\ "headerType" \in standing <=> net \in {"kcp", "quic", "tcp"}
      /\ "security" \in standing <=> asItStands # {}
      /\ standing \subseteq {"flow", "streamSecurity", "allowInsecure", "packetEncoding", "headerType",
                            "security"}
  <2> HIDE DEF net
  <2> QED OBVIOUS
<1>4. words # {} <=> net \in {"kcp", "quic", "tcp"}
  <2> HIDE DEF net
  <2> QED OBVIOUS
<1>5. r = [w EXCEPT !.network = net,
                    !.headerType = IF words # {} THEN OrElse(@, "none") ELSE @,
                    !.requestHost = IF net = "quic" THEN OrElse(@, "none") ELSE @]
  BY DEF resolveStandardTransport
<1> HIDE DEF net, decoded, standing, words
<1>6. /\ DOMAIN w = ItemFields
      /\ \A f \in ItemFields : w[f] = IF f \in decoded THEN b[f]
                                      ELSE IF f \in standing THEN AsItStands(b[f]) ELSE ""
  <2>1. decoded \cap standing = {}
    BY <1>2, <1>3
  <2> QED BY <2>1 DEF Read
<1> HIDE DEF w
<1>f. {"id", "security", "flow", "packetEncoding", "sni", "alpn", "certSha", "allowInsecure", "cert",
       "muxEnabled", "streamSecurity", "network", "fingerprint", "publicKey", "requestHost",
       "path", "headerType"} \subseteq ItemFields
  BY DEF ItemFields
<1>7. /\ DOMAIN r = ItemFields
      /\ r.network = net
      /\ r.headerType = IF words # {} THEN OrElse(w.headerType, "none") ELSE w.headerType
      /\ r.requestHost = IF net = "quic" THEN OrElse(w.requestHost, "none") ELSE w.requestHost
      /\ \A f \in ItemFields \ {"network", "headerType", "requestHost"} : r[f] = w[f]
  BY ZenonT(40), <1>5, <1>6 DEF ItemFields
<1> HIDE DEF r
<1>81. /\ r.id = w.id /\ r.sni = w.sni /\ r.alpn = w.alpn /\ r.certSha = w.certSha
       /\ r.fingerprint = w.fingerprint /\ r.publicKey = w.publicKey /\ r.path = w.path
       /\ r.flow = w.flow /\ r.packetEncoding = w.packetEncoding
       /\ r.allowInsecure = w.allowInsecure /\ r.streamSecurity = w.streamSecurity
       /\ r.security = w.security /\ r.cert = w.cert /\ r.muxEnabled = w.muxEnabled
  BY <1>7, <1>f
<1>8. /\ w.id = b.id /\ w.sni = b.sni /\ w.alpn = b.alpn /\ w.certSha = b.certSha
      /\ w.fingerprint = b.fingerprint /\ w.publicKey = b.publicKey
  BY <1>2, <1>6, <1>f
<1>82. w.path = IF net = "tcp" THEN "" ELSE b.path
  BY ZenonT(40), <1>2, <1>3, <1>6, <1>f
<1>k. /\ \A f \in {"flow", "packetEncoding", "allowInsecure", "streamSecurity"} :
            f \in standing /\ f \notin decoded /\ f \in ItemFields
      /\ "security" \notin decoded /\ "requestHost" \notin standing
      /\ \A f \in {"cert", "muxEnabled"} : f \notin standing /\ f \notin decoded /\ f \in ItemFields
  BY <1>2, <1>3, <1>f
<1>9. /\ w.flow = AsItStands(b.flow) /\ w.packetEncoding = AsItStands(b.packetEncoding)
      /\ w.allowInsecure = AsItStands(b.allowInsecure)
      /\ w.streamSecurity = AsItStands(b.streamSecurity)
  BY <1>2, <1>3, <1>6, <1>f, <1>k
<1>91. /\ w.security = IF asItStands = {} THEN "" ELSE AsItStands(b.security)
      /\ w.cert = "" /\ w.muxEnabled = ""
  BY <1>2, <1>3, <1>6, <1>f, <1>k
<1>92. w.requestHost = IF net \in {"kcp", "grpc"} THEN "" ELSE b.requestHost
  BY <1>2, <1>3, <1>6, <1>f, <1>k
<1>10. r.requestHost = IF net \in {"kcp", "grpc"} THEN ""
                       ELSE IF net = "quic" THEN OrElse(b.requestHost, "none") ELSE b.requestHost
  BY <1>7, <1>92
<1>11. r.headerType = IF net = "xhttp" THEN b.headerType
                      ELSE IF net \in {"quic", "kcp", "tcp"} THEN OrElse(AsItStands(b.headerType), "none")
                      ELSE ""
  BY <1>2, <1>3, <1>4, <1>6, <1>7, <1>f
<1>12. \A f \in ItemFields \ (StreamFields \cup {"id", "security", "flow", "packetEncoding"}) : r[f] = ""
  BY <1>2, <1>3, <1>6, <1>7 DEF StreamFields, TlsFields
<1>13. /\ net = "tcp" <=> b.network = "tcp"
       /\ net = "xhttp" <=> b.network = "xhttp"
       /\ net = "quic" <=> b.network = "quic"
       /\ net \in {"kcp", "grpc"} <=> b.network \in {"kcp", "grpc"}
       /\ net \in {"quic", "kcp", "tcp"} <=> b.network \in {"quic", "kcp", "tcp"}
  BY <1>1
<1>14. /\ r.id = b.id /\ r.sni = b.sni /\ r.alpn = b.alpn /\ r.certSha = b.certSha
       /\ r.fingerprint = b.fingerprint /\ r.publicKey = b.publicKey
       /\ r.path = IF b.network = "tcp" THEN "" ELSE b.path
  BY <1>8, <1>81, <1>82, <1>13
<1>15. /\ r.flow = AsItStands(b.flow) /\ r.packetEncoding = AsItStands(b.packetEncoding)
       /\ r.allowInsecure = AsItStands(b.allowInsecure)
       /\ r.streamSecurity = AsItStands(b.streamSecurity)
       /\ r.security = (IF asItStands = {} THEN "" ELSE AsItStands(b.security))
       /\ r.cert = "" /\ r.muxEnabled = ""
  BY <1>81, <1>9, <1>91
<1>16. r.network = IF b.network = "http" THEN "h2" ELSE b.network
  BY <1>1, <1>7
<1>17. r.requestHost = IF b.network \in {"kcp", "grpc"} THEN ""
                       ELSE IF b.network = "quic" THEN OrElse(b.requestHost, "none")
                       ELSE b.requestHost
  BY <1>10, <1>13
<1>18. r.headerType = IF b.network = "xhttp" THEN b.headerType
                      ELSE IF b.network \in {"quic", "kcp", "tcp"}
                      THEN OrElse(AsItStands(b.headerType), "none") ELSE ""
  BY <1>11, <1>13
<1>19. IsStandardReading(r, b, asItStands)
  BY <1>7, <1>12, <1>14, <1>15, <1>16, <1>17, <1>18 DEF IsStandardReading
<1> QED BY <1>19 DEF r

\* A VLESS or Trojan server that went over its link, field by field.
IsPassedOn(type, i, j) ==
    /\ DOMAIN j = ItemFields
    /\ j.id = UserInfo(i.id) /\ j.flow = i.flow /\ j.packetEncoding = i.packetEncoding
    /\ j.sni = i.sni /\ j.alpn = i.alpn /\ j.certSha = i.certSha
    /\ j.allowInsecure = "" /\ j.cert = "" /\ j.muxEnabled = ""
    /\ j.streamSecurity = OrElse(i.streamSecurity, IF type = "trojan" THEN "tls" ELSE "none")
    /\ j.network = IF i.network \in {"http", "h2"} THEN "h2" ELSE i.network
    /\ j.fingerprint = IF Reality(i) THEN i.fingerprint ELSE ""
    /\ j.publicKey = IF Reality(i) THEN i.publicKey ELSE ""
    /\ j.requestHost = IF i.network \in {"kcp", "grpc"} THEN ""
                       ELSE IF i.network = "quic" THEN OrElse(i.requestHost, "none")
                       ELSE i.requestHost
    /\ j.path = IF i.network = "tcp" THEN "" ELSE i.path
    /\ j.headerType = IF i.network = "xhttp" THEN i.headerType
                      ELSE IF i.network \in {"quic", "kcp", "tcp"} THEN OrElse(i.headerType, "none")
                      ELSE ""
    /\ j.security = "" \/ (type = "vless" /\ j.security \in {"none", AsItStands(i.security)})
    /\ \A f \in ItemFields \ (StreamFields \cup {"id", "security", "flow", "packetEncoding"}) : j[f] = ""

\* Writing and reading one after the other.
LEMMA StandardPassed ==
    ASSUME NEW type \in {"trojan", "vless"}, NEW i, Fits(type, i), NEW j,
           j = IF type = "trojan" THEN parseTrojan(buildTrojan(i)) ELSE parseVless(buildVless(i))
    PROVE  IsPassedOn(type, i, j)
<1> DEFINE names == IF type = "trojan" THEN {"id"} ELSE {"id", "security"}
           standing == IF type = "trojan" THEN {} ELSE {"security"}
           default == IF type = "trojan" THEN "" ELSE "none"
           w == StandardTransport(i, names, default)
           b == IF type = "trojan" THEN w ELSE [w EXCEPT !.security = OrElse(@, "none")]
           r == resolveStandardTransport(b, {"id"}, standing)
<1>1. j = IF type = "trojan" THEN [r EXCEPT !.id = UserInfo(@), !.streamSecurity = OrElse(@, "tls")]
          ELSE [r EXCEPT !.id = UserInfo(@), !.security = OrElse(@, "none")]
  BY DEF parseTrojan, parseVless, buildTrojan, buildVless
<1>2. names \in SUBSET {"id", "security"} /\ "id" \in names /\ standing \in SUBSET {"security"}
  OBVIOUS
<1>3. /\ i.network \in Networks /\ i.streamSecurity \in Securities("vless")
      /\ i.headerType \in {"", "none", "http"}
      /\ AsItStands(i.flow) = i.flow /\ AsItStands(i.packetEncoding) = i.packetEncoding
  BY DEF Fits, Securities, OverStandardTransport, Words
<1> HIDE DEF names, default
<1>4. /\ DOMAIN w = ItemFields
      /\ w.id = i.id
      /\ w.flow = i.flow /\ w.packetEncoding = i.packetEncoding
      /\ w.sni = i.sni /\ w.alpn = i.alpn /\ w.certSha = i.certSha
      /\ w.allowInsecure = "" /\ w.cert = "" /\ w.muxEnabled = ""
      /\ w.streamSecurity = OrElse(i.streamSecurity, default)
      /\ w.network = IF i.network \in {"http", "h2"} THEN "http" ELSE i.network
      /\ w.fingerprint = IF Reality(i) THEN i.fingerprint ELSE ""
      /\ w.publicKey = IF Reality(i) THEN i.publicKey ELSE ""
      /\ w.requestHost = IF i.network \in {"kcp", "grpc"} THEN ""
                         ELSE IF i.network = "quic" THEN OrElse(i.requestHost, "none")
                         ELSE i.requestHost
      /\ w.path = IF i.network = "tcp" THEN "" ELSE i.path
      /\ w.headerType = IF i.network \in {"xhttp", "quic", "kcp", "tcp"} THEN i.headerType ELSE ""
  <2>1. IsStandardLink(w, i, names, default)
    BY <1>2, <1>3, StandardWritten
  <2> QED BY <1>2, <2>1 DEF IsStandardLink
<1>41. w.security = IF type = "trojan" THEN "" ELSE i.security
  <2>1. w.security = IF "security" \in names THEN i.security ELSE ""
    <3>1. IsStandardLink(w, i, names, default)
      BY <1>2, <1>3, StandardWritten
    <3> QED BY <3>1 DEF IsStandardLink
  <2> QED BY <2>1 DEF names
<1> HIDE DEF w
<1>5. /\ DOMAIN b = ItemFields
      /\ b.security = IF type = "trojan" THEN "" ELSE OrElse(i.security, "none")
      /\ \A f \in ItemFields \ {"security"} : b[f] = w[f]
  BY <1>4, <1>41 DEF ItemFields
<1> HIDE DEF b
<1>f. {"id", "security", "flow", "packetEncoding", "sni", "alpn", "certSha", "allowInsecure", "cert",
       "muxEnabled", "streamSecurity", "network", "fingerprint", "publicKey", "requestHost",
       "path", "headerType"} \subseteq ItemFields
  BY DEF ItemFields
<1>6. /\ b.network \in Networks \ {"h2"}
      /\ b.network = IF i.network \in {"http", "h2"} THEN "http" ELSE i.network
  <2>1. b.network = w.network
    BY <1>5, <1>f
  <2>2. b.network = IF i.network \in {"http", "h2"} THEN "http" ELSE i.network
    BY <1>4, <2>1
  <2> QED BY <1>3, <2>2 DEF Networks
<1> HIDE DEF standing
<1>7. /\ b.id = i.id
      /\ b.flow = i.flow /\ b.packetEncoding = i.packetEncoding
      /\ b.sni = i.sni /\ b.alpn = i.alpn /\ b.certSha = i.certSha
      /\ b.allowInsecure = ""
      /\ b.streamSecurity = OrElse(i.streamSecurity, default)
      /\ b.fingerprint = IF Reality(i) THEN i.fingerprint ELSE ""
      /\ b.publicKey = IF Reality(i) THEN i.publicKey ELSE ""
  BY <1>4, <1>5, <1>f
<1>8. /\ b.requestHost = IF i.network \in {"kcp", "grpc"} THEN ""
                         ELSE IF i.network = "quic" THEN OrElse(i.requestHost, "none")
                         ELSE i.requestHost
      /\ b.path = IF i.network = "tcp" THEN "" ELSE i.path
      /\ b.headerType = IF i.network \in {"xhttp", "quic", "kcp", "tcp"} THEN i.headerType ELSE ""
  BY ZenonT(40), <1>4, <1>5 DEF ItemFields
<1>9. /\ DOMAIN r = ItemFields
      /\ r.id = b.id
      /\ r.security = IF standing = {} THEN "" ELSE AsItStands(b.security)
      /\ r.flow = AsItStands(b.flow) /\ r.packetEncoding = AsItStands(b.packetEncoding)
      /\ r.sni = b.sni /\ r.alpn = b.alpn /\ r.certSha = b.certSha
      /\ r.allowInsecure = AsItStands(b.allowInsecure)
      /\ r.cert = "" /\ r.muxEnabled = ""
      /\ r.streamSecurity = AsItStands(b.streamSecurity)
      /\ r.network = IF b.network = "http" THEN "h2" ELSE b.network
      /\ r.fingerprint = b.fingerprint /\ r.publicKey = b.publicKey
      /\ r.requestHost = IF b.network \in {"kcp", "grpc"} THEN ""
                         ELSE IF b.network = "quic" THEN OrElse(b.requestHost, "none")
                         ELSE b.requestHost
      /\ r.path = IF b.network = "tcp" THEN "" ELSE b.path
      /\ r.headerType = IF b.network = "xhttp" THEN b.headerType
                        ELSE IF b.network \in {"quic", "kcp", "tcp"}
                        THEN OrElse(AsItStands(b.headerType), "none") ELSE ""
      /\ \A f \in ItemFields \ (StreamFields \cup {"id", "security", "flow", "packetEncoding"}) :
              r[f] = ""
  <2>1. IsStandardReading(r, b, standing)
    BY <1>2, <1>5, <1>6, StandardRead
  <2> HIDE DEF r
  <2> QED BY <2>1 DEF IsStandardReading
<1> HIDE DEF r
<1>10. /\ DOMAIN j = ItemFields
       /\ j.streamSecurity = (IF type = "trojan" THEN OrElse(r.streamSecurity, "tls")
               ELSE r.streamSecurity)
       /\ j.security = (IF type = "trojan" THEN r.security ELSE OrElse(r.security, "none"))
       /\ j.id = UserInfo(r.id)
       /\ \A f \in ItemFields \ {"id", "security", "streamSecurity"} : j[f] = r[f]
  BY ZenonT(40), <1>1, <1>9 DEF ItemFields
<1>11. /\ j.id = UserInfo(i.id) /\ j.flow = i.flow /\ j.packetEncoding = i.packetEncoding
       /\ j.sni = i.sni /\ j.alpn = i.alpn /\ j.certSha = i.certSha
       /\ j.cert = "" /\ j.muxEnabled = ""
  <2>1. /\ j.id = UserInfo(r.id) /\ j.flow = r.flow /\ j.packetEncoding = r.packetEncoding
        /\ j.sni = r.sni /\ j.alpn = r.alpn /\ j.certSha = r.certSha
        /\ j.cert = r.cert /\ j.muxEnabled = r.muxEnabled
    BY <1>10, <1>f
  <2>2. r.flow = i.flow /\ r.packetEncoding = i.packetEncoding
    BY <1>3, <1>7, <1>9
  <2>3. r.id = i.id /\ r.sni = i.sni /\ r.alpn = i.alpn /\ r.certSha = i.certSha
    BY <1>7, <1>9
  <2>4. r.cert = "" /\ r.muxEnabled = ""
    BY <1>9
  <2> QED BY <2>1, <2>2, <2>3, <2>4
<1>12. /\ j.fingerprint = IF Reality(i) THEN i.fingerprint ELSE ""
       /\ j.publicKey = IF Reality(i) THEN i.publicKey ELSE ""
  BY <1>7, <1>9, <1>10 DEF ItemFields
<1>13. j.allowInsecure = ""
  BY <1>7, <1>9, <1>10 DEF ItemFields, AsItStands, Marked
<1>14. j.streamSecurity = OrElse(i.streamSecurity, IF type = "trojan" THEN "tls" ELSE "none")
  <2>1. i.streamSecurity \in {"", "none", "tls", "xtls", "reality"}
    BY <1>3 DEF Securities, OverStandardTransport
  <2> QED BY <2>1, <1>7, <1>9, <1>10 DEF AsItStands, Marked, OrElse, default
<1>15. j.network = IF i.network \in {"http", "h2"} THEN "h2" ELSE i.network
  BY ZenonT(40), <1>6, <1>9, <1>10 DEF ItemFields
<1>16. /\ b.network \in {"kcp", "grpc"} <=> i.network \in {"kcp", "grpc"}
       /\ b.network = "quic" <=> i.network = "quic"
       /\ b.network = "tcp" <=> i.network = "tcp"
       /\ b.network = "xhttp" <=> i.network = "xhttp"
       /\ b.network \in {"quic", "kcp", "tcp"} <=> i.network \in {"quic", "kcp", "tcp"}
  BY <1>6
<1>17. /\ j.requestHost = r.requestHost /\ j.path = r.path /\ j.headerType = r.headerType
  BY <1>10 DEF ItemFields
<1>18. j.requestHost = IF i.network \in {"kcp", "grpc"} THEN ""
                       ELSE IF i.network = "quic" THEN OrElse(i.requestHost, "none")
                       ELSE i.requestHost
  BY <1>8, <1>9, <1>16, <1>17 DEF OrElse
<1>19. j.path = IF i.network = "tcp" THEN "" ELSE i.path
  BY <1>8, <1>9, <1>16, <1>17
<1>20. j.headerType = IF i.network = "xhttp" THEN i.headerType
                      ELSE IF i.network \in {"quic", "kcp", "tcp"} THEN OrElse(i.headerType, "none")
                      ELSE ""
  <2>1. AsItStands(i.headerType) = i.headerType
    BY <1>3 DEF AsItStands, Marked
  <2>2. i.network \in {"xhttp", "quic", "kcp", "tcp"} => b.headerType = i.headerType
    BY <1>8
  <2>3. r.headerType = IF i.network = "xhttp" THEN b.headerType
                       ELSE IF i.network \in {"quic", "kcp", "tcp"}
                       THEN OrElse(AsItStands(b.headerType), "none") ELSE ""
    BY <1>9, <1>16
  <2> QED BY <2>1, <2>2, <2>3, <1>17
<1>21. j.security = "" \/ (type = "vless" /\ j.security \in {"none", AsItStands(i.security)})
  BY <1>5, <1>9, <1>10 DEF OrElse, standing, AsItStands, Marked
<1>22. \A f \in ItemFields \ (StreamFields \cup {"id", "security", "flow", "packetEncoding"}) : j[f] = ""
  BY ZenonT(40), <1>9, <1>10 DEF StreamFields
<1> QED BY <1>10, <1>11, <1>12, <1>13, <1>14, <1>15, <1>18, <1>19, <1>20, <1>21, <1>22
    DEF IsPassedOn

\* VLESS and Trojan (buildTrojan, buildVless, parseTrojan, parseVless).
LEMMA StandardByLink ==
    ASSUME Settled, way = "link", NEW type \in {"trojan", "vless"},
           NEW i, DOMAIN i = ItemFields, Fits(type, i), NEW j,
           j = IF type = "trojan" THEN parseTrojan(buildTrojan(i)) ELSE parseVless(buildVless(i))
    PROVE  PartByPart(Item(type, i), Item(type, j)) /\ Fits(type, j)
<1> DEFINE s == Item(type, i)  t == Item(type, j)
<1>1. /\ s.type = type /\ s.fields = i
      /\ t.type = type /\ t.fields = j
  BY DEF Item
<1>2. /\ i.network \in Networks /\ i.headerType \in {"", "none", "http"}
      /\ i.streamSecurity \in {"", "none", "tls", "xtls", "reality"}
  BY DEF Fits, Securities, OverStandardTransport
<1>p. IsPassedOn(type, i, j)
  BY StandardPassed
<1>3. /\ j.id = UserInfo(i.id) /\ j.flow = i.flow /\ j.packetEncoding = i.packetEncoding
      /\ j.sni = i.sni /\ j.alpn = i.alpn /\ j.certSha = i.certSha
      /\ j.allowInsecure = "" /\ j.cert = "" /\ j.muxEnabled = ""
      /\ j.streamSecurity = OrElse(i.streamSecurity, IF type = "trojan" THEN "tls" ELSE "none")
      /\ j.fingerprint = IF Reality(i) THEN i.fingerprint ELSE ""
      /\ j.publicKey = IF Reality(i) THEN i.publicKey ELSE ""
  BY <1>p DEF IsPassedOn
<1>4. /\ j.network = IF i.network \in {"http", "h2"} THEN "h2" ELSE i.network
      /\ j.requestHost = IF i.network \in {"kcp", "grpc"} THEN ""
                         ELSE IF i.network = "quic" THEN OrElse(i.requestHost, "none")
                         ELSE i.requestHost
      /\ j.path = IF i.network = "tcp" THEN "" ELSE i.path
      /\ j.headerType = IF i.network = "xhttp" THEN i.headerType
                        ELSE IF i.network \in {"quic", "kcp", "tcp"} THEN OrElse(i.headerType, "none")
                        ELSE ""
  BY <1>p DEF IsPassedOn
<1>5. Fits(type, j)
  <2>1. Passes(type, i, j)
    <3> SUFFICES ASSUME NEW f \in ItemFields
                 PROVE  \/ j[f] \in {"", i[f]}
                        \/ f = "id" /\ j[f] = UserInfo(i[f])
                        \/ f = "security" /\ j[f] = AsItStands(i[f])
                        \/ f \in FieldsOf(type) /\ j[f] \in Given
                        \/ f \in {"network", "headerType", "streamSecurity"}
                           /\ j[f] \in {"tcp", "h2", "none", "tls"}
      <4>1. "id" \in UserInfoOf(type) /\ "security" \notin UserInfoOf(type)
        BY DEF UserInfoOf
      <4> QED BY <4>1 DEF Passes
    <3>1. {"requestHost", "security"} \subseteq FieldsOf(type) \/ (f = "security" /\ type = "trojan")
          \/ "requestHost" \in FieldsOf(type)
      BY DEF FieldsOf, StreamFields
    <3>2. "requestHost" \in FieldsOf(type) /\ (type = "vless" => "security" \in FieldsOf(type))
      BY DEF FieldsOf, StreamFields
    <3>3. CASE f \notin StreamFields \cup {"id", "security", "flow", "packetEncoding"}
      BY <1>p, <3>3 DEF IsPassedOn
    <3>4. CASE f \in {"id", "flow", "packetEncoding", "sni", "alpn", "certSha", "allowInsecure", "cert",
                      "muxEnabled", "fingerprint", "publicKey", "path"}
      BY <1>3, <1>4, <3>4
    <3>5. CASE f \in {"network", "streamSecurity", "headerType"}
      BY <1>2, <1>3, <1>4, <3>5 DEF OrElse
    <3>6. CASE f = "requestHost"
      BY <1>4, <3>2, <3>6 DEF OrElse, Given
    <3>7. CASE f = "security"
      BY <1>p, <3>2, <3>7 DEF IsPassedOn, Given
    <3> QED BY <3>3, <3>4, <3>5, <3>6, <3>7 DEF StreamFields, TlsFields
  <2>2. j.streamSecurity \in Securities(type)
    BY <1>2, <1>3 DEF OrElse, Securities, OverStandardTransport
  <2>3. j.network \in Networks /\ j.headerType \in {"", "none", "http"}
    BY <1>2, <1>4 DEF Networks, OrElse
  <2> QED BY <1>2, <1>3, <2>1, <2>2, <2>3, StillFits
<1>6. ~(Multiplexed(s) <=> Multiplexed(t)) <=> "multiplex" \in Lost(s)
  BY <1>3, MultiplexPart
<1> HIDE DEF s, t
<1>7. Options(s) = Options(t)
  BY <1>1, <1>3 DEF Options
<1>8. Credentials(s) # Credentials(t) => "credentials" \in Lost(s)
  <2>1. Credentials(s) = <<i.id>> /\ Credentials(t) = <<j.id>>
    BY <1>1 DEF Credentials
  <2>2. i.id # j.id => i.id = "spoilt"
    BY <1>3 DEF UserInfo
  <2>3. "id" \in UserInfoOf(s.type)
    BY <1>1 DEF UserInfoOf
  <2> QED BY <1>1, <2>1, <2>2, <2>3, LostInLink
<1>9. Transport(s) # Transport(t) <=> "transport" \in Lost(s)
  <2>1. "transport" \in Lost(s) <=>
          i.network = "http" \/ (i.network = "tcp" /\ i.headerType = "http"
                                 /\ i.path # "" /\ i.path # "/")
    BY ZenonT(40), <1>1, LostInLink
  <2>2. /\ Transport(s) = <<resolveSingBoxNetwork(i), buildTransport(i)>>
        /\ Transport(t) = <<resolveSingBoxNetwork(j), buildTransport(j)>>
    BY <1>1 DEF Transport, OverStandardTransport
  <2>3. CASE i.network = "http"
    <3>1. resolveSingBoxNetwork(i) = "http" /\ resolveSingBoxNetwork(j) = "tcp"
      BY <1>4, <2>3 DEF resolveSingBoxNetwork
    <3> QED BY <2>1, <2>2, <2>3, <3>1
  <2>4. CASE i.network = "tcp"
    <3>1. resolveSingBoxNetwork(i) = "tcp" /\ resolveSingBoxNetwork(j) = "tcp"
      BY <1>4, <2>4 DEF resolveSingBoxNetwork
    <3>2. buildTransport(i) = IF i.headerType = "http"
                              THEN <<"http", OrElse(i.path, "/"), i.requestHost>> ELSE <<>>
      BY <2>4 DEF buildTransport
    <3>3. buildTransport(j) = IF i.headerType = "http" THEN <<"http", "/", i.requestHost>> ELSE <<>>
      BY <1>2, <1>4, <2>4 DEF buildTransport, OrElse
    <3>4. OrElse(i.path, "/") = "/" <=> i.path = "" \/ i.path = "/"
      BY DEF OrElse
    <3>5. buildTransport(i) # buildTransport(j) <=> i.headerType = "http" /\ OrElse(i.path, "/") # "/"
      BY <3>2, <3>3
    <3>6. Transport(s) # Transport(t) <=> buildTransport(i) # buildTransport(j)
      BY <2>2, <3>1
    <3> QED BY <2>1, <2>4, <3>4, <3>5, <3>6
  <2>5. CASE i.network \in {"ws", "grpc", "h2", "httpupgrade", "xhttp", "kcp", "quic"}
    <3>1. resolveSingBoxNetwork(i) = resolveSingBoxNetwork(j)
      BY <1>4, <2>5 DEF resolveSingBoxNetwork
    <3>2. buildTransport(i) = buildTransport(j)
      <4>1. CASE i.network \in {"ws", "h2", "httpupgrade"}
        <5>1. j.network = i.network /\ j.path = i.path /\ j.requestHost = i.requestHost
          BY <1>4, <4>1
        <5> QED BY <4>1, <5>1 DEF buildTransport
      <4>2. CASE i.network \in {"grpc", "xhttp", "kcp", "quic"}
        <5>1. j.network = i.network /\ j.path = i.path
          BY <1>4, <4>2
        <5> QED BY <4>2, <5>1 DEF buildTransport
      <4> QED BY <2>5, <4>1, <4>2
    <3> QED BY <2>1, <2>2, <2>5, <3>1, <3>2
  <2> QED BY <1>2, <2>3, <2>4, <2>5 DEF Networks
<1>10. Reality(j) <=> Reality(i)
  BY <1>2, <1>3 DEF Reality, OrElse
<1>11. ~(Secured(s) <=> Secured(t)) <=> "tls" \in Lost(s)
  <2>1. "tls" \in Lost(s) <=> type = "trojan" /\ i.streamSecurity = ""
    BY ZenonT(40), <1>1, LostInLink
  <2> QED BY <1>1, <1>2, <1>3, <2>1 DEF Secured, OrElse
<1>12. Checked(i) # Checked(j) <=> "checked" \in Lost(s)
  <2>1. resolveAllowInsecure(j.allowInsecure) <=> SkippedAfter(s)
    BY <1>1, <1>3 DEF SkippedAfter, resolveAllowInsecure, OverStandardTransport
  <2>2. s.type \in OverStandardTransport /\ s.type \in {"trojan", "vless"}
    BY <1>1 DEF OverStandardTransport
  <2>3. j.cert = "" /\ j.certSha = i.certSha
    BY <1>3
  <2> QED BY <1>1, <1>10, <2>1, <2>2, <2>3, CheckedPart
<1>13. resolveServerName(i) # resolveServerName(j) <=> "name" \in Lost(s)
  <2>1. "name" \in Lost(s) <=>
          /\ i.sni = ""
          /\ \/ i.network \in {"grpc", "kcp"} /\ i.requestHost # "" /\ i.requestHost # "address"
             \/ i.network = "quic" /\ i.requestHost = ""
    BY <1>1, LostInLink
  <2> QED BY <1>3, <1>4, <2>1 DEF resolveServerName, OrElse
<1>14. i.alpn = j.alpn
  BY <1>3
<1>15. resolveFingerprint(i) # resolveFingerprint(j) <=> "utls" \in Lost(s)
  <2>1. "utls" \in Lost(s) <=> ~Reality(i) /\ i.fingerprint # "" /\ i.fingerprint # defaults.fingerprint
    BY <1>1, LostInLink
  <2> QED BY ZenonT(40), <1>3, <1>10, <2>1, PrintPart
<1>16. RealityKey(i) = RealityKey(j)
  BY <1>3, <1>10 DEF RealityKey
<1>17. TlsByPart(s, t)
  BY <1>1, <1>11, <1>12, <1>13, <1>14, <1>15, <1>16 DEF TlsByPart
<1>18. PartByPart(s, t)
  BY <1>1, <1>6, <1>7, <1>8, <1>9, <1>17 DEF PartByPart
<1> QED BY <1>5, <1>18 DEF s, t

\* Reading without decoding changes a text only if it holds a sign that is encoded.
LEMMA Spoiling == \A v : AsItStands(v) # v => v \in Marked \cup {"spoilt", "worse"}
BY DEF AsItStands, Marked

\* Protocols that have no choice but TLS.
AlwaysTls == {"hysteria2", "tuic", "anytls", "naive"}
\* The ways of writing a skipped check that a builder knows.
Accepted(type) == IF type \in {"anytls", "naive"} THEN {"true", "1"} ELSE {"true"}

\* What such a server has, and what it cannot have.
LEMMA OfAlwaysTls ==
    ASSUME NEW type \in AlwaysTls, NEW i, Fits(type, i)
    PROVE  /\ i.streamSecurity = "tls" /\ ~Reality(i)
           /\ i.requestHost = "" /\ i.publicKey = ""
           /\ type # "anytls" => i.fingerprint = ""
           /\ AsItStands(i.sni) = i.sni /\ AsItStands(i.fingerprint) = i.fingerprint
           /\ type \in Protocols /\ type \notin OverStandardTransport
<1>1. i.streamSecurity = "tls"
  BY DEF AlwaysTls, Fits, Securities, OverStandardTransport
<1>2. {"requestHost", "publicKey"} \cap FieldsOf(type) = {}
      /\ (type # "anytls" => "fingerprint" \notin FieldsOf(type))
  BY DEF AlwaysTls, FieldsOf, TlsFields
<1>3. /\ {"requestHost", "publicKey", "fingerprint"} \subseteq ItemFields
      /\ {"sni", "fingerprint"} \subseteq Words
  BY DEF ItemFields, Words
<1>4. i.requestHost = "" /\ i.publicKey = "" /\ (type # "anytls" => i.fingerprint = "")
  BY <1>2, <1>3, Unused
<1>5. AsItStands(i.sni) = i.sni /\ AsItStands(i.fingerprint) = i.fingerprint
  BY <1>3 DEF Fits
<1> QED BY <1>1, <1>4, <1>5 DEF Reality, AlwaysTls, Protocols, Linkable, OverStandardTransport

\* The TLS part of their links: only ALPN is read without decoding, but for AnyTLS.
LEMMA TlsByLink ==
    ASSUME Settled, way = "link", NEW type \in AlwaysTls, NEW i, DOMAIN i = ItemFields, Fits(type, i),
           NEW j, j.streamSecurity = "tls", j.requestHost = "", j.sni = i.sni,
           j.cert = "", j.certSha = "", j.fingerprint = i.fingerprint,
           j.allowInsecure = Insecure(i, Accepted(type)),
           j.alpn = IF type = "anytls" THEN i.alpn ELSE AsItStands(i.alpn)
    PROVE  TlsByPart(Item(type, i), Item(type, j))
<1> DEFINE s == Item(type, i)  t == Item(type, j)
<1>0. s.type = type /\ s.fields = i /\ t.type = type /\ t.fields = j
  BY DEF Item
<1> HIDE DEF s, t
<1>1. /\ i.streamSecurity = "tls" /\ ~Reality(i) /\ i.requestHost = ""
      /\ type \notin OverStandardTransport
  BY OfAlwaysTls
<1>2. ~Reality(j)
  BY DEF Reality
<1>3. (Secured(s) <=> Secured(t)) /\ "tls" \notin Lost(s)
  <2>1. "tls" \notin Lost(s)
    BY <1>0, LostInLink DEF AlwaysTls
  <2> QED BY <1>0, <1>1, <2>1 DEF Secured
<1>4. Checked(i) # Checked(j) <=> "checked" \in Lost(s)
  <2>1. resolveAllowInsecure(j.allowInsecure) <=> SkippedAfter(s)
    BY <1>0, <1>1 DEF SkippedAfter, resolveAllowInsecure, Insecure, Accepted, Settled, AlwaysTls
  <2>2. i = s.fields /\ s.type \notin {"trojan", "vless"}
    BY <1>0 DEF AlwaysTls
  <2> QED BY <1>1, <1>2, <2>1, <2>2, CheckedPart
<1>5. resolveServerName(i) = resolveServerName(j) /\ "name" \notin Lost(s)
  <2>1. "name" \notin Lost(s)
    BY <1>0, LostInLink DEF AlwaysTls
  <2> QED BY <1>1, <2>1 DEF resolveServerName
<1>6. i.alpn # j.alpn => "alpn" \in Lost(s)
  <2>1. "alpn" \in Lost(s) <=> type # "anytls" /\ i.alpn \in Marked \cup {"spoilt", "worse"}
    <3>1. "alpn" \in Lost(s) <=>
             s.type \in {"hysteria2", "tuic", "naive"} /\ i.alpn \in Marked \cup {"spoilt", "worse"}
      BY <1>0, LostInLink
    <3> QED BY <1>0, <3>1 DEF AlwaysTls
  <2> QED BY <2>1, Spoiling
<1>7. resolveFingerprint(i) = resolveFingerprint(j) /\ "utls" \notin Lost(s)
  <2>1. "utls" \notin Lost(s)
    BY <1>0, LostInLink DEF AlwaysTls
  <2> QED BY <1>1, <1>2, <2>1 DEF resolveFingerprint
<1>8. RealityKey(i) = RealityKey(j) /\ "reality" \notin Lost(s)
  <2>1. "reality" \notin Lost(s)
    BY <1>0, LostInLink DEF AlwaysTls
  <2> QED BY <1>1, <1>2, <2>1 DEF RealityKey
<1>9. TlsByPart(s, t)
  BY <1>0, <1>3, <1>4, <1>5, <1>6, <1>7, <1>8 DEF TlsByPart
<1> QED BY <1>9 DEF s, t

\* What stands before the @ of a link is decoded twice; a text that survives it was not
\* the code of another.
LEMMA UserInfoByLink ==
    ASSUME Settled, way = "link", NEW s, NEW i, s.fields = i, DOMAIN i = ItemFields,
           NEW f \in UserInfoOf(s.type), UserInfo(i[f]) # i[f]
    PROVE  "credentials" \in Lost(s)
<1>1. i[f] = "spoilt"
  BY DEF UserInfo
<1> QED BY <1>1, LostInLink

\* What all four have in common, once their own fields are compared.
LEMMA AlwaysTlsByLink ==
    ASSUME Settled, way = "link", NEW type \in AlwaysTls, NEW i, DOMAIN i = ItemFields, Fits(type, i),
           NEW j, Passes(type, i, j),
           j.streamSecurity = "tls", j.requestHost = "", j.sni = AsItStands(i.sni),
           j.cert = "", j.certSha = "", j.muxEnabled = "",
           j.fingerprint = IF type = "anytls" THEN AsItStands(i.fingerprint) ELSE "",
           j.allowInsecure =
               AsItStands(Insecure(i, Accepted(type))),
           j.alpn = IF type = "anytls" THEN i.alpn ELSE AsItStands(i.alpn),
           Credentials(Item(type, i)) # Credentials(Item(type, j)) =>
               "credentials" \in Lost(Item(type, i)),
           Options(Item(type, i)) # Options(Item(type, j)) => "options" \in Lost(Item(type, i))
    PROVE  PartByPart(Item(type, i), Item(type, j)) /\ Fits(type, j)
<1> DEFINE s == Item(type, i)  t == Item(type, j)
<1>1. /\ s.type = type /\ s.fields = i
      /\ t.type = type /\ t.fields = j
  BY DEF Item
<1>2. Fits(type, j)
  <2>1. j.streamSecurity \in Securities(type) /\ type \notin OverStandardTransport
    BY DEF Securities, AlwaysTls, OverStandardTransport
  <2> QED BY <2>1, StillFits
<1>3. ~(Multiplexed(s) <=> Multiplexed(t)) <=> "multiplex" \in Lost(s)
  BY MultiplexPart DEF AlwaysTls
<1>4. j.sni = i.sni /\ j.fingerprint = i.fingerprint
  <2>1. AsItStands(i.sni) = i.sni
    BY OfAlwaysTls
  <2>2. AsItStands(i.fingerprint) = i.fingerprint
    BY OfAlwaysTls
  <2>3. ASSUME type # "anytls" PROVE i.fingerprint = ""
    <3>1. "fingerprint" \in ItemFields \ (FieldsOf(type) \cup {"network", "headerType", "streamSecurity"})
      BY <2>3 DEF AlwaysTls, FieldsOf, TlsFields, ItemFields
    <3> QED BY ZenonT(40), <3>1, Unused
  <2> QED BY <2>1, <2>2, <2>3
<1>5. j.allowInsecure = Insecure(i, Accepted(type))
  BY DEF Insecure, AsItStands, Marked
<1>6. TlsByPart(s, t)
  BY <1>4, <1>5, TlsByLink
<1> HIDE DEF s, t
<1>7. Transport(s) = Transport(t)
  BY <1>1 DEF Transport, AlwaysTls, OverStandardTransport
<1>8. /\ Credentials(s) # Credentials(t) => "credentials" \in Lost(s)
      /\ Options(s) # Options(t) => "options" \in Lost(s)
  BY DEF s, t
<1>9. PartByPart(s, t)
  BY <1>1, <1>3, <1>6, <1>7, <1>8 DEF PartByPart
<1> QED BY <1>2, <1>9 DEF s, t

\* buildHysteria2 and parseHysteria2: a password with a sign in it is spoilt.
LEMMA Hysteria2ByLink ==
    ASSUME Settled, way = "link",
           NEW i, DOMAIN i = ItemFields, Fits("hysteria2", i),
           NEW j, j = parseHysteria2(buildHysteria2(i))
    PROVE  PartByPart(Item("hysteria2", i), Item("hysteria2", j)) /\ Fits("hysteria2", j)
<1> DEFINE type == "hysteria2"  s == Item(type, i)  t == Item(type, j)
<1>1. /\ s.type = type /\ s.fields = i
      /\ t.type = type /\ t.fields = j
  BY DEF Item
<1> DEFINE b == buildHysteria2(i)
<1>2. /\ DOMAIN b = ItemFields
      /\ b.allowInsecure = Insecure(i, {"true"})
      /\ \A f \in {"id", "sni", "obfsPassword", "mbps", "alpn"} : b[f] = i[f]
      /\ \A f \in ItemFields \ {"id", "sni", "obfsPassword", "mbps", "alpn", "allowInsecure"} : b[f] = ""
  BY DEF buildHysteria2, Written, ItemFields
<1>3. /\ DOMAIN j = ItemFields
      /\ j.streamSecurity = "tls" /\ j.id = UserInfo(b.id) /\ j.certSha = b.certSha
      /\ \A f \in {"sni", "allowInsecure", "obfsPassword", "mbps", "alpn"} : j[f] = AsItStands(b[f])
      /\ \A f \in ItemFields \ {"streamSecurity", "id", "certSha", "sni", "allowInsecure",
                                "obfsPassword", "mbps", "alpn"} : j[f] = ""
  <2> HIDE DEF b
  <2> QED BY DEF parseHysteria2, Tls, Read, ItemFields, b
<1> HIDE DEF b
<1>4. /\ j.streamSecurity = "tls" /\ j.id = UserInfo(i.id) /\ j.certSha = ""
      /\ j.sni = AsItStands(i.sni) /\ j.alpn = AsItStands(i.alpn)
      /\ j.obfsPassword = AsItStands(i.obfsPassword) /\ j.mbps = AsItStands(i.mbps)
      /\ j.allowInsecure = AsItStands(Insecure(i, {"true"}))
      /\ j.requestHost = "" /\ j.cert = "" /\ j.muxEnabled = "" /\ j.fingerprint = ""
  BY <1>2, <1>3 DEF ItemFields
<1>5. Passes(type, i, j)
  <2> SUFFICES ASSUME NEW f \in ItemFields
               PROVE  \/ j[f] \in {"", i[f]}
                      \/ f \in {"id"} /\ j[f] = UserInfo(i[f])
                      \/ f \notin {"id"} /\ j[f] = AsItStands(i[f])
                      \/ f \in FieldsOf(type) /\ j[f] \in Given
                      \/ f = "streamSecurity" /\ j[f] = "tls"
    BY DEF Passes, UserInfoOf
  <2>1. AsItStands(Insecure(i, {"true"})) \in {"", "1"} /\ "allowInsecure" \in FieldsOf(type)
    BY DEF AsItStands, Marked, Insecure, FieldsOf, TlsFields
  <2>2. CASE f \in {"streamSecurity", "id", "certSha", "sni", "allowInsecure", "obfsPassword",
                "mbps", "alpn"}
    BY <1>4, <2>1, <2>2 DEF Given
  <2>3. CASE f \notin {"streamSecurity", "id", "certSha", "sni", "allowInsecure", "obfsPassword",
                "mbps", "alpn"}
    BY <1>3, <2>3
  <2> QED BY <2>2, <2>3
<1>6. i.mbps = j.mbps
  BY <1>4 DEF Fits, Words
<1> HIDE DEF s, t
<1>7. Credentials(s) # Credentials(t) => "credentials" \in Lost(s)
  <2>1. Credentials(s) = <<i.id>> /\ Credentials(t) = <<j.id>>
    BY <1>1 DEF Credentials
  <2>2. "id" \in UserInfoOf(s.type)
    BY <1>1 DEF UserInfoOf
  <2> QED BY <1>1, <1>4, <2>1, <2>2, UserInfoByLink
<1>8. Options(s) # Options(t) => "options" \in Lost(s)
  <2>1. "options" \in Lost(s) <=> i.obfsPassword \in Marked \cup {"spoilt", "worse"}
    BY <1>1, LostInLink
  <2>2. Options(s) = <<i.obfsPassword, i.mbps>> /\ Options(t) = <<j.obfsPassword, j.mbps>>
    BY <1>1 DEF Options
  <2>3. j.obfsPassword # i.obfsPassword => i.obfsPassword \in Marked \cup {"spoilt", "worse"}
    BY <1>4, Spoiling
  <2> QED BY <1>6, <2>1, <2>2, <2>3
<1> QED
  <2>1. type \in AlwaysTls /\ type \notin {"anytls", "naive"}
    BY DEF AlwaysTls
  <2>2. Accepted(type) = {"true"}
    BY DEF Accepted
  <2> QED BY <1>4, <1>5, <1>7, <1>8, <2>1, <2>2, AlwaysTlsByLink DEF s, t

\* buildTuic and parseTuic: choices left open are closed.
LEMMA TuicByLink ==
    ASSUME Settled, way = "link",
           NEW i, DOMAIN i = ItemFields, Fits("tuic", i), NEW j, j = parseTuic(buildTuic(i))
    PROVE  PartByPart(Item("tuic", i), Item("tuic", j)) /\ Fits("tuic", j)
<1> DEFINE type == "tuic"  s == Item(type, i)  t == Item(type, j)
           b == buildTuic(i)
           standing == {"sni", "congestionControl", "udpRelayMode", "zeroRttHandshake", "alpn"}
<1>1. /\ s.type = type /\ s.fields = i
      /\ t.type = type /\ t.fields = j
  BY DEF Item
<1>2. /\ DOMAIN b = ItemFields
      /\ b.allowInsecure = Insecure(i, {"true"})
      /\ \A f \in {"id", "security"} \cup standing : b[f] = i[f]
      /\ \A f \in ItemFields \ ({"id", "security", "allowInsecure"} \cup standing) : b[f] = ""
  BY ZenonT(40) DEF buildTuic, Written, ItemFields
<1>3. /\ DOMAIN j = ItemFields
      /\ j.streamSecurity = "tls" /\ j.id = UserInfo(b.id) /\ j.security = UserInfo(b.security)
      /\ j.congestionControl = OrElse(AsItStands(b.congestionControl), "cubic")
      /\ j.udpRelayMode = OrElse(AsItStands(b.udpRelayMode), "native")
      /\ \A f \in {"sni", "allowInsecure", "zeroRttHandshake", "alpn"} : j[f] = AsItStands(b[f])
      /\ \A f \in ItemFields \ ({"streamSecurity", "id", "security", "allowInsecure"}
              \cup standing) : j[f] = ""
  <2> HIDE DEF b
  <2> QED BY DEF parseTuic, Tls, Read, ItemFields, b
<1> HIDE DEF b
<1>4. /\ j.streamSecurity = "tls" /\ j.id = UserInfo(i.id) /\ j.security = UserInfo(i.security)
      /\ j.sni = AsItStands(i.sni) /\ j.alpn = AsItStands(i.alpn)
      /\ j.congestionControl = OrElse(AsItStands(i.congestionControl), "cubic")
      /\ j.udpRelayMode = OrElse(AsItStands(i.udpRelayMode), "native")
      /\ j.zeroRttHandshake = AsItStands(i.zeroRttHandshake)
      /\ j.allowInsecure = AsItStands(Insecure(i, {"true"}))
      /\ j.requestHost = "" /\ j.cert = "" /\ j.certSha = "" /\ j.muxEnabled = "" /\ j.fingerprint = ""
  BY ZenonT(40), <1>2, <1>3 DEF ItemFields
<1>5. Passes(type, i, j)
  <2> SUFFICES ASSUME NEW f \in ItemFields
               PROVE  \/ j[f] \in {"", i[f]}
                      \/ f \in {"id", "security"} /\ j[f] = UserInfo(i[f])
                      \/ f \notin {"id", "security"} /\ j[f] = AsItStands(i[f])
                      \/ f \in FieldsOf(type) /\ j[f] \in Given
                      \/ f = "streamSecurity" /\ j[f] = "tls"
    BY DEF Passes, UserInfoOf
  <2>1. /\ AsItStands(Insecure(i, {"true"})) \in {"", "1"}
        /\ {"allowInsecure", "congestionControl", "udpRelayMode"} \subseteq FieldsOf(type)
    BY DEF AsItStands, Marked, Insecure, FieldsOf, TlsFields
  <2>2. CASE f \in {"streamSecurity", "id", "security", "allowInsecure"} \cup standing
    BY <1>4, <2>1, <2>2 DEF Given, OrElse
  <2>3. CASE f \notin {"streamSecurity", "id", "security", "allowInsecure"} \cup standing
    BY <1>3, <2>3
  <2> QED BY <2>2, <2>3
<1>6. /\ AsItStands(i.congestionControl) = i.congestionControl
      /\ AsItStands(i.udpRelayMode) = i.udpRelayMode
      /\ AsItStands(i.zeroRttHandshake) = i.zeroRttHandshake
  BY DEF Fits, Words
<1> HIDE DEF s, t
<1>7. Credentials(s) # Credentials(t) => "credentials" \in Lost(s)
  <2>1. Credentials(s) = <<i.id, i.security>> /\ Credentials(t) = <<j.id, j.security>>
    BY <1>1 DEF Credentials
  <2>2. {"id", "security"} \subseteq UserInfoOf(s.type)
    BY <1>1 DEF UserInfoOf
  <2> QED BY <1>1, <1>4, <2>1, <2>2, UserInfoByLink
<1>8. Options(s) # Options(t) <=> "options" \in Lost(s)
  <2>1. "options" \in Lost(s) <=> i.congestionControl = "" \/ i.udpRelayMode = ""
    BY <1>1, LostInLink
  <2>2. /\ Options(s) = <<i.congestionControl, i.udpRelayMode, i.zeroRttHandshake>>
        /\ Options(t) = <<j.congestionControl, j.udpRelayMode, j.zeroRttHandshake>>
    BY <1>1 DEF Options
  <2>3. /\ j.congestionControl = OrElse(i.congestionControl, "cubic")
        /\ j.udpRelayMode = OrElse(i.udpRelayMode, "native")
        /\ j.zeroRttHandshake = i.zeroRttHandshake
    BY <1>4, <1>6
  <2>4. /\ j.congestionControl # i.congestionControl <=> i.congestionControl = ""
        /\ j.udpRelayMode # i.udpRelayMode <=> i.udpRelayMode = ""
    BY <2>3 DEF OrElse
  <2>5. Options(s) = Options(t) <=> /\ j.congestionControl = i.congestionControl
                                    /\ j.udpRelayMode = i.udpRelayMode
    BY <2>2, <2>3
  <2> QED BY <2>1, <2>4, <2>5
<1> QED
  <2>1. type \in AlwaysTls /\ type # "anytls" /\ Accepted(type) = {"true"}
    BY DEF AlwaysTls, Accepted
  <2> QED BY <1>4, <1>5, <1>7, <1>8, <2>1, AlwaysTlsByLink DEF s, t

\* buildAnytls and parseAnytls.
LEMMA AnytlsByLink ==
    ASSUME Settled, way = "link",
           NEW i, DOMAIN i = ItemFields, Fits("anytls", i), NEW j, j = parseAnytls(buildAnytls(i))
    PROVE  PartByPart(Item("anytls", i), Item("anytls", j)) /\ Fits("anytls", j)
<1> DEFINE type == "anytls"  s == Item(type, i)  t == Item(type, j)
           b == buildAnytls(i)
           standing == {"sni", "fingerprint", "idleSession"}
<1>1. /\ s.type = type /\ s.fields = i
      /\ t.type = type /\ t.fields = j
  BY DEF Item
<1>2. /\ DOMAIN b = ItemFields
      /\ b.allowInsecure = Insecure(i, {"true", "1"})
      /\ \A f \in {"id", "alpn"} \cup standing : b[f] = i[f]
      /\ \A f \in ItemFields \ ({"id", "alpn", "allowInsecure"} \cup standing) : b[f] = ""
  BY DEF buildAnytls, Written, ItemFields
<1>3. /\ DOMAIN j = ItemFields
      /\ j.streamSecurity = "tls" /\ j.id = UserInfo(b.id) /\ j.alpn = b.alpn
      /\ \A f \in {"allowInsecure"} \cup standing : j[f] = AsItStands(b[f])
      /\ \A f \in ItemFields \ ({"streamSecurity", "id", "alpn", "allowInsecure"} \cup standing) :
              j[f] = ""
  <2> HIDE DEF b
  <2> QED BY DEF parseAnytls, Tls, Read, ItemFields, b
<1> HIDE DEF b
<1>4. /\ j.streamSecurity = "tls" /\ j.id = UserInfo(i.id) /\ j.alpn = i.alpn
      /\ j.sni = AsItStands(i.sni) /\ j.fingerprint = AsItStands(i.fingerprint)
      /\ j.idleSession = AsItStands(i.idleSession)
      /\ j.allowInsecure = AsItStands(Insecure(i, {"true", "1"}))
      /\ j.requestHost = "" /\ j.cert = "" /\ j.certSha = "" /\ j.muxEnabled = ""
  <2>1. /\ b.id = i.id /\ b.alpn = i.alpn
        /\ b.sni = i.sni /\ b.fingerprint = i.fingerprint /\ b.idleSession = i.idleSession
    BY <1>2
  <2>2. /\ j.sni = AsItStands(b.sni) /\ j.fingerprint = AsItStands(b.fingerprint)
        /\ j.idleSession = AsItStands(b.idleSession)
        /\ j.allowInsecure = AsItStands(b.allowInsecure)
    BY <1>3
  <2>3. j.requestHost = "" /\ j.cert = "" /\ j.certSha = "" /\ j.muxEnabled = ""
    BY <1>3 DEF ItemFields
  <2> QED BY <1>2, <1>3, <2>1, <2>2, <2>3
<1>5. Passes(type, i, j)
  <2> SUFFICES ASSUME NEW f \in ItemFields
               PROVE  \/ j[f] \in {"", i[f]}
                      \/ f \in {"id"} /\ j[f] = UserInfo(i[f])
                      \/ f \notin {"id"} /\ j[f] = AsItStands(i[f])
                      \/ f \in FieldsOf(type) /\ j[f] \in Given
                      \/ f = "streamSecurity" /\ j[f] = "tls"
    BY DEF Passes, UserInfoOf
  <2>1. AsItStands(Insecure(i, {"true", "1"})) \in {"", "1"} /\ "allowInsecure" \in FieldsOf(type)
    BY DEF AsItStands, Marked, Insecure, FieldsOf, TlsFields
  <2>2. CASE f \in {"streamSecurity", "id", "alpn", "allowInsecure"} \cup standing
    BY <1>4, <2>1, <2>2 DEF Given
  <2>3. CASE f \notin {"streamSecurity", "id", "alpn", "allowInsecure"} \cup standing
    BY <1>3, <2>3
  <2> QED BY <2>2, <2>3
<1>6. AsItStands(i.idleSession) = i.idleSession
  BY DEF Fits, Words
<1> HIDE DEF s, t
<1>7. Credentials(s) # Credentials(t) => "credentials" \in Lost(s)
  <2>1. Credentials(s) = <<i.id>> /\ Credentials(t) = <<j.id>>
    BY <1>1 DEF Credentials
  <2>2. "id" \in UserInfoOf(s.type)
    BY <1>1 DEF UserInfoOf
  <2> QED BY <1>1, <1>4, <2>1, <2>2, UserInfoByLink
<1>8. Options(s) = Options(t)
  BY <1>1, <1>4, <1>6 DEF Options
<1> QED
  <2>1. type \in AlwaysTls /\ Accepted(type) = {"true", "1"}
    BY DEF AlwaysTls, Accepted
  <2> QED BY <1>4, <1>5, <1>7, <1>8, <2>1, AlwaysTlsByLink DEF s, t

\* Without a user name the password is taken for one, and is itself missing.
LEMMA NaiveByLink ==
    ASSUME Settled, way = "link",
           NEW i, DOMAIN i = ItemFields, Fits("naive", i), NEW j, j = parseNaive(buildNaive(i))
    PROVE  /\ j.id = "" <=> i.username = "" \/ i.id = ""
           /\ i.username # "" => PartByPart(Item("naive", i), Item("naive", j)) /\ Fits("naive", j)
<1> DEFINE type == "naive"  s == Item(type, i)  t == Item(type, j)
           b == buildNaive(i)
           standing == {"sni", "alpn", "congestionControl", "insecureConcurrency"}
<1>1. /\ s.type = type /\ s.fields = i
      /\ t.type = type /\ t.fields = j
  BY DEF Item
<1>2. /\ DOMAIN b = ItemFields
      /\ b.allowInsecure = Insecure(i, {"true", "1"})
      /\ b.id = IF i.username = "" THEN "" ELSE i.id
      /\ b.username = OrElse(i.username, i.id)
      /\ \A f \in {"naiveQuic"} \cup standing : b[f] = i[f]
      /\ \A f \in ItemFields \ ({"id", "username", "naiveQuic", "allowInsecure"} \cup standing) :
              b[f] = ""
  BY ZenonT(40) DEF buildNaive, Written, ItemFields
<1>3. /\ DOMAIN j = ItemFields
      /\ j.streamSecurity = "tls" /\ j.id = UserInfo(b.id)
      /\ j.username = UserInfo(b.username) /\ j.naiveQuic = b.naiveQuic
      /\ \A f \in {"allowInsecure"} \cup standing : j[f] = AsItStands(b[f])
      /\ \A f \in ItemFields \ ({"streamSecurity", "id", "username", "naiveQuic", "allowInsecure"}
                                \cup standing) : j[f] = ""
  <2> HIDE DEF b
  <2> QED BY DEF parseNaive, Tls, Read, ItemFields, b
<1>01. j.id = "" <=> i.username = "" \/ i.id = ""
  <2> HIDE DEF b
  <2> QED BY <1>2, <1>3 DEF UserInfo
<1> SUFFICES ASSUME i.username # "" PROVE PartByPart(s, t) /\ Fits(type, j)
  BY <1>01
<1> HIDE DEF b
<1>4. /\ j.streamSecurity = "tls" /\ j.id = UserInfo(i.id)
      /\ j.username = UserInfo(i.username)
      /\ j.naiveQuic = i.naiveQuic
      /\ j.sni = AsItStands(i.sni) /\ j.alpn = AsItStands(i.alpn)
      /\ j.congestionControl = AsItStands(i.congestionControl)
      /\ j.insecureConcurrency = AsItStands(i.insecureConcurrency)
      /\ j.allowInsecure = AsItStands(Insecure(i, {"true", "1"}))
      /\ j.requestHost = "" /\ j.cert = "" /\ j.certSha = "" /\ j.muxEnabled = "" /\ j.fingerprint = ""
  <2>1. /\ b.id = i.id /\ b.username = i.username /\ b.naiveQuic = i.naiveQuic
        /\ b.sni = i.sni /\ b.alpn = i.alpn
        /\ b.congestionControl = i.congestionControl
        /\ b.insecureConcurrency = i.insecureConcurrency
    BY <1>2 DEF OrElse
  <2>2. /\ j.sni = AsItStands(b.sni) /\ j.alpn = AsItStands(b.alpn)
        /\ j.congestionControl = AsItStands(b.congestionControl)
        /\ j.insecureConcurrency = AsItStands(b.insecureConcurrency)
        /\ j.allowInsecure = AsItStands(b.allowInsecure)
    BY <1>3
  <2>3. j.requestHost = "" /\ j.cert = "" /\ j.certSha = "" /\ j.muxEnabled = "" /\ j.fingerprint = ""
    BY <1>3 DEF ItemFields
  <2> QED BY <1>2, <1>3, <2>1, <2>2, <2>3
<1>5. Passes(type, i, j)
  <2> SUFFICES ASSUME NEW f \in ItemFields
               PROVE  \/ j[f] \in {"", i[f]}
                      \/ f \in {"id", "username"} /\ j[f] = UserInfo(i[f])
                      \/ f \notin {"id", "username"} /\ j[f] = AsItStands(i[f])
                      \/ f \in FieldsOf(type) /\ j[f] \in Given
                      \/ f = "streamSecurity" /\ j[f] = "tls"
    BY DEF Passes, UserInfoOf
  <2>1. AsItStands(Insecure(i, {"true", "1"})) \in {"", "1"} /\ "allowInsecure" \in FieldsOf(type)
    BY DEF AsItStands, Marked, Insecure, FieldsOf, TlsFields
  <2>2. CASE f \in {"streamSecurity", "id", "username", "naiveQuic", "allowInsecure"} \cup standing
    BY <1>4, <2>1, <2>2 DEF Given
  <2>3. CASE f \notin {"streamSecurity", "id", "username", "naiveQuic", "allowInsecure"} \cup standing
    BY <1>3, <2>3
  <2> QED BY <2>2, <2>3
<1>6. /\ AsItStands(i.congestionControl) = i.congestionControl
      /\ AsItStands(i.insecureConcurrency) = i.insecureConcurrency
  BY DEF Fits, Words
<1>t. type \in AlwaysTls /\ type # "anytls" /\ Accepted(type) = {"true", "1"}
  BY DEF AlwaysTls, Accepted
<1>7. Credentials(s) # Credentials(t) => "credentials" \in Lost(s)
  <2> HIDE DEF s, t
  <2>1. Credentials(s) = <<i.id, i.username>> /\ Credentials(t) = <<j.id, j.username>>
    BY <1>1 DEF Credentials
  <2>2. {"id", "username"} \subseteq UserInfoOf(s.type)
    BY <1>1 DEF UserInfoOf
  <2> QED BY <1>1, <1>4, <2>1, <2>2, UserInfoByLink
<1>8. Options(s) = Options(t)
  <2> HIDE DEF s, t
  <2> QED BY <1>1, <1>4, <1>6 DEF Options
<1> QED BY <1>4, <1>5, <1>7, <1>8, <1>t, AlwaysTlsByLink

\* Protocols whose link has no word for TLS.
LEMMA PlainByLink ==
    ASSUME Settled, way = "link", NEW type \in {"shadowsocks", "socks", "wireguard"},
           NEW i, DOMAIN i = ItemFields, Fits(type, i), NEW j, Passes(type, i, j),
           j.streamSecurity = "", j.muxEnabled = "",
           Credentials(Item(type, i)) # Credentials(Item(type, j)) =>
               "credentials" \in Lost(Item(type, i)),
           Options(Item(type, i)) # Options(Item(type, j)) => "options" \in Lost(Item(type, i))
    PROVE  PartByPart(Item(type, i), Item(type, j)) /\ Fits(type, j)
<1> DEFINE s == Item(type, i)  t == Item(type, j)
<1>1. /\ s.type = type /\ s.fields = i
      /\ t.type = type /\ t.fields = j
  BY DEF Item
<1>2. Fits(type, j)
  <2>1. "" \in Securities(type) /\ type \notin OverStandardTransport
    BY DEF Securities, OverStandardTransport
  <2> QED BY <2>1, StillFits
<1>3. ~(Multiplexed(s) <=> Multiplexed(t)) <=> "multiplex" \in Lost(s)
  BY MultiplexPart
<1>4. i.streamSecurity \in (IF type = "socks" THEN {"", "tls"} ELSE {""})
  BY DEF Fits, Securities, OverStandardTransport
<1> HIDE DEF s, t
<1>5. TlsByPart(s, t)
  <2>1. "tls" \in Lost(s) <=> type = "socks" /\ i.streamSecurity = "tls"
    BY ZenonT(40), <1>1, LostInLink
  <2>2. ~Secured(t) /\ (Secured(s) <=> type = "socks" /\ i.streamSecurity = "tls")
    BY <1>1, <1>4 DEF Secured
  <2> QED BY <2>1, <2>2 DEF TlsByPart
<1>6. Transport(s) = Transport(t)
  BY <1>1 DEF Transport, OverStandardTransport
<1>7. /\ Credentials(s) # Credentials(t) => "credentials" \in Lost(s)
      /\ Options(s) # Options(t) => "options" \in Lost(s)
  BY DEF s, t
<1>8. PartByPart(s, t)
  BY <1>1, <1>3, <1>5, <1>6, <1>7 DEF PartByPart
<1> QED BY <1>2, <1>8 DEF s, t

\* Shadowsocks: two secrets and nothing else, and none at all if a slash is in the way.
LEMMA ShadowsocksByLink ==
    ASSUME Settled, way = "link",
           NEW i, DOMAIN i = ItemFields, Fits("shadowsocks", i), NEW j,
           j = parseShadowsocks(buildShadowsocks(i))
    PROVE  /\ j.id = "" <=> i.id = "" \/ i.id = "slashed"
           /\ i.id # "slashed" => PartByPart(Item("shadowsocks", i), Item("shadowsocks", j))
                                  /\ Fits("shadowsocks", j)
<1> DEFINE type == "shadowsocks"  s == Item(type, i)  t == Item(type, j)
<1>1. /\ s.type = type /\ s.fields = i
      /\ t.type = type /\ t.fields = j
  BY DEF Item
<1>2. buildShadowsocks(i).id = i.id /\ buildShadowsocks(i).security = i.security
  BY DEF buildShadowsocks, Written, ItemFields
<1>3. CASE i.id = "slashed"
  BY <1>2, <1>3 DEF parseShadowsocks, Empty, ItemFields
<1>4. CASE i.id # "slashed"
  <2>1. /\ j.id = i.id /\ j.security = i.security
        /\ \A f \in ItemFields \ {"id", "security"} : j[f] = ""
    BY <1>2, <1>4 DEF parseShadowsocks, Read, ItemFields
  <2>2. j.streamSecurity = "" /\ j.muxEnabled = ""
    BY <2>1 DEF ItemFields
  <2>3. Passes(type, i, j)
    BY <2>1 DEF Passes
  <2>4. Credentials(s) = Credentials(t) /\ Options(s) = Options(t)
    <3> HIDE DEF s, t
    <3> QED BY <1>1, <2>1 DEF Credentials, Options
  <2>5. PartByPart(s, t) /\ Fits(type, j)
    BY <2>2, <2>3, <2>4, PlainByLink
  <2> QED BY <1>4, <2>1, <2>5
<1> QED BY <1>3, <1>4

\* SOCKS: the same, but for a colon between the letters of the user name.
LEMMA SocksByLink ==
    ASSUME Settled, way = "link",
           NEW i, DOMAIN i = ItemFields, Fits("socks", i), NEW j, j = parseSocks(buildSocks(i))
    PROVE  PartByPart(Item("socks", i), Item("socks", j)) /\ Fits("socks", j)
<1> DEFINE type == "socks"  s == Item(type, i)  t == Item(type, j)
           b == buildSocks(i)  r == Read(b, {"id", "security"}, {})
<1>1. /\ s.type = type /\ s.fields = i
      /\ t.type = type /\ t.fields = j
  BY DEF Item
<1>2. /\ DOMAIN r = ItemFields /\ b.id = i.id
      /\ r.id = i.id /\ r.security = i.security
      /\ \A f \in ItemFields \ {"id", "security"} : r[f] = ""
  BY DEF buildSocks, Read, Written, ItemFields
<1>3. j = [r EXCEPT !.id = IF @ = "colon" THEN "head" ELSE @,
                    !.security = IF b.id = "colon" THEN "colon" ELSE @]
  BY DEF parseSocks
<1> HIDE DEF r, b
<1>4. /\ j.id = IF i.id = "colon" THEN "head" ELSE i.id
      /\ j.security = IF i.id = "colon" THEN "colon" ELSE i.security
      /\ \A f \in ItemFields \ {"id", "security"} : j[f] = ""
  BY <1>2, <1>3 DEF ItemFields
<1>5. j.streamSecurity = "" /\ j.muxEnabled = ""
  BY <1>4 DEF ItemFields
<1>6. Passes(type, i, j)
  <2> SUFFICES ASSUME NEW f \in ItemFields
               PROVE  \/ j[f] \in {"", i[f]}
                      \/ f \in {"id", "security"} /\ j[f] \in {"head", "colon"}
    BY DEF Passes
  <2> QED BY <1>4
<1> HIDE DEF s, t
<1>7. Credentials(s) # Credentials(t) => "credentials" \in Lost(s)
  <2>1. i.id = "colon" => "credentials" \in Lost(s)
    BY <1>1, LostInLink
  <2>2. i.id # "colon" => Credentials(s) = Credentials(t)
    BY <1>1, <1>4 DEF Credentials
  <2> QED BY <2>1, <2>2
<1>8. Options(s) = Options(t)
  BY <1>1 DEF Options
<1> QED BY <1>5, <1>6, <1>7, <1>8, PlainByLink DEF s, t

\* buildWireguard and parseWireguard: key and addresses are read without decoding.
LEMMA WireguardByLink ==
    ASSUME Settled, way = "link",
           NEW i, DOMAIN i = ItemFields, Fits("wireguard", i),
           NEW j, j = parseWireguard(buildWireguard(i))
    PROVE  PartByPart(Item("wireguard", i), Item("wireguard", j)) /\ Fits("wireguard", j)
<1> DEFINE type == "wireguard"  s == Item(type, i)  t == Item(type, j)
           standing == {"peerPublicKey", "localAddress", "reserved", "wireguardMtu"}
<1>1. /\ s.type = type /\ s.fields = i
      /\ t.type = type /\ t.fields = j
  BY DEF Item
<1>2. /\ j.id = UserInfo(i.id)
      /\ j.peerPublicKey = AsItStands(i.peerPublicKey) /\ j.localAddress = AsItStands(i.localAddress)
      /\ j.reserved = AsItStands(i.reserved) /\ j.wireguardMtu = AsItStands(i.wireguardMtu)
      /\ \A f \in ItemFields \ ({"id"} \cup standing) : j[f] = ""
  BY DEF parseWireguard, buildWireguard, Read, Written, ItemFields
<1>3. j.streamSecurity = "" /\ j.muxEnabled = ""
  BY <1>2 DEF ItemFields
<1>4. Passes(type, i, j)
  <2> SUFFICES ASSUME NEW f \in ItemFields
               PROVE  \/ j[f] = ""
                      \/ f = "id" /\ j[f] = UserInfo(i[f])
                      \/ f # "id" /\ j[f] = AsItStands(i[f])
    BY DEF Passes, UserInfoOf
  <2> QED BY <1>2
<1>5. AsItStands(i.wireguardMtu) = i.wireguardMtu
  BY DEF Fits, Words
<1>6. Credentials(s) # Credentials(t) => "credentials" \in Lost(s)
  <2> HIDE DEF s, t
  <2>1. Credentials(s) = <<i.id>> /\ Credentials(t) = <<j.id>>
    BY <1>1 DEF Credentials
  <2>2. "id" \in UserInfoOf(s.type)
    BY <1>1 DEF UserInfoOf
  <2> QED BY <1>1, <1>2, <2>1, <2>2, UserInfoByLink
<1>7. Options(s) # Options(t) => "options" \in Lost(s)
  <2> HIDE DEF s, t
  <2> DEFINE Signs == Marked \cup {"spoilt", "worse"}
             Shown(v) == IF v = "marked" THEN v ELSE ""
  <2>1. "options" \in Lost(s) <=>
            i.peerPublicKey \in Signs \/ i.localAddress \in Signs \/ i.reserved = "marked"
    BY <1>1, LostInLink
  <2>2. /\ Options(s) = <<i.peerPublicKey, Shown(i.reserved), i.localAddress, i.wireguardMtu>>
        /\ Options(t) = <<j.peerPublicKey, Shown(j.reserved), j.localAddress, j.wireguardMtu>>
    BY <1>1 DEF Options
  <2>3. Shown(i.reserved) # Shown(j.reserved) <=> i.reserved = "marked"
    BY <1>2 DEF AsItStands, Marked
  <2>4. /\ j.peerPublicKey # i.peerPublicKey => i.peerPublicKey \in Signs
        /\ j.localAddress # i.localAddress => i.localAddress \in Signs
        /\ j.wireguardMtu = i.wireguardMtu
    BY <1>2, <1>5, Spoiling
  <2> HIDE DEF Signs, Shown
  <2>5. Options(s) = Options(t) <=> /\ j.peerPublicKey = i.peerPublicKey
                                    /\ Shown(i.reserved) = Shown(j.reserved)
                                    /\ j.localAddress = i.localAddress
    BY <2>2, <2>4
  <2> QED BY <2>1, <2>3, <2>4, <2>5
<1> QED BY <1>3, <1>4, <1>6, <1>7, PlainByLink

\* What an entry loses, loss by loss.
IsLostInEntry(s, i) ==
    LET standard == s.type \in OverStandardTransport IN
    /\ "credentials" \in Lost(s) <=> i.id \in {"007", "null"} \/ i.security \in {"007", "null"}
    /\ "options" \in Lost(s) <=>
         \/ s.type = "vless" /\ i.packetEncoding # ""
         \/ s.type = "http" /\ (i.path # "" \/ i.requestHost # "")
         \/ s.type = "hysteria2" /\ (i.mbps # "" \/ i.obfsPassword \in {"007", "null"})
         \/ s.type = "tuic" /\ (i.congestionControl # "" \/ i.udpRelayMode # ""
                                \/ i.zeroRttHandshake # "")
         \/ s.type = "wireguard" /\ i.localAddress = "three"
    /\ "transport" \in Lost(s) <=>
         /\ standard
         /\ \/ i.network = "httpupgrade" /\ (i.path # "" \/ i.requestHost # "")
            \/ i.network = "tcp" /\ i.headerType = "http"
    /\ "tls" \in Lost(s) <=>
         \/ i.streamSecurity = "xtls" /\ s.type # "trojan"
         \/ i.streamSecurity \in {"", "none"} /\ s.type = "trojan"
    /\ "name" \in Lost(s) <=>
         /\ i.sni = "" /\ i.requestHost # "" /\ i.requestHost # "address"
         /\ s.type = "http" \/ (standard /\ i.network \notin {"ws", "h2"})
    /\ "alpn" \in Lost(s) <=> s.type = "hysteria2" /\ i.alpn # ""
    /\ "utls" \in Lost(s) <=> Reality(i) /\ i.fingerprint = "" /\ defaults.fingerprint = ""
    /\ "reality" \in Lost(s) <=> Reality(i)

\* The list of losses says so.
LEMMA LostInEntry ==
    ASSUME Settled, way = "clash", NEW s, NEW i, s.fields = i
    PROVE  IsLostInEntry(s, i)
<1>1. "credentials" \in Lost(s) <=> i.id \in {"007", "null"} \/ i.security \in {"007", "null"}
  <2>1. "credentials" \in Lost(s) <=> {"007", "null"} \cap {i.id, i.security} # {}
    BY DEF Lost, LostByEntry
  <2> QED BY <2>1
<1>2. "options" \in Lost(s) <=>
        \/ s.type = "vless" /\ i.packetEncoding # ""
        \/ s.type = "http" /\ (i.path # "" \/ i.requestHost # "")
        \/ s.type = "hysteria2" /\ (i.mbps # "" \/ i.obfsPassword \in {"007", "null"})
        \/ s.type = "tuic" /\ (i.congestionControl # "" \/ i.udpRelayMode # ""
                               \/ i.zeroRttHandshake # "")
        \/ s.type = "wireguard" /\ i.localAddress = "three"
  <2>1. LostByEntry(s).options <=>
          \/ s.type = "vless" /\ i.packetEncoding # ""
          \/ s.type = "http" /\ (i.path # "" \/ i.requestHost # "")
          \/ s.type = "hysteria2" /\ (i.mbps # "" \/ i.obfsPassword \in {"007", "null"})
          \/ s.type = "tuic" /\ {i.congestionControl, i.udpRelayMode, i.zeroRttHandshake} # {""}
          \/ s.type = "wireguard" /\ i.localAddress = "three"
    BY DEF LostByEntry
  <2>2. "options" \in Lost(s) <=> LostByEntry(s).options
    BY DEF Lost, LostByEntry
  <2>3. {i.congestionControl, i.udpRelayMode, i.zeroRttHandshake} # {""} <=>
          i.congestionControl # "" \/ i.udpRelayMode # "" \/ i.zeroRttHandshake # ""
    OBVIOUS
  <2> QED BY <2>1, <2>2, <2>3
<1>3. "transport" \in Lost(s) <=>
        /\ s.type \in OverStandardTransport
        /\ \/ i.network = "httpupgrade" /\ (i.path # "" \/ i.requestHost # "")
           \/ i.network = "tcp" /\ i.headerType = "http"
  BY DEF Lost, LostByEntry
<1>4. "tls" \in Lost(s) <=>
        \/ i.streamSecurity = "xtls" /\ s.type # "trojan"
        \/ i.streamSecurity \in {"", "none"} /\ s.type = "trojan"
  BY DEF Lost, LostByEntry
<1>5. "name" \in Lost(s) <=>
        /\ i.sni = "" /\ i.requestHost # "" /\ i.requestHost # "address"
        /\ s.type = "http" \/ (s.type \in OverStandardTransport /\ i.network \notin {"ws", "h2"})
  BY DEF Lost, LostByEntry
<1>6. /\ "alpn" \in Lost(s) <=> s.type = "hysteria2" /\ i.alpn # ""
      /\ "utls" \in Lost(s) <=> Reality(i) /\ i.fingerprint = "" /\ defaults.fingerprint = ""
      /\ "reality" \in Lost(s) <=> Reality(i)
  BY DEF Lost, LostByEntry
<1> QED BY <1>1, <1>2, <1>3, <1>4, <1>5, <1>6 DEF IsLostInEntry

\* What buildProxyEntry leaves of every field.
LEMMA EntryOf ==
    ASSUME NEW type \in Entries, NEW i, DOMAIN i = ItemFields
    PROVE  LET names == EntryFields(Item(type, i))
               e == buildProxyEntry(Item(type, i)) IN
           /\ DOMAIN e = ItemFields
           /\ \A f \in ItemFields \ {"security", "streamSecurity", "allowInsecure", "localAddress"} :
                 e[f] = IF f \in names THEN i[f] ELSE ""
           /\ e.security = LET v == IF "security" \in names THEN i.security ELSE ""
                           IN  IF type = "vmess" THEN OrElse(v, "auto") ELSE v
           /\ e.streamSecurity =
                 IF \/ type \in {"vmess", "vless"} /\ i.streamSecurity \in {"tls", "reality"}
                    \/ type \in {"socks", "http"} /\ i.streamSecurity = "tls"
                 THEN "tls" ELSE ""
           /\ e.allowInsecure = IF "allowInsecure" \in names /\ i.allowInsecure \in {"true", "1"}
                                THEN "true" ELSE ""
           /\ e.localAddress = LET v == IF "localAddress" \in names THEN i.localAddress ELSE ""
                               IN  IF v = "three" THEN "marked" ELSE v
<1> DEFINE s == Item(type, i)  names == EntryFields(s)  w == Written(i, names)  e == buildProxyEntry(s)
<1>1. s.type = type /\ s.fields = i
  BY DEF Item
<1> HIDE DEF s, names
<1>2. DOMAIN w = ItemFields /\ \A f \in ItemFields : w[f] = IF f \in names THEN i[f] ELSE ""
  BY DEF Written
<1> HIDE DEF w
<1>3. e = [w EXCEPT
             !.security = IF type = "vmess" THEN OrElse(@, "auto") ELSE @,
             !.streamSecurity =
                 IF \/ type \in {"vmess", "vless"} /\ i.streamSecurity \in {"tls", "reality"}
                    \/ type \in {"socks", "http"} /\ i.streamSecurity = "tls"
                 THEN "tls" ELSE "",
             !.allowInsecure = IF @ \in {"true", "1"} THEN "true" ELSE "",
             !.localAddress = IF @ = "three" THEN "marked" ELSE @]
  BY <1>1 DEF buildProxyEntry, w, names
<1> HIDE DEF e
<1>4. /\ DOMAIN e = ItemFields
      /\ \A f \in ItemFields \ {"security", "streamSecurity", "allowInsecure", "localAddress"} :
              e[f] = w[f]
      /\ e.security = IF type = "vmess" THEN OrElse(w.security, "auto") ELSE w.security
      /\ e.streamSecurity =
            IF \/ type \in {"vmess", "vless"} /\ i.streamSecurity \in {"tls", "reality"}
               \/ type \in {"socks", "http"} /\ i.streamSecurity = "tls"
            THEN "tls" ELSE ""
      /\ e.allowInsecure = IF w.allowInsecure \in {"true", "1"} THEN "true" ELSE ""
      /\ e.localAddress = IF w.localAddress = "three" THEN "marked" ELSE w.localAddress
  BY <1>2, <1>3 DEF ItemFields
<1>5. {"security", "allowInsecure", "localAddress"} \subseteq ItemFields
  BY DEF ItemFields
<1> QED BY <1>2, <1>4, <1>5 DEF names, s, e

\* What parseProxyArray makes of every field.
IsReading(r, type, e) ==
    LET keys == {"network"} \cup applyProtocolOptions(type) \cup applyTransportOptions(e)
        j == r.fields IN
    /\ r = Item(type, j) /\ DOMAIN j = ItemFields
    /\ \A f \in ItemFields \ {"network", "headerType", "security", "streamSecurity"} :
          j[f] = IF f \in keys THEN YamlScalar(e[f]) ELSE ""
    /\ j.network = OrElse(YamlScalar(e.network), "tcp")
    /\ j.headerType = "none"
    /\ j.security = LET v == IF "security" \in keys THEN YamlScalar(e.security) ELSE ""
                    IN  IF type = "vless" THEN "none"
                        ELSE IF type = "vmess" THEN OrElse(v, "auto") ELSE v
    /\ j.streamSecurity = IF type \in {"trojan", "hysteria2", "tuic", "anytls"} THEN "tls"
                          ELSE IF "streamSecurity" \in keys THEN YamlScalar(e.streamSecurity) ELSE ""

\* It does so with the entry of any protocol.
LEMMA ReadingOf ==
    ASSUME NEW type \in Entries, NEW e, DOMAIN e = ItemFields
    PROVE  IsReading(parseProxyArray(type, e), type, e)
<1> DEFINE keys == {"network"} \cup applyProtocolOptions(type) \cup applyTransportOptions(e)
           y == [f \in ItemFields |-> YamlScalar(e[f])]
           w == Written(y, keys)
           r == parseProxyArray(type, e)  j == r.fields
<1>1. /\ DOMAIN w = ItemFields
      /\ \A f \in ItemFields : w[f] = IF f \in keys THEN YamlScalar(e[f]) ELSE ""
  <2> HIDE DEF keys
  <2> QED BY DEF Written
<1>2. j = [w EXCEPT
             !.network = OrElse(@, "tcp"),
             !.headerType = "none",
             !.security = CASE type = "vless" -> "none" [] type = "vmess" -> OrElse(@, "auto")
                            [] OTHER -> @,
             !.streamSecurity = IF type \in {"trojan", "hysteria2", "tuic", "anytls"}
                                THEN "tls" ELSE @]
      /\ r = Item(type, j)
  <2> HIDE DEF w, keys
  <2> QED BY DEF parseProxyArray, Item, w, keys
<1> HIDE DEF w, keys, j, r
<1>3. /\ DOMAIN j = ItemFields
      /\ \A f \in ItemFields \ {"network", "headerType", "security", "streamSecurity"} : j[f] = w[f]
      /\ j.network = OrElse(w.network, "tcp")
      /\ j.headerType = "none"
      /\ j.security = IF type = "vless" THEN "none"
                      ELSE IF type = "vmess" THEN OrElse(w.security, "auto") ELSE w.security
      /\ j.streamSecurity = IF type \in {"trojan", "hysteria2", "tuic", "anytls"} THEN "tls"
                            ELSE w.streamSecurity
  BY <1>1, <1>2 DEF ItemFields
<1>4. "network" \in keys
  BY DEF keys
<1>5. {"network", "security", "streamSecurity"} \subseteq ItemFields
  BY DEF ItemFields
<1> QED BY <1>1, <1>2, <1>3, <1>4, <1>5 DEF IsReading, keys, j, r

\* What an entry carries, and what is found in it again.
Carried(type, i) ==
    EntryFields(Item(type, i)) \cap (applyProtocolOptions(type) \cup applyTransportOptions(i))
\* The fields that are more than copied.
Rewritten == {"network", "headerType", "security", "streamSecurity", "allowInsecure", "localAddress"}

\* A server that went through an entry, field by field.
IsEntered(type, i, j) ==
    LET standard == type \in OverStandardTransport IN
    /\ DOMAIN j = ItemFields
    /\ \A f \in ItemFields \ Rewritten : j[f] = IF f \in Carried(type, i) THEN YamlScalar(i[f]) ELSE ""
    /\ j.network = IF standard THEN i.network ELSE "tcp"
    /\ j.headerType = "none"
    /\ j.security = IF type = "vless" THEN "none"
                    ELSE IF type = "vmess" THEN OrElse(i.security, "auto")
                    ELSE IF type \in {"shadowsocks", "socks", "http", "tuic"} THEN YamlScalar(i.security)
                    ELSE ""
    /\ j.streamSecurity =
          IF \/ type \in {"trojan", "hysteria2", "tuic", "anytls"}
             \/ type \in {"vmess", "vless"} /\ i.streamSecurity \in {"tls", "reality"}
             \/ type \in {"socks", "http"} /\ i.streamSecurity = "tls"
          THEN "tls" ELSE ""
    /\ j.allowInsecure = IF "allowInsecure" \in Carried(type, i) /\ i.allowInsecure \in {"true", "1"}
                         THEN "true" ELSE ""
    /\ j.localAddress = IF type # "wireguard" THEN ""
                        ELSE IF i.localAddress = "three" THEN "marked" ELSE i.localAddress

\* Which fields have a key on both sides.
LEMMA Carrying ==
    ASSUME NEW type \in Entries, NEW i,
           type \in OverStandardTransport => i.network \in Networks
    PROVE  LET carried == Carried(type, i)
               standard == type \in OverStandardTransport
               secured == standard \/ type \in {"hysteria2", "tuic", "anytls"}
                          \/ (type \in {"socks", "http"} /\ i.streamSecurity = "tls") IN
           /\ "id" \in carried
           /\ "sni" \in carried <=> secured
           /\ "allowInsecure" \in carried <=> secured
           /\ "fingerprint" \in carried <=> standard \/ type = "anytls"
           /\ "alpn" \in carried <=> standard \/ type \in {"tuic", "anytls"}
           /\ "path" \in carried <=> standard /\ i.network \in {"ws", "h2", "grpc"}
           /\ "requestHost" \in carried <=> standard /\ i.network \in {"ws", "h2"}
           /\ "flow" \in carried <=> type = "vless"
           /\ "obfsPassword" \in carried <=> type = "hysteria2"
           /\ "idleSession" \in carried <=> type = "anytls"
           /\ "peerPublicKey" \in carried <=> type = "wireguard"
           /\ "reserved" \in carried <=> type = "wireguard"
           /\ "wireguardMtu" \in carried <=> type = "wireguard"
           /\ carried \cap {"packetEncoding", "cert", "certSha", "muxEnabled", "mbps", "publicKey",
                            "congestionControl", "udpRelayMode", "zeroRttHandshake"} = {}
<1> DEFINE s == Item(type, i)
<1>1. s.type = type /\ s.fields = i
  BY DEF Item
<1> HIDE DEF s
<1>2. type \in OverStandardTransport =>
        /\ appendTransportFields(i) =
              IF i.network \in {"ws", "h2"} THEN {"network", "path", "requestHost"}
              ELSE IF i.network = "grpc" THEN {"network", "path"}
              ELSE IF i.network = "tcp" THEN {} ELSE {"network"}
        /\ applyTransportOptions(i) =
              IF i.network \in {"ws", "h2"} THEN {"path", "requestHost"}
              ELSE IF i.network = "grpc" THEN {"path"} ELSE {}
  BY DEF appendTransportFields, applyTransportOptions
<1>3. CASE type \in OverStandardTransport
  <2>1. /\ appendTlsFields \subseteq Carried(type, i) /\ "id" \in Carried(type, i)
        /\ "flow" \in Carried(type, i) <=> type = "vless"
        /\ Carried(type, i) \subseteq appendTlsFields
                \cup {"id", "security", "flow", "path", "requestHost"}
        /\ "path" \in Carried(type, i) <=> i.network \in {"ws", "h2", "grpc"}
        /\ "requestHost" \in Carried(type, i) <=> i.network \in {"ws", "h2"}
    <3> USE <1>1, <1>2, <1>3 DEF s, Carried, EntryFields, applyProtocolOptions, appendTlsFields,
                                 OverStandardTransport
    <3>1. CASE type = "vmess" BY <3>1
    <3>2. CASE type = "vless" BY <3>2
    <3>3. CASE type = "trojan" BY <3>3
    <3> QED BY <3>1, <3>2, <3>3
  <2> QED BY <1>3, <2>1 DEF appendTlsFields, OverStandardTransport
<1>4. CASE type \notin OverStandardTransport
  <2>1. /\ EntryFields(s) \cap {"path", "requestHost"} = {}
        /\ applyTransportOptions(i) \subseteq {"path", "requestHost"}
    BY <1>1, <1>4 DEF EntryFields, applyTransportOptions, OverStandardTransport, Entries, Linkable,
                      appendTlsFields
  <2>2. Carried(type, i) = EntryFields(s) \cap applyProtocolOptions(type)
    BY <2>1 DEF Carried, s
  <2> USE <1>1, <2>2 DEF EntryFields, applyProtocolOptions, appendTlsFields, OverStandardTransport
  <2>3. CASE type \in {"shadowsocks", "wireguard"}
    BY <2>3
  <2>4. CASE type \in {"socks", "http"}
    BY <2>4
  <2>5. CASE type \in {"hysteria2", "tuic", "anytls"}
    BY <2>5
  <2> QED BY <1>4, <2>3, <2>4, <2>5 DEF Entries, Linkable
<1> QED BY <1>3, <1>4

\* buildProxyEntry and parseProxyArray one after the other.
LEMMA EntryPassed ==
    ASSUME NEW type \in Entries, NEW i, DOMAIN i = ItemFields, Fits(type, i), NEW r,
           r = parseProxyArray(type, buildProxyEntry(Item(type, i)))
    PROVE  r = Item(type, r.fields) /\ IsEntered(type, i, r.fields)
<1> DEFINE s == Item(type, i)  names == EntryFields(s)  e == buildProxyEntry(s)  j == r.fields
           keys == {"network"} \cup applyProtocolOptions(type) \cup applyTransportOptions(e)
           standard == type \in OverStandardTransport
<1>1. s.type = type /\ s.fields = i
  BY DEF Item
<1>2. /\ DOMAIN e = ItemFields
      /\ \A f \in ItemFields \ {"security", "streamSecurity", "allowInsecure", "localAddress"} :
            e[f] = IF f \in names THEN i[f] ELSE ""
      /\ e.security = LET v == IF "security" \in names THEN i.security ELSE ""
                      IN  IF type = "vmess" THEN OrElse(v, "auto") ELSE v
      /\ e.streamSecurity =
            IF \/ type \in {"vmess", "vless"} /\ i.streamSecurity \in {"tls", "reality"}
               \/ type \in {"socks", "http"} /\ i.streamSecurity = "tls"
            THEN "tls" ELSE ""
      /\ e.allowInsecure = IF "allowInsecure" \in names /\ i.allowInsecure \in {"true", "1"}
                           THEN "true" ELSE ""
      /\ e.localAddress = LET v == IF "localAddress" \in names THEN i.localAddress ELSE ""
                          IN  IF v = "three" THEN "marked" ELSE v
  BY EntryOf
<1> HIDE DEF e
<1>3. /\ r = Item(type, j) /\ DOMAIN j = ItemFields
      /\ \A f \in ItemFields \ {"network", "headerType", "security", "streamSecurity"} :
            j[f] = IF f \in keys THEN YamlScalar(e[f]) ELSE ""
      /\ j.network = OrElse(YamlScalar(e.network), "tcp")
      /\ j.headerType = "none"
      /\ j.security = LET v == IF "security" \in keys THEN YamlScalar(e.security) ELSE ""
                      IN  IF type = "vless" THEN "none"
                          ELSE IF type = "vmess" THEN OrElse(v, "auto") ELSE v
      /\ j.streamSecurity = IF type \in {"trojan", "hysteria2", "tuic", "anytls"} THEN "tls"
                            ELSE IF "streamSecurity" \in keys THEN YamlScalar(e.streamSecurity) ELSE ""
  <2>1. r = parseProxyArray(type, e)
    BY DEF e, s
  <2>2. IsReading(r, type, e)
    BY <1>2, <2>1, ReadingOf
  <2> QED BY <2>2 DEF IsReading
<1> HIDE DEF j, keys, names
<1>4. standard => i.network \in Networks
  BY DEF Fits
<1>5. /\ "network" \in names <=> standard /\ i.network # "tcp"
      /\ "security" \in names <=> type \in {"vmess", "shadowsocks", "socks", "http", "tuic"}
      /\ "localAddress" \in names <=> type = "wireguard"
  <2> USE <1>1 DEF names
  <2>1. CASE standard
    BY <1>4, <2>1 DEF EntryFields, appendTransportFields, appendTlsFields, OverStandardTransport
  <2>2. CASE ~standard
    BY <2>2 DEF EntryFields, appendTlsFields, OverStandardTransport, Entries, Linkable
  <2> QED BY <2>1, <2>2
<1>6. e.network = IF standard /\ i.network # "tcp" THEN i.network ELSE ""
  BY <1>2, <1>5 DEF ItemFields
<1>7. /\ standard => applyTransportOptions(e) = applyTransportOptions(i)
      /\ ~standard => applyTransportOptions(e) = {} /\ names \cap {"path", "requestHost"} = {}
  <2>1. ASSUME standard PROVE applyTransportOptions(e) = applyTransportOptions(i)
    BY <1>4, <1>6, <2>1 DEF applyTransportOptions
  <2>2. ASSUME ~standard PROVE applyTransportOptions(e) = {} /\ names \cap {"path", "requestHost"} = {}
    BY <1>1, <1>6, <2>2 DEF applyTransportOptions, names, EntryFields, appendTlsFields,
                            OverStandardTransport, Entries, Linkable
  <2> QED BY <2>1, <2>2
<1>8. \A f \in ItemFields \ Rewritten : f \in names /\ f \in keys <=> f \in Carried(type, i)
  <2>1. applyTransportOptions(i) \subseteq {"path", "requestHost"}
    BY DEF applyTransportOptions
  <2>2. "network" \in Rewritten
    BY DEF Rewritten
  <2> QED BY <1>7, <2>1, <2>2 DEF keys, names, Carried, s
<1>9. /\ "security" \in keys <=> type \in {"vmess", "shadowsocks", "socks", "http", "tuic"}
      /\ "streamSecurity" \in keys <=> type \in {"vmess", "vless", "socks", "http"}
      /\ "localAddress" \in keys <=> type = "wireguard"
      /\ "allowInsecure" \in names /\ "allowInsecure" \in keys <=> "allowInsecure" \in Carried(type, i)
  <2>1. applyTransportOptions(i) \subseteq {"path", "requestHost"}
        /\ applyTransportOptions(e) \subseteq {"path", "requestHost"}
    BY DEF applyTransportOptions
  <2>2. /\ "security" \in applyProtocolOptions(type) <=>
                type \in {"vmess", "shadowsocks", "socks", "http", "tuic"}
        /\ "streamSecurity" \in applyProtocolOptions(type) <=>
                type \in {"vmess", "vless", "socks", "http"}
        /\ "localAddress" \in applyProtocolOptions(type) <=> type = "wireguard"
    BY DEF applyProtocolOptions, Entries, Linkable
  <2>3. /\ "security" \in keys <=> "security" \in applyProtocolOptions(type)
        /\ "streamSecurity" \in keys <=> "streamSecurity" \in applyProtocolOptions(type)
        /\ "localAddress" \in keys <=> "localAddress" \in applyProtocolOptions(type)
    BY <2>1 DEF keys
  <2>4. "allowInsecure" \in names /\ "allowInsecure" \in keys <=> "allowInsecure" \in Carried(type, i)
    BY <2>1 DEF keys, names, Carried, s
  <2> QED BY <2>2, <2>3, <2>4
<1>10. \A f \in ItemFields \ Rewritten : j[f] = IF f \in Carried(type, i) THEN YamlScalar(i[f]) ELSE ""
  <2> SUFFICES ASSUME NEW f \in ItemFields \ Rewritten
               PROVE  j[f] = IF f \in Carried(type, i) THEN YamlScalar(i[f]) ELSE ""
    OBVIOUS
  <2>1. /\ j[f] = IF f \in keys THEN YamlScalar(e[f]) ELSE ""
        /\ e[f] = IF f \in names THEN i[f] ELSE ""
    BY <1>2, <1>3 DEF Rewritten
  <2>2. YamlScalar("") = ""
    BY DEF YamlScalar
  <2> QED BY <1>8, <2>1, <2>2
<1>11. j.network = IF standard THEN i.network ELSE "tcp"
  <2>1. YamlScalar(e.network) = e.network
    BY <1>4, <1>6 DEF YamlScalar, Networks
  <2> QED BY <1>3, <1>4, <1>6, <2>1 DEF OrElse, Networks
<1>12. j.security = IF type = "vless" THEN "none"
                    ELSE IF type = "vmess" THEN OrElse(i.security, "auto")
                    ELSE IF type \in {"shadowsocks", "socks", "http", "tuic"} THEN YamlScalar(i.security)
                    ELSE ""
  <2>1. CASE type = "vmess"
    <3>1. e.security = OrElse(i.security, "auto") /\ j.security = OrElse(YamlScalar(e.security), "auto")
      BY <1>2, <1>3, <1>5, <1>9, <2>1
    <3>2. YamlScalar(i.security) = i.security
      BY <2>1 DEF Fits, Secrets, ItemFields
    <3> QED BY <2>1, <3>1, <3>2 DEF OrElse, YamlScalar
  <2>2. CASE type \in {"shadowsocks", "socks", "http", "tuic"}
    BY <1>2, <1>3, <1>5, <1>9, <2>2
  <2>3. CASE type \notin {"vmess", "shadowsocks", "socks", "http", "tuic"}
    BY <1>3, <1>9, <2>3
  <2> QED BY <2>1, <2>2, <2>3
<1>13. j.streamSecurity =
         IF \/ type \in {"trojan", "hysteria2", "tuic", "anytls"}
            \/ type \in {"vmess", "vless"} /\ i.streamSecurity \in {"tls", "reality"}
            \/ type \in {"socks", "http"} /\ i.streamSecurity = "tls"
         THEN "tls" ELSE ""
  <2>1. YamlScalar("tls") = "tls" /\ YamlScalar("") = ""
    BY DEF YamlScalar
  <2> QED BY <1>2, <1>3, <1>9, <2>1
<1>14. j.allowInsecure = IF "allowInsecure" \in Carried(type, i) /\ i.allowInsecure \in {"true", "1"}
                         THEN "true" ELSE ""
  <2>1. YamlScalar("true") = "true" /\ YamlScalar("") = ""
    BY DEF YamlScalar
  <2>2. j.allowInsecure = IF "allowInsecure" \in keys THEN YamlScalar(e.allowInsecure) ELSE ""
    BY <1>3 DEF ItemFields
  <2> QED BY <1>2, <1>9, <2>1, <2>2
<1>15. j.localAddress = IF type # "wireguard" THEN ""
                        ELSE IF i.localAddress = "three" THEN "marked" ELSE i.localAddress
  <2>1. YamlScalar("marked") = "marked" /\ YamlScalar(i.localAddress) = i.localAddress
    BY DEF YamlScalar, Fits, Secrets, ItemFields
  <2>2. j.localAddress = IF "localAddress" \in keys THEN YamlScalar(e.localAddress) ELSE ""
    BY <1>3 DEF ItemFields
  <2> QED BY <1>2, <1>5, <1>9, <2>1, <2>2
<1>16. IsEntered(type, i, j)
  BY <1>3, <1>10, <1>11, <1>12, <1>13, <1>14, <1>15 DEF IsEntered
<1> QED BY <1>3, <1>16 DEF j

\* What comes out of an entry is a server there can be.
LEMMA EntryFits ==
    ASSUME NEW type \in Entries, NEW i, DOMAIN i = ItemFields, Fits(type, i),
           NEW j, IsEntered(type, i, j)
    PROVE  Fits(type, j)
<1>1. type \in OverStandardTransport => i.network \in Networks
  BY DEF Fits
<1>4. j.streamSecurity \in Securities(type)
  <2>1. CASE type \in OverStandardTransport
    BY <2>1 DEF IsEntered, Securities
  <2>2. CASE type \in {"socks", "http", "shadowsocks", "wireguard"}
    BY <2>2 DEF IsEntered, Securities, OverStandardTransport
  <2>3. CASE type \in {"hysteria2", "tuic", "anytls"}
    BY <2>3 DEF IsEntered, Securities, OverStandardTransport
  <2> QED BY <2>1, <2>2, <2>3 DEF Entries, Linkable, OverStandardTransport
<1>5. type \in OverStandardTransport => j.network \in Networks /\ j.headerType \in {"", "none", "http"}
  BY <1>1 DEF IsEntered
<1>6. Passes(type, i, j)
  <2> SUFFICES ASSUME NEW f \in ItemFields
               PROVE  \/ j[f] \in {"", i[f], YamlScalar(i[f])}
                      \/ f \in FieldsOf(type) /\ j[f] \in Given
                      \/ f = "localAddress" /\ j[f] = "marked" /\ i[f] # ""
                      \/ /\ f \in {"network", "headerType", "streamSecurity"}
                         /\ j[f] \in {"tcp", "none", "tls"}
    BY DEF Passes
  <2>1. CASE f \notin Rewritten
    BY <2>1 DEF IsEntered
  <2>2. CASE f \in {"network", "headerType", "streamSecurity"}
    BY <2>2 DEF IsEntered
  <2>3. CASE f = "security"
    <3>1. type \in {"vmess", "vless"} => "security" \in FieldsOf(type)
      BY DEF FieldsOf
    <3> QED BY <2>3, <3>1 DEF IsEntered, Given, OrElse
  <2>4. CASE f = "allowInsecure"
    <3>1. "allowInsecure" \in ItemFields
      BY DEF ItemFields
    <3>2. i.allowInsecure # "" => "allowInsecure" \in FieldsOf(type)
      BY <3>1 DEF Fits
    <3> QED BY <2>4, <3>2 DEF IsEntered, Given
  <2>5. CASE f = "localAddress"
    BY <2>5 DEF IsEntered
  <2> QED BY <2>1, <2>2, <2>3, <2>4, <2>5 DEF Rewritten
<1> QED BY <1>4, <1>5, <1>6, StillFits

\* The fields that are dialled, of which an entry tells what it tells in its own way.
IsKept(type, i, j) ==
    LET standard == type \in OverStandardTransport
        secured == standard \/ type \in {"hysteria2", "tuic", "anytls"}
                   \/ (type \in {"socks", "http"} /\ i.streamSecurity = "tls") IN
    /\ j.id = YamlScalar(i.id)
    /\ j.sni = IF secured THEN i.sni ELSE ""
    /\ j.allowInsecure = IF secured /\ i.allowInsecure \in {"true", "1"} THEN "true" ELSE ""
    /\ j.fingerprint = IF standard \/ type = "anytls" THEN i.fingerprint ELSE ""
    /\ j.alpn = IF standard \/ type \in {"tuic", "anytls"} THEN i.alpn ELSE ""
    /\ j.path = IF standard /\ i.network \in {"ws", "h2", "grpc"} THEN i.path ELSE ""
    /\ j.requestHost = IF standard /\ i.network \in {"ws", "h2"} THEN i.requestHost ELSE ""
    /\ j.flow = IF type = "vless" THEN i.flow ELSE ""
    /\ j.obfsPassword = IF type = "hysteria2" THEN YamlScalar(i.obfsPassword) ELSE ""
    /\ j.idleSession = IF type = "anytls" THEN i.idleSession ELSE ""
    /\ type = "wireguard" => /\ j.peerPublicKey = i.peerPublicKey /\ j.reserved = i.reserved
                             /\ j.wireguardMtu = i.wireguardMtu
    /\ j.packetEncoding = "" /\ j.cert = "" /\ j.certSha = "" /\ j.muxEnabled = "" /\ j.mbps = ""
    /\ j.publicKey = "" /\ j.congestionControl = "" /\ j.udpRelayMode = ""
    /\ j.zeroRttHandshake = ""

\* The same field by field, with the keys spelt out.
LEMMA EntryKept ==
    ASSUME NEW type \in Entries, NEW i, Fits(type, i), NEW j, IsEntered(type, i, j)
    PROVE  IsKept(type, i, j)
<1> DEFINE standard == type \in OverStandardTransport
           secured == standard \/ type \in {"hysteria2", "tuic", "anytls"}
                      \/ (type \in {"socks", "http"} /\ i.streamSecurity = "tls")
           carried == Carried(type, i)
<1>1. standard => i.network \in Networks
  BY DEF Fits
<1>2. /\ "id" \in carried
      /\ "sni" \in carried <=> secured
      /\ "allowInsecure" \in carried <=> secured
      /\ "fingerprint" \in carried <=> standard \/ type = "anytls"
      /\ "alpn" \in carried <=> standard \/ type \in {"tuic", "anytls"}
      /\ "path" \in carried <=> standard /\ i.network \in {"ws", "h2", "grpc"}
      /\ "requestHost" \in carried <=> standard /\ i.network \in {"ws", "h2"}
      /\ "flow" \in carried <=> type = "vless"
      /\ "obfsPassword" \in carried <=> type = "hysteria2"
      /\ "idleSession" \in carried <=> type = "anytls"
      /\ "peerPublicKey" \in carried <=> type = "wireguard"
      /\ "reserved" \in carried <=> type = "wireguard"
      /\ "wireguardMtu" \in carried <=> type = "wireguard"
      /\ carried \cap {"packetEncoding", "cert", "certSha", "muxEnabled", "mbps", "publicKey",
                       "congestionControl", "udpRelayMode", "zeroRttHandshake"} = {}
  BY <1>1, Carrying
<1> HIDE DEF carried, secured, standard
<1>3. \A f \in ItemFields \ Rewritten : j[f] = IF f \in carried THEN YamlScalar(i[f]) ELSE ""
  BY DEF IsEntered, carried
<1>4. {"id", "sni", "fingerprint", "alpn", "path", "requestHost", "flow", "obfsPassword", "idleSession",
       "peerPublicKey", "reserved", "wireguardMtu", "packetEncoding", "cert", "certSha", "muxEnabled",
       "mbps", "publicKey", "congestionControl", "udpRelayMode", "zeroRttHandshake"}
         \subseteq ItemFields \ Rewritten
  BY DEF ItemFields, Rewritten
<1>5. \A f \in {"sni", "fingerprint", "alpn", "path", "requestHost", "flow", "idleSession",
                "peerPublicKey", "reserved", "wireguardMtu"} : YamlScalar(i[f]) = i[f]
  BY DEF Fits, ItemFields, Secrets
<1>6. j.allowInsecure = IF secured /\ i.allowInsecure \in {"true", "1"} THEN "true" ELSE ""
  BY <1>2 DEF IsEntered, carried
<1>7. /\ j.id = YamlScalar(i.id)
      /\ j.obfsPassword = (IF type = "hysteria2" THEN YamlScalar(i.obfsPassword) ELSE "")
  BY <1>2, <1>3, <1>4
<1>8. /\ j.sni = (IF secured THEN i.sni ELSE "")
      /\ j.fingerprint = (IF standard \/ type = "anytls" THEN i.fingerprint ELSE "")
      /\ j.alpn = (IF standard \/ type \in {"tuic", "anytls"} THEN i.alpn ELSE "")
  BY <1>2, <1>3, <1>4, <1>5
<1>9. /\ j.path = (IF standard /\ i.network \in {"ws", "h2", "grpc"} THEN i.path ELSE "")
      /\ j.requestHost = (IF standard /\ i.network \in {"ws", "h2"} THEN i.requestHost ELSE "")
  BY <1>2, <1>3, <1>4, <1>5
<1>10. /\ j.flow = (IF type = "vless" THEN i.flow ELSE "")
       /\ j.idleSession = (IF type = "anytls" THEN i.idleSession ELSE "")
  BY <1>2, <1>3, <1>4, <1>5
<1>11. type = "wireguard" => /\ j.peerPublicKey = i.peerPublicKey /\ j.reserved = i.reserved
                             /\ j.wireguardMtu = i.wireguardMtu
  BY <1>2, <1>3, <1>4, <1>5
<1>12. /\ j.packetEncoding = "" /\ j.cert = "" /\ j.certSha = "" /\ j.muxEnabled = "" /\ j.mbps = ""
       /\ j.publicKey = "" /\ j.congestionControl = "" /\ j.udpRelayMode = ""
       /\ j.zeroRttHandshake = ""
  BY <1>2, <1>3, <1>4
<1> QED BY <1>6, <1>7, <1>8, <1>9, <1>10, <1>11, <1>12 DEF IsKept, secured, standard

\* Only what looks like a number with leading zeros or like nothing is changed by an entry.
LEMMA Numbers == \A v : YamlScalar(v) # v <=> v \in {"007", "null"}
BY DEF YamlScalar

\* The credentials: what looks like a number or like nothing is lost, and nothing else.
LEMMA CredentialsByEntry ==
    ASSUME Settled, way = "clash", NEW type \in Entries,
           NEW i, DOMAIN i = ItemFields, Fits(type, i),
           NEW j, DOMAIN j = ItemFields, IsEntered(type, i, j), IsKept(type, i, j)
    PROVE  Credentials(Item(type, i)) # Credentials(Item(type, j)) =>
            "credentials" \in Lost(Item(type, i))
<1> DEFINE s == Item(type, i)  t == Item(type, j)
<1>1. /\ s.type = type /\ s.fields = i
      /\ t.type = type /\ t.fields = j
  BY DEF Item
<1>0. IsLostInEntry(s, i)
  BY <1>1, LostInEntry
<1> SUFFICES ASSUME "credentials" \notin Lost(s) PROVE Credentials(s) = Credentials(t)
  OBVIOUS
<1> HIDE DEF s, t
<1>2. i.id \notin {"007", "null"} /\ i.security \notin {"007", "null"}
  BY <1>0 DEF IsLostInEntry
<1>3. j.id = i.id
  <2>1. j.id = YamlScalar(i.id)
    BY DEF IsKept
  <2> QED BY <1>2, <2>1, Numbers
<1>5. CASE type = "vmess"
  <2>1. j.security = OrElse(i.security, "auto")
    BY <1>5 DEF IsEntered
  <2> QED BY <1>1, <1>3, <1>5, <2>1 DEF Credentials, OrElse
<1>6. CASE type \in {"shadowsocks", "socks", "http", "tuic"}
  <2>1. j.security = i.security
    <3>1. j.security = YamlScalar(i.security)
      BY <1>6 DEF IsEntered
    <3> QED BY <1>2, <3>1, Numbers
  <2> QED BY <1>1, <1>3, <1>6, <2>1 DEF Credentials
<1>7. CASE type \in {"vless", "trojan", "hysteria2", "wireguard", "anytls"}
  BY <1>1, <1>3, <1>7 DEF Credentials
<1> QED BY <1>5, <1>6, <1>7 DEF Entries, Linkable

\* The options of a protocol: those without a key are lost.
LEMMA OptionsByEntry ==
    ASSUME Settled, way = "clash", NEW type \in Entries,
           NEW i, DOMAIN i = ItemFields, Fits(type, i),
           NEW j, DOMAIN j = ItemFields, IsEntered(type, i, j), IsKept(type, i, j)
    PROVE  Options(Item(type, i)) # Options(Item(type, j)) <=> "options" \in Lost(Item(type, i))
<1> DEFINE s == Item(type, i)  t == Item(type, j)
<1>1. /\ s.type = type /\ s.fields = i
      /\ t.type = type /\ t.fields = j
  BY DEF Item
<1>0. IsLostInEntry(s, i)
  BY <1>1, LostInEntry
<1> SUFFICES Options(s) # Options(t) <=> "options" \in Lost(s)
  OBVIOUS
<1> HIDE DEF s, t
<1>2. "options" \in Lost(s) <=>
        \/ type = "vless" /\ i.packetEncoding # ""
        \/ type = "http" /\ (i.path # "" \/ i.requestHost # "")
        \/ type = "hysteria2" /\ (i.mbps # "" \/ i.obfsPassword \in {"007", "null"})
        \/ type = "tuic" /\ (i.congestionControl # "" \/ i.udpRelayMode # ""
                             \/ i.zeroRttHandshake # "")
        \/ type = "wireguard" /\ i.localAddress = "three"
  BY <1>0, <1>1 DEF IsLostInEntry
<1>3. CASE type = "vless"
  <2>1. Options(s) = <<i.flow, i.packetEncoding>> /\ Options(t) = <<j.flow, j.packetEncoding>>
    BY <1>1, <1>3 DEF Options
  <2>2. j.flow = i.flow /\ j.packetEncoding = ""
    BY <1>3 DEF IsKept
  <2>3. Options(s) = Options(t) <=> i.flow = j.flow /\ i.packetEncoding = j.packetEncoding
    BY <2>1
  <2> QED BY <1>2, <1>3, <2>2, <2>3
<1>4. CASE type = "http"
  <2>1. Options(s) = <<i.path, i.requestHost>> /\ Options(t) = <<j.path, j.requestHost>>
    BY <1>1, <1>4 DEF Options
  <2>2. j.path = "" /\ j.requestHost = ""
    BY <1>4 DEF IsKept, OverStandardTransport
  <2>3. Options(s) = Options(t) <=> i.path = j.path /\ i.requestHost = j.requestHost
    BY <2>1
  <2> QED BY <1>2, <1>4, <2>2, <2>3
<1>5. CASE type = "hysteria2"
  <2>1. Options(s) = <<i.obfsPassword, i.mbps>> /\ Options(t) = <<j.obfsPassword, j.mbps>>
    BY <1>1, <1>5 DEF Options
  <2>2. j.obfsPassword = YamlScalar(i.obfsPassword) /\ j.mbps = ""
    BY <1>5 DEF IsKept
  <2>3. j.obfsPassword # i.obfsPassword <=> i.obfsPassword \in {"007", "null"}
    BY <2>2, Numbers
  <2>4. Options(s) = Options(t) <=> i.obfsPassword = j.obfsPassword /\ i.mbps = j.mbps
    BY <2>1
  <2> QED BY <1>2, <1>5, <2>2, <2>3, <2>4
<1>6. CASE type = "tuic"
  <2>1. /\ Options(s) = <<i.congestionControl, i.udpRelayMode, i.zeroRttHandshake>>
        /\ Options(t) = <<j.congestionControl, j.udpRelayMode, j.zeroRttHandshake>>
    BY <1>1, <1>6 DEF Options
  <2>2. j.congestionControl = "" /\ j.udpRelayMode = "" /\ j.zeroRttHandshake = ""
    BY DEF IsKept
  <2>3. Options(s) = Options(t) <=> /\ i.congestionControl = j.congestionControl
                                    /\ i.udpRelayMode = j.udpRelayMode
                                    /\ i.zeroRttHandshake = j.zeroRttHandshake
    BY <2>1
  <2> QED BY <1>2, <1>6, <2>2, <2>3
<1>7. CASE type = "wireguard"
  <2> DEFINE Shown(v) == IF v = "marked" THEN v ELSE ""
  <2>1. /\ Options(s) = <<i.peerPublicKey, Shown(i.reserved), i.localAddress, i.wireguardMtu>>
        /\ Options(t) = <<j.peerPublicKey, Shown(j.reserved), j.localAddress, j.wireguardMtu>>
    BY <1>1, <1>7 DEF Options
  <2>2. j.peerPublicKey = i.peerPublicKey /\ j.reserved = i.reserved /\ j.wireguardMtu = i.wireguardMtu
    BY <1>7 DEF IsKept
  <2>3. j.localAddress # i.localAddress <=> i.localAddress = "three"
    BY <1>7 DEF IsEntered
  <2> HIDE DEF Shown
  <2>4. Options(s) = Options(t) <=> j.localAddress = i.localAddress
    BY <2>1, <2>2
  <2> QED BY <1>2, <1>7, <2>3, <2>4
<1>8. CASE type \in {"vmess", "trojan", "shadowsocks", "socks", "anytls"}
  <2>1. Options(s) = Options(t)
    <3>1. CASE type = "anytls"
      <4>1. j.idleSession = i.idleSession
        BY <3>1 DEF IsKept
      <4> QED BY <1>1, <3>1, <4>1 DEF Options
    <3>2. CASE type # "anytls"
      BY <1>1, <1>8, <3>2 DEF Options
    <3> QED BY <3>1, <3>2
  <2> QED BY <1>2, <1>8, <2>1
<1> QED BY <1>3, <1>4, <1>5, <1>6, <1>7, <1>8 DEF Entries, Linkable

\* The transport: host and path have keys for three networks.
LEMMA TransportByEntry ==
    ASSUME Settled, way = "clash", NEW type \in Entries,
           NEW i, DOMAIN i = ItemFields, Fits(type, i),
           NEW j, DOMAIN j = ItemFields, IsEntered(type, i, j), IsKept(type, i, j)
    PROVE  Transport(Item(type, i)) # Transport(Item(type, j)) <=> "transport" \in Lost(Item(type, i))
<1> DEFINE s == Item(type, i)  t == Item(type, j)
<1>1. /\ s.type = type /\ s.fields = i
      /\ t.type = type /\ t.fields = j
  BY DEF Item
<1>0. IsLostInEntry(s, i)
  BY <1>1, LostInEntry
<1> SUFFICES Transport(s) # Transport(t) <=> "transport" \in Lost(s)
  OBVIOUS
<1> HIDE DEF s, t
<1>2. "transport" \in Lost(s) <=>
        /\ type \in OverStandardTransport
        /\ \/ i.network = "httpupgrade" /\ (i.path # "" \/ i.requestHost # "")
           \/ i.network = "tcp" /\ i.headerType = "http"
  BY <1>0, <1>1 DEF IsLostInEntry
<1>3. CASE type \notin OverStandardTransport
  <2>1. Transport(s) = <<>> /\ Transport(t) = <<>>
    BY <1>1, <1>3 DEF Transport
  <2> QED BY <1>2, <1>3, <2>1
<1>4. CASE type \in OverStandardTransport
  <2>1. j.network = i.network /\ j.headerType = "none"
    BY <1>4 DEF IsEntered
  <2>2. /\ j.path = IF i.network \in {"ws", "h2", "grpc"} THEN i.path ELSE ""
        /\ j.requestHost = IF i.network \in {"ws", "h2"} THEN i.requestHost ELSE ""
    BY <1>4 DEF IsKept
  <2>3. i.network \in Networks
    BY <1>4 DEF Fits
  <2>4. resolveSingBoxNetwork(j) = resolveSingBoxNetwork(i)
    BY <2>1 DEF resolveSingBoxNetwork
  <2>5. Transport(s) # Transport(t) <=> buildTransport(i) # buildTransport(j)
    <3>1. /\ Transport(s) = <<resolveSingBoxNetwork(i), buildTransport(i)>>
          /\ Transport(t) = <<resolveSingBoxNetwork(j), buildTransport(j)>>
      BY <1>1, <1>4 DEF Transport
    <3> QED BY <2>4, <3>1
  <2>6. CASE i.network = "httpupgrade"
    <3>1. /\ buildTransport(i) = <<"httpupgrade", i.path, i.requestHost>>
          /\ buildTransport(j) = <<"httpupgrade", j.path, j.requestHost>>
      BY <2>1, <2>6 DEF buildTransport
    <3>2. buildTransport(i) = buildTransport(j) <=> i.path = j.path /\ i.requestHost = j.requestHost
      BY <3>1
    <3> QED BY <1>2, <1>4, <2>2, <2>5, <2>6, <3>2
  <2>7. CASE i.network = "tcp"
    <3>1. /\ buildTransport(i) = IF i.headerType = "http"
                                 THEN <<"http", OrElse(i.path, "/"), i.requestHost>> ELSE <<>>
          /\ buildTransport(j) = <<>>
      BY <2>1, <2>7 DEF buildTransport
    <3> QED BY <1>2, <1>4, <2>5, <2>7, <3>1
  <2>8. CASE i.network \in {"ws", "h2"}
    <3>1. buildTransport(i) = buildTransport(j)
      BY <2>1, <2>2, <2>8 DEF buildTransport
    <3> QED BY <1>2, <2>5, <2>8, <3>1
  <2>9. CASE i.network \in {"grpc", "http", "xhttp", "kcp", "quic"}
    <3>1. buildTransport(i) = buildTransport(j)
      BY <2>1, <2>2, <2>9 DEF buildTransport
    <3> QED BY <1>2, <2>5, <2>9, <3>1
  <2> QED BY <2>3, <2>6, <2>7, <2>8, <2>9 DEF Networks
<1> QED BY <1>3, <1>4

\* The TLS part: no hash, no certificate and no REALITY comes through an entry.
LEMMA TlsByEntry ==
    ASSUME Settled, way = "clash", NEW type \in Entries,
           NEW i, DOMAIN i = ItemFields, Fits(type, i),
           NEW j, DOMAIN j = ItemFields, IsEntered(type, i, j), IsKept(type, i, j)
    PROVE  TlsByPart(Item(type, i), Item(type, j))
<1> DEFINE s == Item(type, i)  t == Item(type, j)
           standard == type \in OverStandardTransport
<1>1. /\ s.type = type /\ s.fields = i
      /\ t.type = type /\ t.fields = j
  BY DEF Item
<1>0. IsLostInEntry(s, i)
  BY <1>1, LostInEntry
<1> SUFFICES TlsByPart(s, t)
  OBVIOUS
<1> HIDE DEF s, t
<1>2. /\ i.streamSecurity \in (IF standard THEN {"", "none", "tls", "xtls", "reality"}
                               ELSE IF type \in {"socks", "http"} THEN {"", "tls"}
                               ELSE IF type \in {"shadowsocks", "wireguard"} THEN {""} ELSE {"tls"})
      /\ ~standard => ~Reality(i)
  BY DEF Fits, Securities, OverStandardTransport, Reality
<1>3. j.streamSecurity =
         IF \/ type \in {"trojan", "hysteria2", "tuic", "anytls"}
            \/ type \in {"vmess", "vless"} /\ i.streamSecurity \in {"tls", "reality"}
            \/ type \in {"socks", "http"} /\ i.streamSecurity = "tls"
         THEN "tls" ELSE ""
  BY DEF IsEntered
<1>4. ~Reality(j)
  BY <1>3 DEF Reality
<1>5. ~(Secured(s) <=> Secured(t)) <=> "tls" \in Lost(s)
  <2>1. "tls" \in Lost(s) <=>
          \/ i.streamSecurity = "xtls" /\ type # "trojan"
          \/ i.streamSecurity \in {"", "none"} /\ type = "trojan"
    BY <1>0, <1>1 DEF IsLostInEntry
  <2>2. /\ Secured(s) <=> type # "wireguard" /\ i.streamSecurity \in {"tls", "xtls", "reality"}
        /\ Secured(t) <=> type # "wireguard" /\ j.streamSecurity \in {"tls", "xtls", "reality"}
    BY <1>1 DEF Secured
  <2>3. CASE standard
    BY <1>2, <1>3, <2>1, <2>2, <2>3 DEF OverStandardTransport
  <2>4. CASE type \in {"socks", "http"}
    BY <1>2, <1>3, <2>1, <2>2, <2>4 DEF OverStandardTransport
  <2>5. CASE type \in {"shadowsocks", "wireguard"}
    BY <1>2, <1>3, <2>1, <2>2, <2>5 DEF OverStandardTransport
  <2>6. CASE type \in {"hysteria2", "tuic", "anytls"}
    BY <1>2, <1>3, <2>1, <2>2, <2>6 DEF OverStandardTransport
  <2> QED BY <2>3, <2>4, <2>5, <2>6 DEF Entries, Linkable, OverStandardTransport
<1> SUFFICES ASSUME Secured(s), Secured(t)
             PROVE  /\ Checked(i) # Checked(j) <=> "checked" \in Lost(s)
                    /\ resolveServerName(i) # resolveServerName(j) <=> "name" \in Lost(s)
                    /\ i.alpn # j.alpn <=> "alpn" \in Lost(s)
                    /\ resolveFingerprint(i) # resolveFingerprint(j) <=> "utls" \in Lost(s)
                    /\ RealityKey(i) # RealityKey(j) <=> "reality" \in Lost(s)
  BY <1>1, <1>5 DEF TlsByPart
<1>6. \/ standard \/ type \in {"hysteria2", "tuic", "anytls"}
      \/ type \in {"socks", "http"} /\ i.streamSecurity = "tls"
  BY <1>1, <1>2 DEF Secured, Entries, Linkable, OverStandardTransport
<1>7. /\ j.sni = i.sni
      /\ j.allowInsecure = IF i.allowInsecure \in {"true", "1"} THEN "true" ELSE ""
      /\ j.cert = "" /\ j.certSha = ""
      /\ j.fingerprint = IF standard \/ type = "anytls" THEN i.fingerprint ELSE ""
      /\ j.alpn = IF standard \/ type \in {"tuic", "anytls"} THEN i.alpn ELSE ""
      /\ j.requestHost = IF standard /\ i.network \in {"ws", "h2"} THEN i.requestHost ELSE ""
  BY <1>6 DEF IsKept
<1>8. /\ ~standard /\ type # "http" => i.requestHost = ""
      /\ ~standard /\ type # "anytls" => i.fingerprint = ""
      /\ type \in {"socks", "http"} => i.alpn = ""
  <2>1. {"requestHost", "fingerprint", "alpn"} \subseteq ItemFields
    BY DEF ItemFields
  <2>2. ASSUME ~standard, type # "http" PROVE i.requestHost = ""
    <3>1. "requestHost" \notin FieldsOf(type)
      BY <1>6, <2>2 DEF FieldsOf, TlsFields
    <3> QED BY <2>1, <3>1, Unused
  <2>3. ASSUME ~standard, type # "anytls" PROVE i.fingerprint = ""
    <3>1. "fingerprint" \notin FieldsOf(type)
      BY <1>6, <2>3 DEF FieldsOf, TlsFields
    <3> QED BY <2>1, <3>1, Unused
  <2>4. ASSUME type \in {"socks", "http"} PROVE i.alpn = ""
    <3>1. "alpn" \notin FieldsOf(type)
      BY <2>4 DEF FieldsOf
    <3> QED BY <2>1, <3>1, Unused
  <2> QED BY <2>2, <2>3, <2>4
<1>9. Checked(i) # Checked(j) <=> "checked" \in Lost(s)
  <2>1. resolveAllowInsecure(j.allowInsecure) <=> SkippedAfter(s)
    BY <1>1, <1>7 DEF SkippedAfter, resolveAllowInsecure, Settled
  <2>2. /\ i = s.fields /\ (Reality(i) => s.type \in OverStandardTransport)
        /\ Reality(j) <=> Reality(i) /\ way = "link"
    BY <1>1, <1>2, <1>4
  <2>3. j.certSha = IF way = "link" /\ s.type \in {"trojan", "vless"} THEN i.certSha ELSE ""
    BY <1>7
  <2> QED BY <1>7, <2>1, <2>2, <2>3, CheckedPart
<1>10. resolveServerName(i) # resolveServerName(j) <=> "name" \in Lost(s)
  <2>1. "name" \in Lost(s) <=>
          /\ i.sni = "" /\ i.requestHost # "" /\ i.requestHost # "address"
          /\ type = "http" \/ (standard /\ i.network \notin {"ws", "h2"})
    BY <1>0, <1>1 DEF IsLostInEntry
  <2>2. standard => type # "http"
    BY DEF OverStandardTransport
  <2> QED BY <1>7, <1>8, <2>1, <2>2 DEF resolveServerName, OrElse
<1>11. i.alpn # j.alpn <=> "alpn" \in Lost(s)
  <2>1. "alpn" \in Lost(s) <=> type = "hysteria2" /\ i.alpn # ""
    BY <1>0, <1>1 DEF IsLostInEntry
  <2> QED BY <1>6, <1>7, <1>8, <2>1 DEF OverStandardTransport
<1>12. resolveFingerprint(i) # resolveFingerprint(j) <=> "utls" \in Lost(s)
  <2>1. "utls" \in Lost(s) <=> Reality(i) /\ i.fingerprint = "" /\ defaults.fingerprint = ""
    BY <1>0 DEF IsLostInEntry
  <2>2. j.fingerprint = i.fingerprint
    BY <1>7, <1>8
  <2> QED BY <1>4, <2>1, <2>2 DEF resolveFingerprint, OrElse
<1>13. RealityKey(i) # RealityKey(j) <=> "reality" \in Lost(s)
  <2>1. "reality" \in Lost(s) <=> Reality(i)
    BY <1>0 DEF IsLostInEntry
  <2> QED BY <1>4, <2>1 DEF RealityKey
<1> QED BY <1>9, <1>10, <1>11, <1>12, <1>13

\* A server that went through an entry has lost what is listed and nothing else.
LEMMA ByEntry ==
    ASSUME Settled, way = "clash", NEW type \in Entries,
           NEW i, DOMAIN i = ItemFields, Fits(type, i), NEW r,
           r = parseProxyArray(type, buildProxyEntry(Item(type, i)))
    PROVE  /\ r = Item(type, r.fields) /\ DOMAIN r.fields = ItemFields /\ Fits(type, r.fields)
           /\ PartByPart(Item(type, i), r)
<1> DEFINE j == r.fields  s == Item(type, i)  t == Item(type, j)
<1>1. r = t /\ IsEntered(type, i, j)
  BY EntryPassed
<1> HIDE DEF j
<1>2. DOMAIN j = ItemFields
  BY <1>1 DEF IsEntered
<1>3. Fits(type, j)
  BY <1>1, EntryFits
<1>4. IsKept(type, i, j)
  BY <1>1, EntryKept
<1>5. Credentials(s) # Credentials(t) => "credentials" \in Lost(s)
  BY <1>1, <1>2, <1>4, CredentialsByEntry
<1>6. Options(s) # Options(t) <=> "options" \in Lost(s)
  BY <1>1, <1>2, <1>4, OptionsByEntry
<1>7. Transport(s) # Transport(t) <=> "transport" \in Lost(s)
  BY <1>1, <1>2, <1>4, TransportByEntry
<1>8. ~(Multiplexed(s) <=> Multiplexed(t)) <=> "multiplex" \in Lost(s)
  <2>1. j.muxEnabled = "" /\ (type = "vless" => j.flow = i.flow)
    BY <1>4 DEF IsKept
  <2> QED BY <2>1, MultiplexPart
<1>9. TlsByPart(s, t)
  BY <1>1, <1>2, <1>4, TlsByEntry
<1>10. s.type = t.type
  BY DEF Item
<1>11. PartByPart(s, t)
  <2> HIDE DEF s, t
  <2> QED BY <1>5, <1>6, <1>7, <1>8, <1>9, <1>10 DEF PartByPart
<1> QED BY <1>1, <1>2, <1>3, <1>11 DEF j

-------------------------------------------------------------------------------
\* A first secret that is missing on the other side was missing before.
LEMMA SecretIsRead ==
    ASSUME NEW i, DOMAIN i = ItemFields
    PROVE  /\ parseVmess(buildVmess(i)).id = "" <=> i.id = ""
           /\ parseTuic(buildTuic(i)).id = "" <=> i.id = ""
           /\ parseWireguard(buildWireguard(i)).id = "" <=> i.id = ""
           /\ parseAnytls(buildAnytls(i)).id = "" <=> i.id = ""
<1>1. parseVmess(buildVmess(i)).id = "" <=> i.id = ""
  BY DEF buildVmess, parseVmess, Read, Written, ItemFields
<1>2. parseWireguard(buildWireguard(i)).id = UserInfo(i.id)
  BY DEF buildWireguard, parseWireguard, Read, Written, ItemFields
<1>3. ASSUME NEW b, DOMAIN b = ItemFields, b.id = i.id
      PROVE  parseTuic(b).id = UserInfo(i.id) /\ parseAnytls(b).id = UserInfo(i.id)
  BY <1>3 DEF parseTuic, parseAnytls, Tls, Read, ItemFields
<1>4. /\ buildTuic(i).id = i.id /\ DOMAIN buildTuic(i) = ItemFields
      /\ buildAnytls(i).id = i.id /\ DOMAIN buildAnytls(i) = ItemFields
  BY DEF buildTuic, buildAnytls, Written, ItemFields
<1> QED BY <1>1, <1>2, <1>3, <1>4 DEF UserInfo

\* The same of the two links over a standard transport.
LEMMA SecretOfStandard ==
    ASSUME NEW type \in {"trojan", "vless"}, NEW i, Fits(type, i), NEW j,
           j = IF type = "trojan" THEN parseTrojan(buildTrojan(i)) ELSE parseVless(buildVless(i))
    PROVE  j.id = "" <=> i.id = ""
<1>1. IsPassedOn(type, i, j)
  BY StandardPassed
<1>2. j.id = UserInfo(i.id)
  BY <1>1 DEF IsPassedOn
<1> QED BY <1>2 DEF UserInfo

\* Every parser of links fills in a whole server.
LEMMA ReadHasFields ==
    ASSUME NEW b
    PROVE  /\ DOMAIN parseVmess(b) = ItemFields /\ DOMAIN parseShadowsocks(b) = ItemFields
           /\ DOMAIN parseSocks(b) = ItemFields /\ DOMAIN parseTrojan(b) = ItemFields
           /\ DOMAIN parseVless(b) = ItemFields /\ DOMAIN parseHysteria2(b) = ItemFields
           /\ DOMAIN parseTuic(b) = ItemFields /\ DOMAIN parseWireguard(b) = ItemFields
           /\ DOMAIN parseAnytls(b) = ItemFields /\ DOMAIN parseNaive(b) = ItemFields
<1>0. ASSUME NEW d, NEW a PROVE DOMAIN Read(b, d, a) = ItemFields
  BY DEF Read
<1>1. /\ DOMAIN parseVmess(b) = ItemFields /\ DOMAIN parseShadowsocks(b) = ItemFields
      /\ DOMAIN parseSocks(b) = ItemFields /\ DOMAIN parseWireguard(b) = ItemFields
  BY <1>0 DEF parseVmess, parseShadowsocks, parseSocks, parseWireguard, Empty
<1>2. ASSUME NEW d, NEW a PROVE DOMAIN Tls(Read(b, d, a)) = ItemFields
  BY DEF Tls, Read
<1>3. /\ DOMAIN parseHysteria2(b) = ItemFields /\ DOMAIN parseTuic(b) = ItemFields
      /\ DOMAIN parseAnytls(b) = ItemFields /\ DOMAIN parseNaive(b) = ItemFields
  BY <1>2 DEF parseHysteria2, parseTuic, parseAnytls, parseNaive
<1>4. ASSUME NEW d, NEW a PROVE DOMAIN resolveStandardTransport(b, d, a) = ItemFields
  BY DEF resolveStandardTransport, Read
<1>5. DOMAIN parseTrojan(b) = ItemFields /\ DOMAIN parseVless(b) = ItemFields
  BY <1>4 DEF parseTrojan, parseVless
<1> QED BY <1>1, <1>3, <1>5


\* A server that went over a link is refused, or has lost nothing that is not listed.
IsLinked(type, i, r) ==
    /\ r = Item(type, r.fields) /\ DOMAIN r.fields = ItemFields /\ Fits(type, r.fields)
    /\ PartByPart(Item(type, i), r)

\* How such a server is put together from its fields.
LEMMA Linked ==
    ASSUME NEW type, NEW i, NEW j, DOMAIN j = ItemFields, Fits(type, j),
           PartByPart(Item(type, i), Item(type, j))
    PROVE  IsLinked(type, i, Item(type, j))
<1>1. Item(type, j).fields = j
  BY DEF Item
<1> QED BY <1>1 DEF IsLinked

\* A server whose link cannot be read is refused; every other one arrives.
LEMMA ByLink ==
    ASSUME Settled, way = "link", NEW type \in Linkable,
           NEW i, DOMAIN i = ItemFields, Fits(type, i), NEW r,
           r = ShareUrlParser_parse(type, ShareUrlBuilder_build(Item(type, i)))
    PROVE  \/ r = Refused /\ Unreadable(Item(type, i))
           \/ IsLinked(type, i, r)
<1> DEFINE s == Item(type, i)
<1>1. s.type = type /\ s.fields = i
  BY DEF Item
<1> SUFFICES (r = Refused /\ Unreadable(s)) \/ IsLinked(type, i, r)
  OBVIOUS
<1> HIDE DEF s
<1>2. CASE type = "vmess"
  <2> DEFINE j == parseVmess(buildVmess(i))
  <2>1. r = IF j.id = "" THEN Refused ELSE Item(type, j)
    BY <1>1, <1>2 DEF ShareUrlBuilder_build, ShareUrlParser_parse, s
  <2>2. j.id = "" <=> i.id = ""
    BY <1>2, SecretIsRead
  <2>3. DOMAIN j = ItemFields
    BY ReadHasFields
  <2>4. PartByPart(Item(type, i), Item(type, j)) /\ Fits(type, j)
    BY <1>2, VmessByLink
  <2> HIDE DEF j
  <2> QED  BY <1>1, <1>2, <2>1, <2>2, <2>3, <2>4, Linked DEF Unreadable
<1>3. CASE type = "trojan"
  <2> DEFINE j == parseTrojan(buildTrojan(i))
  <2>1. r = IF j.id = "" THEN Refused ELSE Item(type, j)
    BY <1>1, <1>3 DEF ShareUrlBuilder_build, ShareUrlParser_parse, s
  <2>2. j.id = "" <=> i.id = ""
    BY <1>3, SecretOfStandard
  <2>3. DOMAIN j = ItemFields
    BY ReadHasFields
  <2>4. PartByPart(Item(type, i), Item(type, j)) /\ Fits(type, j)
    BY <1>3, StandardByLink
  <2> HIDE DEF j
  <2> QED  BY <1>1, <1>3, <2>1, <2>2, <2>3, <2>4, Linked DEF Unreadable
<1>4. CASE type = "vless"
  <2> DEFINE j == parseVless(buildVless(i))
  <2>1. r = IF j.id = "" THEN Refused ELSE Item(type, j)
    BY <1>1, <1>4 DEF ShareUrlBuilder_build, ShareUrlParser_parse, s
  <2>2. j.id = "" <=> i.id = ""
    BY <1>4, SecretOfStandard
  <2>3. DOMAIN j = ItemFields
    BY ReadHasFields
  <2>4. PartByPart(Item(type, i), Item(type, j)) /\ Fits(type, j)
    BY <1>4, StandardByLink
  <2> HIDE DEF j
  <2> QED  BY <1>1, <1>4, <2>1, <2>2, <2>3, <2>4, Linked DEF Unreadable
<1>5. CASE type = "tuic"
  <2> DEFINE j == parseTuic(buildTuic(i))
  <2>1. r = IF j.id = "" THEN Refused ELSE Item(type, j)
    BY <1>1, <1>5 DEF ShareUrlBuilder_build, ShareUrlParser_parse, s
  <2>2. j.id = "" <=> i.id = ""
    BY <1>5, SecretIsRead
  <2>3. DOMAIN j = ItemFields
    BY ReadHasFields
  <2>4. PartByPart(Item(type, i), Item(type, j)) /\ Fits(type, j)
    BY <1>5, TuicByLink
  <2> HIDE DEF j
  <2> QED  BY <1>1, <1>5, <2>1, <2>2, <2>3, <2>4, Linked DEF Unreadable
<1>6. CASE type = "wireguard"
  <2> DEFINE j == parseWireguard(buildWireguard(i))
  <2>1. r = IF j.id = "" THEN Refused ELSE Item(type, j)
    BY <1>1, <1>6 DEF ShareUrlBuilder_build, ShareUrlParser_parse, s
  <2>2. j.id = "" <=> i.id = ""
    BY <1>6, SecretIsRead
  <2>3. DOMAIN j = ItemFields
    BY ReadHasFields
  <2>4. PartByPart(Item(type, i), Item(type, j)) /\ Fits(type, j)
    BY <1>6, WireguardByLink
  <2> HIDE DEF j
  <2> QED  BY <1>1, <1>6, <2>1, <2>2, <2>3, <2>4, Linked DEF Unreadable
<1>7. CASE type = "anytls"
  <2> DEFINE j == parseAnytls(buildAnytls(i))
  <2>1. r = IF j.id = "" THEN Refused ELSE Item(type, j)
    BY <1>1, <1>7 DEF ShareUrlBuilder_build, ShareUrlParser_parse, s
  <2>2. j.id = "" <=> i.id = ""
    BY <1>7, SecretIsRead
  <2>3. DOMAIN j = ItemFields
    BY ReadHasFields
  <2>4. PartByPart(Item(type, i), Item(type, j)) /\ Fits(type, j)
    BY <1>7, AnytlsByLink
  <2> HIDE DEF j
  <2> QED  BY <1>1, <1>7, <2>1, <2>2, <2>3, <2>4, Linked DEF Unreadable
<1>8. CASE type = "socks"
  <2> DEFINE j == parseSocks(buildSocks(i))
  <2>1. r = Item(type, j)
    BY <1>1, <1>8 DEF ShareUrlBuilder_build, ShareUrlParser_parse, s
  <2>2. DOMAIN j = ItemFields
    BY ReadHasFields
  <2>3. PartByPart(Item(type, i), Item(type, j)) /\ Fits(type, j)
    BY <1>8, SocksByLink
  <2> HIDE DEF j
  <2> QED  BY <2>1, <2>2, <2>3, Linked
<1>9. CASE type = "hysteria2"
  <2> DEFINE j == parseHysteria2(buildHysteria2(i))
  <2>1. r = Item(type, j)
    BY <1>1, <1>9 DEF ShareUrlBuilder_build, ShareUrlParser_parse, s
  <2>2. DOMAIN j = ItemFields
    BY ReadHasFields
  <2>3. PartByPart(Item(type, i), Item(type, j)) /\ Fits(type, j)
    BY <1>9, Hysteria2ByLink
  <2> HIDE DEF j
  <2> QED  BY <2>1, <2>2, <2>3, Linked
<1>10. CASE type = "shadowsocks"
  <2> DEFINE j == parseShadowsocks(buildShadowsocks(i))
  <2>1. r = IF j.id = "" THEN Refused ELSE Item(type, j)
    BY <1>1, <1>10 DEF ShareUrlBuilder_build, ShareUrlParser_parse, s
  <2>2. /\ j.id = "" <=> i.id = "" \/ i.id = "slashed"
        /\ i.id # "slashed" => PartByPart(Item(type, i), Item(type, j)) /\ Fits(type, j)
    BY <1>10, ShadowsocksByLink
  <2>3. DOMAIN j = ItemFields
    BY ReadHasFields
  <2> HIDE DEF j
  <2>4. CASE j.id = ""
    BY <1>1, <1>10, <2>1, <2>2, <2>4 DEF Unreadable
  <2>5. CASE j.id # ""
    BY <2>1, <2>2, <2>3, <2>5, Linked
  <2> QED  BY <2>4, <2>5
<1>11. CASE type = "naive"
  <2> DEFINE j == parseNaive(buildNaive(i))
  <2>1. r = IF j.id = "" THEN Refused ELSE Item(type, j)
    BY <1>1, <1>11 DEF ShareUrlBuilder_build, ShareUrlParser_parse, s
  <2>2. /\ j.id = "" <=> i.username = "" \/ i.id = ""
        /\ i.username # "" => PartByPart(Item(type, i), Item(type, j)) /\ Fits(type, j)
    BY <1>11, NaiveByLink
  <2>3. DOMAIN j = ItemFields
    BY ReadHasFields
  <2> HIDE DEF j
  <2>4. CASE j.id = ""
    BY <1>1, <1>11, <2>1, <2>2, <2>4 DEF Unreadable
  <2>5. CASE j.id # ""
    BY <2>1, <2>2, <2>3, <2>5, Linked
  <2> QED  BY <2>4, <2>5
<1> QED  BY <1>2, <1>3, <1>4, <1>5, <1>6, <1>7, <1>8, <1>9, <1>10, <1>11 DEF Linkable

-------------------------------------------------------------------------------
(***************************************************************************)
(* Passing on, once or many times.                                         *)
(***************************************************************************)
\* A server there can be, as a record of a protocol and its fields.
Sound(s) == /\ s = Item(s.type, s.fields) /\ s.type \in Protocols
            /\ DOMAIN s.fields = ItemFields /\ Fits(s.type, s.fields)

\* What lies on the table is what the builder made of the server in the list, and an
\* imported server is what the parser made of that.
OnItsWay ==
    /\ sent = server /\ Sound(server)
    /\ \/ way = "link" /\ server.type \in Linkable
          /\ shared = Item(server.type, ShareUrlBuilder_build(server))
       \/ way = "clash" /\ server.type \in Entries
          /\ shared = Item(server.type, buildProxyEntry(server))

Arrived ==
    /\ Sound(sent)
    /\ \/ way = "link" /\ sent.type \in Linkable
          /\ server = ShareUrlParser_parse(sent.type, ShareUrlBuilder_build(sent))
       \/ way = "clash" /\ sent.type \in Entries
          /\ server = parseProxyArray(sent.type, buildProxyEntry(sent))

\* The inductive invariant: wherever a server is on its way, it is sound.
SharingIInv ==
    /\ Settled
    /\ hops \in Nat
    /\ server = Refused \/ Sound(server)
    /\ shared # NoText => OnItsWay
    /\ hops > 0 /\ shared = NoText => Arrived

\* A server somebody may export is sound.
LEMMA SharedIsSound == ASSUME SharingInstance, NEW s \in SharedServers PROVE Sound(s)
<1>1. s \in Shareable
  BY DEF SharingInstance
<1>2. s \in [type : Protocols, fields : [ItemFields -> SharedTexts]] /\ Fits(s.type, s.fields)
  BY <1>1 DEF Shareable, Protocols
<1>3. /\ s.type \in Protocols /\ s.fields \in [ItemFields -> SharedTexts]
      /\ s = [type |-> s.type, fields |-> s.fields]
  BY <1>2
<1> QED  BY <1>2, <1>3 DEF Sound, Item

\* A sound server that goes over a link or through an entry loses nothing that is not
\* listed, and is sound again, or is refused because its link cannot be read.
LEMMA Passing ==
    ASSUME Settled, NEW s, Sound(s), NEW r,
           \/ way = "link" /\ s.type \in Linkable
              /\ r = ShareUrlParser_parse(s.type, ShareUrlBuilder_build(s))
           \/ way = "clash" /\ s.type \in Entries
              /\ r = parseProxyArray(s.type, buildProxyEntry(s))
    PROVE  \/ r = Refused /\ Unreadable(s)
           \/ Sound(r) /\ PartByPart(s, r)
<1> DEFINE type == s.type  i == s.fields
<1>1. s = Item(type, i) /\ type \in Protocols /\ DOMAIN i = ItemFields /\ Fits(type, i)
  BY DEF Sound
<1> HIDE DEF type, i
<1>2. ASSUME IsLinked(type, i, r)
      PROVE  Sound(r) /\ PartByPart(s, r)
  <2>1. r.type = type
    BY <1>2 DEF IsLinked, Item
  <2> QED  BY <1>1, <1>2, <2>1 DEF IsLinked, Sound
<1>3. CASE /\ way = "link" /\ type \in Linkable
           /\ r = ShareUrlParser_parse(type, ShareUrlBuilder_build(s))
  <2>1. \/ r = Refused /\ Unreadable(s)
        \/ IsLinked(type, i, r)
    BY <1>1, <1>3, ByLink
  <2> QED  BY <1>2, <2>1
<1>4. CASE /\ way = "clash" /\ type \in Entries
           /\ r = parseProxyArray(type, buildProxyEntry(s))
  <2>1. IsLinked(type, i, r)
    BY <1>1, <1>4, ByEntry DEF IsLinked
  <2> QED  BY <1>2, <2>1
<1> QED  BY <1>3, <1>4 DEF type

\* A refused import leaves no server that could be passed on.
LEMMA RefusedIsNone == Refused.type = "refused" /\ "refused" \notin Protocols /\ ~Sound(Refused)
BY DEF Refused, Item, Protocols, Linkable, Sound

\* The invariant holds at first,
LEMMA SharingInitIInv == ASSUME SharingInstance PROVE SharingInit => SharingIInv
<1> SUFFICES ASSUME SharingInit PROVE SharingIInv
  OBVIOUS
<1>1. Settled
  BY DEF SharingInit, Settled
<1>2. Sound(server)
  BY SharedIsSound DEF SharingInit
<1>3. shared = NoText /\ hops = 0
  BY DEF SharingInit
<1> QED  BY <1>1, <1>2, <1>3 DEF SharingIInv

\* every export and every import keeps it,
LEMMA SharingStepIInv == SharingIInv /\ [SharingNext]_sharingVars => SharingIInv'
<1> SUFFICES ASSUME SharingIInv, [SharingNext]_sharingVars PROVE SharingIInv'
  OBVIOUS
<1>1. ASSUME NEW form, NEW fields, Export(form, fields), server.type \in Protocols,
             \/ form = "link" /\ server.type \in Linkable /\ fields = ShareUrlBuilder_build(server)
             \/ form = "clash" /\ server.type \in Entries /\ fields = buildProxyEntry(server)
      PROVE  SharingIInv'
  <2>1. server # Refused /\ Sound(server)
    BY <1>1, RefusedIsNone DEF SharingIInv
  <2>2. /\ sent' = server /\ way' = form /\ shared' = Item(server.type, fields)
        /\ server' = server /\ hops' = hops /\ defaults' = defaults
    BY <1>1 DEF Export
  <2>3. shared' # NoText
    BY <1>1, <2>2, RefusedIsNone DEF NoText, Item
  <2>4. Sound(server')
    BY <2>1, <2>2
  <2>5. OnItsWay'
    BY <1>1, <2>2, <2>4 DEF OnItsWay, ShareUrlBuilder_build
  <2> QED  BY <2>2, <2>3, <2>4, <2>5 DEF SharingIInv, Settled
<1>2. CASE exportUris
  BY <1>1, <1>2 DEF exportUris, Protocols
<1>3. CASE exportClashYaml
  BY <1>1, <1>3 DEF exportClashYaml, Entries, Protocols
<1>4. ASSUME shared # NoText, hops' = hops + 1, shared' = NoText, UNCHANGED <<sent, way, defaults>>,
             \/ way = "link" /\ server' = ShareUrlParser_parse(shared.type, shared.fields)
             \/ way = "clash" /\ server' = parseProxyArray(shared.type, shared.fields)
      PROVE  SharingIInv'
  <2>1. OnItsWay /\ Settled /\ hops \in Nat
    BY <1>4 DEF SharingIInv
  <2>2. \A e : Item(server.type, e).type = server.type /\ Item(server.type, e).fields = e
    BY DEF Item
  <2>3. /\ Sound(sent)
        /\ \/ way = "link" /\ sent.type \in Linkable
              /\ server' = ShareUrlParser_parse(sent.type, ShareUrlBuilder_build(sent))
           \/ way = "clash" /\ sent.type \in Entries
              /\ server' = parseProxyArray(sent.type, buildProxyEntry(sent))
    BY <1>4, <2>1, <2>2 DEF OnItsWay
  <2>4. server' = Refused \/ Sound(server')
    BY <2>1, <2>3, Passing
  <2>5. Arrived'
    BY <1>4, <2>3 DEF Arrived
  <2>6. Settled'
    BY <1>4, <2>1 DEF Settled
  <2>7. hops' \in Nat
    BY <1>4, <2>1
  <2>8. (shared # NoText)' <=> shared' # NoText
    BY DEF NoText, Refused, Item, Empty
  <2> QED  BY <1>4, <2>4, <2>5, <2>6, <2>7, <2>8 DEF SharingIInv
<1>5. CASE ImportLink
  BY <1>4, <1>5 DEF ImportLink, Import
<1>6. CASE ImportEntry
  BY <1>4, <1>6 DEF ImportEntry, Import
<1>7. CASE UNCHANGED sharingVars
  BY <1>7 DEF sharingVars, SharingIInv, Settled, OnItsWay, Arrived
<1> QED  BY <1>2, <1>3, <1>5, <1>6, <1>7 DEF SharingNext

\* and it says what the property asks for.
LEMMA KeepsWhatItPromises == SharingIInv => PassedOn
<1> SUFFICES ASSUME SharingIInv, hops > 0, shared = NoText
             PROVE  IF server = Refused THEN Unreadable(sent)
                    ELSE Differing(sent, server) \subseteq Lost(sent)
  BY DEF PassedOn
<1>1. \/ server = Refused /\ Unreadable(sent)
      \/ Sound(server) /\ PartByPart(sent, server)
  BY Passing DEF SharingIInv, Arrived
<1> QED  BY <1>1, RefusedIsNone, Compared

(***************************************************************************)
(* The theorem.                                                            *)
(***************************************************************************)
\* However often and in whatever form a server is passed on, it is dialled as before but
\* for the losses that are listed, and an import refuses only a link that cannot be read
\* (ShareUrlBuilder, ShareUrlParser, exportClashYaml, parseProxyArray): for every protocol,
\* any plain texts and the classes of texts a conversion changes in the fields where they
\* fit, every setting that can be left open and any number of hops.
THEOREM PassedOnAlways == ASSUME SharingInstance PROVE SharingSpec => []PassedOn
<1> QED  BY SharingInitIInv, SharingStepIInv, KeepsWhatItPromises, PTL DEF SharingSpec
=================================================================================
