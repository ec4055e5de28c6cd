-------------------------------- MODULE Sharing --------------------------------
(***************************************************************************)
(* A server that is passed on: exported as a share link or as an entry of  *)
(* a Clash `proxies:' block and imported again, perhaps by somebody who    *)
(* then passes it on.  Ten builders and ten parsers of links, and one      *)
(* builder and one parser of entries, have to agree on some thirty fields; *)
(* what counts is what sing-box is told to dial in the end.                *)
(***************************************************************************)
EXTENDS Naturals

CONSTANTS SharedServers, \* the servers somebody may export
          PlainTexts,    \* texts of letters and digits, which every form carries as they are
          MaxHops        \* bound: how often a server is passed on

VARIABLES server,   \* the server in the list, or Refused when an import was
          sent,     \* what was exported last, and
          way,      \* as what: "link" or "clash"
          shared,   \* the link or the entry that is passed on, or NoText
          hops,     \* how often the server was passed on
          defaults  \* the settings a server can leave open, on every machine the same

sharingVars == <<server, sent, way, shared, hops, defaults>>

\* The fields of a VmessItem that reach sing-box.  `id' is the first secret (of WireGuard
\* the private key), `security' the second or the cipher; `mbps' stands for both rates,
\* `publicKey' for REALITY's key with its short id, `idleSession' for the three intervals.
\* Address, port and name go the same way in every form and are left out.
ItemFields == {"id", "security", "network", "headerType", "requestHost", "path",
               "streamSecurity", "allowInsecure", "flow", "packetEncoding", "sni", "alpn",
               "fingerprint", "publicKey", "cert", "certSha", "muxEnabled", "obfsPassword",
               "mbps", "congestionControl", "udpRelayMode", "zeroRttHandshake",
               "peerPublicKey", "localAddress", "reserved", "wireguardMtu", "username",
               "naiveQuic", "insecureConcurrency", "idleSession"}

\* A text is empty, plain, one of the words the code knows, or stands for all texts that
\* are converted in the same way: "marked" with one of / + , : @ in it, "spoilt" with the
\* code of one (%2F) instead and "worse" with the code of that code; "007", a number with
\* leading zeros, and "null"; "three" addresses; a "colon" between the letters of a SOCKS
\* user name or password, and a "slashed" Shadowsocks password, whose base64 holds a slash.
Converted == {"marked", "spoilt", "worse", "colon", "slashed", "007", "null", "three"}
CodeWords == {"tcp", "ws", "grpc", "h2", "http", "httpupgrade", "xhttp", "kcp", "quic",
              "none", "tls", "xtls", "reality", "true", "false", "1", "on", "off", "/",
              "auto", "cubic", "native", "chrome", "address", "head", "7"}
SharedTexts == {""} \cup PlainTexts \cup CodeWords \cup Converted
Marked == {"marked", "three"}

Empty == [f \in ItemFields |-> ""]
Item(type, fields) == [type |-> type, fields |-> fields]
Refused == Item("refused", Empty)
NoText == Refused

\* Only the fields named, of a server that is written or of an entry that is read.
Written(i, names) == [f \in ItemFields |-> IF f \in names THEN i[f] ELSE ""]

OrElse(v, d) == IF v = "" THEN d ELSE v
OverStandardTransport == {"vmess", "vless", "trojan"}

\* There is no link for an HTTP server.
Linkable == {"vmess", "shadowsocks", "socks", "trojan", "vless", "hysteria2", "tuic",
             "wireguard", "anytls", "naive"}

\* A value taken from the query as it stands keeps / + , : @ and % encoded, and the next
\* link encodes the per cent signs.
AsItStands(v) == CASE v \in Marked -> "spoilt" [] v = "spoilt" -> "worse" [] OTHER -> v

\* What stands before the @ of a link is decoded by QUrl, and once more.
UserInfo(v) == IF v = "spoilt" THEN "marked" ELSE v

\* What looks like a number is read as one from an entry, and null as nothing, in quotes
\* or not.
YamlScalar(v) == CASE v = "007" -> "7" [] v = "null" -> "" [] OTHER -> v

(***************************************************************************)
(* The servers there can be: any of these texts, but for the words the     *)
(* code chooses from, in the fields a protocol has a use for.              *)
(***************************************************************************)
TlsFields == {"allowInsecure", "sni", "alpn", "cert", "certSha"}
StreamFields == TlsFields \cup {"network", "headerType", "requestHost", "path", "streamSecurity",
                                "fingerprint", "publicKey", "muxEnabled"}
FieldsOf(type) ==
    {"id"} \cup
    CASE type = "vmess" -> {"security"} \cup StreamFields
      [] type = "vless" -> {"flow", "packetEncoding", "security"} \cup StreamFields
      [] type = "trojan" -> StreamFields
      [] type = "shadowsocks" -> {"security", "muxEnabled"}
      [] type = "socks" -> {"security", "sni", "allowInsecure"}
      [] type = "http" -> {"security", "sni", "allowInsecure", "path", "requestHost"}
      [] type = "hysteria2" -> {"obfsPassword", "mbps"} \cup TlsFields
      [] type = "tuic" -> {"security", "congestionControl", "udpRelayMode", "zeroRttHandshake"}
                          \cup TlsFields
      [] type = "wireguard" -> {"peerPublicKey", "localAddress", "reserved", "wireguardMtu"}
      [] type = "anytls" -> {"fingerprint", "idleSession"} \cup TlsFields
      [] type = "naive" -> {"username", "naiveQuic", "congestionControl", "insecureConcurrency"}
                           \cup TlsFields

\* What the editor offers, and what a link may say instead: "http" for HTTP/2, "none" for no TLS.
Networks == {"tcp", "ws", "grpc", "h2", "http", "httpupgrade", "xhttp", "kcp", "quic"}
Securities(type) == CASE type \in OverStandardTransport -> {"", "none", "tls", "xtls", "reality"}
                      [] type \in {"socks", "http"} -> {"", "tls"}
                      [] type \in {"shadowsocks", "wireguard"} -> {""}
                      [] OTHER -> {"tls"}

\* Names and numbers, which hold no sign a link encodes.
Words == {"flow", "packetEncoding", "sni", "fingerprint", "mbps", "congestionControl",
          "udpRelayMode", "zeroRttHandshake", "wireguardMtu", "insecureConcurrency", "idleSession"}
\* What may be all digits, or null; and what stands before the @ of a link, in the open.
Secrets(type) == {"id", "obfsPassword"}
                 \cup IF type \in {"socks", "http", "tuic"} THEN {"security"} ELSE {}
UserInfoOf(type) == CASE type = "tuic" -> {"id", "security"}
                      [] type = "naive" -> {"id", "username"}
                      [] type \in {"vless", "trojan", "hysteria2", "wireguard", "anytls"} -> {"id"}
                      [] OTHER -> {}

InPlace(type, f, v) == /\ v = "colon" => type = "socks" /\ f \in {"id", "security"}
                       /\ v = "slashed" => type = "shadowsocks" /\ f = "id"

Fits(type, i) ==
    /\ \A f \in ItemFields : i[f] \in SharedTexts
    /\ i.streamSecurity \in Securities(type)
    /\ type \in OverStandardTransport =>
           i.network \in Networks /\ i.headerType \in {"", "none", "http"}
    /\ \A f \in ItemFields \ (FieldsOf(type) \cup {"network", "headerType", "streamSecurity"}) :
           i[f] = ""
    /\ \A f \in Words : AsItStands(i[f]) = i[f]
    /\ \A f \in ItemFields \ Secrets(type) : YamlScalar(i[f]) = i[f]
    /\ type = "shadowsocks" => AsItStands(i.security) = i.security
    /\ \A f \in UserInfoOf(type) : i[f] # "worse"
    /\ \A f \in ItemFields : InPlace(type, f, i[f])

Shareable == {s \in [type : Linkable \cup {"http"}, fields : [ItemFields -> SharedTexts]] :
                 Fits(s.type, s.fields)}

SharingInstance == /\ SharedServers \subseteq Shareable
                   /\ PlainTexts \subseteq STRING \ Converted

(***************************************************************************)
(* Share links.                                                            *)
(***************************************************************************)
\* The names a VLESS or Trojan link carries, by network.
buildStandardTransportEntries(i) ==
    {"flow", "packetEncoding", "streamSecurity", "sni", "alpn", "certSha", "network"}
    \cup (IF i.streamSecurity = "reality" THEN {"fingerprint", "publicKey"} ELSE {})
    \cup CASE i.network \in {"ws", "httpupgrade", "http", "h2"} -> {"requestHost", "path"}
           [] i.network = "xhttp" -> {"requestHost", "path", "headerType"}
           [] i.network = "quic" -> {"headerType", "requestHost", "path"}
           [] i.network = "kcp" -> {"headerType", "path"}
           [] i.network = "grpc" -> {"path"}
           [] OTHER -> {"headerType", "requestHost"}

\* HTTP/2 is written under the name of HTTP, and QUIC's security is never left open.
StandardTransport(i, names, defaultSecurity) ==
    [Written(i, names \cup buildStandardTransportEntries(i)) EXCEPT
        !.streamSecurity = OrElse(@, defaultSecurity),
        !.network = IF @ \in {"http", "h2"} THEN "http" ELSE OrElse(@, "tcp"),
        !.requestHost = IF i.network = "quic" THEN OrElse(@, "none") ELSE @]

\* A skipped check is written in one way, and by some builders read in one way only.
Insecure(i, accepted) == IF i.allowInsecure \in accepted THEN "1" ELSE ""

buildVmess(i) == Written(i, {"id", "security", "network", "headerType", "requestHost", "path",
                             "streamSecurity", "sni", "alpn"})
buildShadowsocks(i) == Written(i, {"security", "id"})
buildSocks(i) == Written(i, {"id", "security"})
buildTrojan(i) == StandardTransport(i, {"id"}, "")
buildVless(i) == [StandardTransport(i, {"id", "security"}, "none") EXCEPT
                    !.security = OrElse(@, "none")]
buildHysteria2(i) ==
    [Written(i, {"id", "sni", "obfsPassword", "mbps", "alpn"}) EXCEPT
        !.allowInsecure = Insecure(i, {"true"})]
buildTuic(i) ==
    [Written(i, {"id", "security", "sni", "congestionControl", "udpRelayMode",
                 "zeroRttHandshake", "alpn"}) EXCEPT !.allowInsecure = Insecure(i, {"true"})]
buildWireguard(i) ==
    Written(i, {"id", "peerPublicKey", "localAddress", "reserved", "wireguardMtu"})
buildAnytls(i) ==
    [Written(i, {"id", "sni", "alpn", "fingerprint", "idleSession"}) EXCEPT
        !.allowInsecure = Insecure(i, {"true", "1"})]
\* Without a user name the password is written where a user name is read.
buildNaive(i) ==
    [Written(i, {"id", "username", "naiveQuic", "sni", "alpn", "congestionControl",
                 "insecureConcurrency"}) EXCEPT
        !.allowInsecure = Insecure(i, {"true", "1"}),
        !.username = OrElse(@, i.id),
        !.id = IF i.username = "" THEN "" ELSE @]

ShareUrlBuilder_build(s) ==
    LET i == s.fields IN
    CASE s.type = "vmess" -> buildVmess(i)
      [] s.type = "shadowsocks" -> buildShadowsocks(i)
      [] s.type = "socks" -> buildSocks(i)
      [] s.type = "trojan" -> buildTrojan(i)
      [] s.type = "vless" -> buildVless(i)
      [] s.type = "hysteria2" -> buildHysteria2(i)
      [] s.type = "tuic" -> buildTuic(i)
      [] s.type = "wireguard" -> buildWireguard(i)
      [] s.type = "anytls" -> buildAnytls(i)
      [] s.type = "naive" -> buildNaive(i)

Read(i, decoded, asItStands) ==
    [f \in ItemFields |-> CASE f \in decoded -> i[f]
                            [] f \in asItStands -> AsItStands(i[f])
                            [] OTHER -> ""]

\* The host of gRPC is looked for under a name no link has.
resolveStandardTransport(i, decoded, asItStands) ==
    LET network == IF i.network \in {"http", "h2"} THEN "h2" ELSE OrElse(i.network, "tcp")
        more == CASE network \in {"ws", "httpupgrade", "h2"} -> {"requestHost", "path"}
                  [] network = "xhttp" -> {"requestHost", "path", "headerType"}
                  [] network = "quic" -> {"requestHost", "path"}
                  [] network \in {"kcp", "grpc"} -> {"path"}
                  [] OTHER -> {"requestHost"}
        words == IF network \in {"kcp", "quic", "tcp"} THEN {"headerType"} ELSE {} IN
    [Read(i, decoded \cup more \cup {"sni", "alpn", "fingerprint", "certSha", "publicKey"},
             asItStands \cup words \cup {"flow", "streamSecurity", "allowInsecure",
                                         "packetEncoding"}) EXCEPT
        !.network = network,
        !.headerType = IF words # {} THEN OrElse(@, "none") ELSE @,
        !.requestHost = IF network = "quic" THEN OrElse(@, "none") ELSE @]

Tls(i) == [i EXCEPT !.streamSecurity = "tls"]

\* Of the three forms of a VMess link this is the one that is written; it has members
\* for more than is written into it.
parseVmess(i) == Read(i, {"id", "security", "network", "headerType", "requestHost", "path",
                          "streamSecurity", "sni", "alpn", "fingerprint", "publicKey"}, {})
\* A slash in the base64 ends the host's part of the link, and the older form, which is
\* tried next, is base64 to the end.
parseShadowsocks(i) == IF i.id = "slashed" THEN Empty ELSE Read(i, {"security", "id"}, {})
\* The first colon ends the user name.
parseSocks(i) == [Read(i, {"id", "security"}, {}) EXCEPT
                    !.id = IF @ = "colon" THEN "head" ELSE @,
                    !.security = IF i.id = "colon" THEN "colon" ELSE @]
parseTrojan(i) == [resolveStandardTransport(i, {"id"}, {}) EXCEPT
                     !.id = UserInfo(@), !.streamSecurity = OrElse(@, "tls")]
parseVless(i) == [resolveStandardTransport(i, {"id"}, {"security"}) EXCEPT
                    !.id = UserInfo(@), !.security = OrElse(@, "none")]
parseHysteria2(i) ==
    [Tls(Read(i, {"id", "certSha"}, {"sni", "allowInsecure", "obfsPassword", "mbps", "alpn"}))
        EXCEPT !.id = UserInfo(@)]
parseTuic(i) ==
    [Tls(Read(i, {"id", "security"}, {"sni", "allowInsecure", "congestionControl",
                                      "udpRelayMode", "zeroRttHandshake", "alpn"})) EXCEPT
        !.id = UserInfo(@), !.security = UserInfo(@),
        !.congestionControl = OrElse(@, "cubic"), !.udpRelayMode = OrElse(@, "native")]
parseWireguard(i) ==
    [Read(i, {"id"}, {"peerPublicKey", "localAddress", "reserved", "wireguardMtu"})
        EXCEPT !.id = UserInfo(@)]
parseAnytls(i) ==
    [Tls(Read(i, {"id", "alpn"}, {"sni", "allowInsecure", "fingerprint", "idleSession"}))
        EXCEPT !.id = UserInfo(@)]
parseNaive(i) ==
    [Tls(Read(i, {"id", "username", "naiveQuic"},
                 {"sni", "allowInsecure", "alpn", "congestionControl", "insecureConcurrency"}))
        EXCEPT !.id = UserInfo(@), !.username = UserInfo(@)]

\* A server without its first secret is refused, unless the protocol can do without.
ShareUrlParser_parse(type, i) ==
    LET item == CASE type = "vmess" -> parseVmess(i)
                  [] type = "shadowsocks" -> parseShadowsocks(i)
                  [] type = "socks" -> parseSocks(i)
                  [] type = "trojan" -> parseTrojan(i)
                  [] type = "vless" -> parseVless(i)
                  [] type = "hysteria2" -> parseHysteria2(i)
                  [] type = "tuic" -> parseTuic(i)
                  [] type = "wireguard" -> parseWireguard(i)
                  [] type = "anytls" -> parseAnytls(i)
                  [] type = "naive" -> parseNaive(i)
    IN IF item.id = "" /\ type \notin {"socks", "hysteria2"} THEN Refused ELSE Item(type, item)

(***************************************************************************)
(* Clash entries.                                                          *)
(***************************************************************************)
appendTlsFields == {"sni", "allowInsecure", "fingerprint", "alpn"}

\* (slip) The host is forgotten.
appendTransportFieldsNoHost(i) ==
    IF i.network = "tcp" THEN {} ELSE {"network", "path"}

\* Host and path are written for three networks; of TCP nothing is, and of the others
\* the name.
appendTransportFields(i) ==
    CASE i.network \in {"ws", "h2"} -> {"network", "path", "requestHost"}
      [] i.network = "grpc" -> {"network", "path"}
      [] i.network = "tcp" -> {}
      [] OTHER -> {"network"}

\* What an entry has a key for.
EntryFields(s) ==
    CASE s.type = "vmess" -> {"id", "security"}
                                 \cup appendTlsFields \cup appendTransportFields(s.fields)
      [] s.type = "vless" -> {"id", "flow"}
                             \cup appendTlsFields \cup appendTransportFields(s.fields)
      [] s.type = "trojan" -> {"id"} \cup appendTlsFields \cup appendTransportFields(s.fields)
      [] s.type = "shadowsocks" -> {"id", "security"}
      [] s.type \in {"socks", "http"} ->
             {"id", "security"}
             \cup IF s.fields.streamSecurity = "tls" THEN {"sni", "allowInsecure"} ELSE {}
      [] s.type = "hysteria2" -> {"id", "sni", "allowInsecure", "obfsPassword"}
      [] s.type = "tuic" -> {"id", "security", "sni", "allowInsecure", "alpn"}
      [] s.type = "anytls" -> {"id", "idleSession"} \cup appendTlsFields
      [] s.type = "wireguard" -> {"id", "peerPublicKey", "localAddress", "wireguardMtu",
                                  "reserved"}

\* A transport's security is written as a yes or no, and only where there is a choice;
\* two of a WireGuard server's addresses have a key.
buildProxyEntry(s) ==
    LET i == s.fields IN
    [Written(i, EntryFields(s)) EXCEPT
        !.security = IF s.type = "vmess" THEN OrElse(@, "auto") ELSE @,
        !.streamSecurity =
            IF \/ s.type \in {"vmess", "vless"} /\ i.streamSecurity \in {"tls", "reality"}
               \/ s.type \in {"socks", "http"} /\ i.streamSecurity = "tls"
            THEN "tls" ELSE "",
        !.allowInsecure = IF @ \in {"true", "1"} THEN "true" ELSE "",
        !.localAddress = IF @ = "three" THEN "marked" ELSE @]

Entries == (Linkable \ {"naive"}) \cup {"http"}

\* The keys that are looked for, by protocol and by network.
applyProtocolOptions(type) ==
    CASE type = "vmess" -> {"id", "security", "streamSecurity", "sni", "allowInsecure",
                            "fingerprint", "alpn"}
      [] type = "vless" -> {"id", "flow", "streamSecurity", "sni", "allowInsecure",
                            "fingerprint", "alpn"}
      [] type = "trojan" -> {"id", "sni", "allowInsecure", "fingerprint", "alpn"}
      [] type = "shadowsocks" -> {"id", "security"}
      [] type \in {"socks", "http"} -> {"id", "security", "streamSecurity", "sni",
                                        "allowInsecure"}
      [] type = "hysteria2" -> {"id", "sni", "allowInsecure", "obfsPassword"}
      [] type = "tuic" -> {"id", "security", "sni", "allowInsecure", "alpn"}
      [] type = "anytls" -> {"id", "sni", "allowInsecure", "fingerprint", "alpn", "idleSession"}
      [] type = "wireguard" -> {"id", "peerPublicKey", "reserved", "localAddress",
                                "wireguardMtu"}

applyTransportOptions(i) ==
    CASE i.network \in {"ws", "h2"} -> {"path", "requestHost"}
      [] i.network = "grpc" -> {"path"}
      [] OTHER -> {}

parseProxyArray(type, i) ==
    LET keys == {"network"} \cup applyProtocolOptions(type) \cup applyTransportOptions(i) IN
    Item(type, [Written([f \in ItemFields |-> YamlScalar(i[f])], keys) EXCEPT
        !.network = OrElse(@, "tcp"),
        !.headerType = "none",
        !.security = CASE type = "vless" -> "none" [] type = "vmess" -> OrElse(@, "auto")
                       [] OTHER -> @,
        !.streamSecurity = IF type \in {"trojan", "hysteria2", "tuic", "anytls"}
                           THEN "tls" ELSE @])

(***************************************************************************)
(* What sing-box is told to dial.                                          *)
(***************************************************************************)
Reality(i) == i.streamSecurity = "reality"
Secured(s) == s.type # "wireguard" /\ s.fields.streamSecurity \in {"tls", "xtls", "reality"}

resolveAllowInsecure(v) == IF v = "" THEN defaults.insecure ELSE v \in {"true", "1"}
resolveFingerprint(i) ==
    LET print == OrElse(i.fingerprint, defaults.fingerprint)
    IN IF Reality(i) THEN OrElse(print, "chrome") ELSE print
resolveServerName(i) == OrElse(i.sni, OrElse(i.requestHost, "address"))

\* What the server's certificate is held against: a certificate or a hash of the server's
\* own, what everybody trusts, or nothing.
Checked(i) ==
    IF Reality(i) THEN <<"verified">>
    ELSE IF i.cert # "" THEN <<"certificate", i.cert>>
    ELSE IF i.certSha # "" THEN <<"hash", i.certSha>>
    ELSE IF resolveAllowInsecure(i.allowInsecure) THEN <<"nothing">> ELSE <<"verified">>

buildTransport(i) ==
    CASE i.network = "ws" -> <<"ws", i.path, i.requestHost>>
      [] i.network = "quic" -> <<"quic">>
      [] i.network = "grpc" -> <<"grpc", i.path>>
      [] i.network = "httpupgrade" -> <<"httpupgrade", i.path, i.requestHost>>
      [] i.network = "h2" \/ (i.network \in {"tcp", ""} /\ i.headerType = "http") ->
             <<"http", OrElse(i.path, "/"), i.requestHost>>
      [] OTHER -> <<>>

resolveSingBoxNetwork(i) ==
    CASE i.network \in {"", "ws", "grpc", "h2", "httpupgrade"} -> "tcp"
      [] i.network = "quic" -> "udp"
      [] OTHER -> i.network

Credentials(s) ==
    LET i == s.fields IN
    CASE s.type = "vmess" -> <<i.id, OrElse(i.security, "auto")>>
      [] s.type = "shadowsocks" -> <<i.id, OrElse(i.security, "aes-128-gcm")>>
      [] s.type = "socks" -> IF i.id = "" THEN <<>> ELSE <<i.id, i.security>>
      [] s.type \in {"http", "tuic"} -> <<i.id, i.security>>
      [] s.type = "naive" -> <<i.id, i.username>>
      [] OTHER -> <<i.id>>

Options(s) ==
    LET i == s.fields IN
    CASE s.type = "vless" -> <<i.flow, i.packetEncoding>>
      [] s.type = "http" -> <<i.path, i.requestHost>>
      [] s.type = "hysteria2" -> <<i.obfsPassword, i.mbps>>
      [] s.type = "tuic" -> <<i.congestionControl, i.udpRelayMode, i.zeroRttHandshake>>
      [] s.type = "wireguard" -> <<i.peerPublicKey, IF i.reserved = "marked" THEN i.reserved ELSE "",
                                   i.localAddress, i.wireguardMtu>>
      [] s.type = "anytls" -> <<i.idleSession>>
      [] s.type = "naive" -> <<i.naiveQuic, IF i.naiveQuic = "" THEN "" ELSE i.congestionControl,
                               i.insecureConcurrency>>
      [] OTHER -> <<>>

\* Only some protocols can carry several connections in one.
Multiplexed(s) ==
    /\ \/ s.type \in {"vmess", "trojan", "shadowsocks"}
       \/ s.type = "vless" /\ s.fields.flow = ""
    /\ IF s.fields.muxEnabled = "" THEN defaults.mux ELSE s.fields.muxEnabled = "on"

\* Only these three protocols are given a network or a transport of another kind than TCP.
Outbound(s) ==
    LET i == s.fields IN
    [protocol |-> s.type,
     credentials |-> Credentials(s),
     options |-> Options(s),
     transport |-> IF s.type \in OverStandardTransport
                   THEN <<resolveSingBoxNetwork(i), buildTransport(i)>> ELSE <<>>,
     multiplex |-> Multiplexed(s),
     tls |-> Secured(s),
     checked |-> IF Secured(s) THEN Checked(i) ELSE <<>>,
     name |-> IF Secured(s) THEN resolveServerName(i) ELSE "",
     alpn |-> IF Secured(s) THEN i.alpn ELSE "",
     utls |-> IF Secured(s) THEN resolveFingerprint(i) ELSE "",
     reality |-> IF Secured(s) /\ Reality(i) THEN <<i.publicKey>> ELSE <<>>]

(***************************************************************************)
(* Passing on.                                                             *)
(***************************************************************************)
SharingInit == /\ server \in SharedServers
               /\ sent = Refused /\ way = "none"
               /\ shared = NoText
               /\ hops = 0
               /\ defaults \in [insecure : BOOLEAN, fingerprint : {"", "chrome"}, mux : BOOLEAN]

Export(form, fields) == /\ shared = NoText /\ hops < MaxHops
                        /\ sent' = server /\ way' = form
                        /\ shared' = Item(server.type, fields)
                        /\ UNCHANGED <<server, hops, defaults>>

exportUris == server.type \in Linkable /\ Export("link", ShareUrlBuilder_build(server))

exportClashYaml == server.type \in Entries /\ Export("clash", buildProxyEntry(server))

Import(parsed) == /\ shared # NoText
                  /\ server' = parsed
                  /\ shared' = NoText
                  /\ hops' = hops + 1
                  /\ UNCHANGED <<sent, way, defaults>>

ImportLink == way = "link" /\ Import(ShareUrlParser_parse(shared.type, shared.fields))

ImportEntry == way = "clash" /\ Import(parseProxyArray(shared.type, shared.fields))

SharingNext == exportUris \/ exportClashYaml \/ ImportLink \/ ImportEntry
SharingSpec == SharingInit /\ [][SharingNext]_sharingVars

(***************************************************************************)
(* What is lost on the way.                                                *)
(***************************************************************************)
\* The parts of an outbound that are not the same; of TLS, where both have it.
OfTls == {"checked", "name", "alpn", "utls", "reality"}
Differing(s, t) ==
    LET one == Outbound(s)  other == Outbound(t)
    IN {p \in DOMAIN one : one[p] # other[p] /\ (p \in OfTls => one.tls /\ other.tls)}

\* Whether the check is skipped on the other side, where no certificate goes with it.
SkippedAfter(s) ==
    \/ defaults.insecure
    \/ s.fields.allowInsecure = "true" /\ (way = "link" => s.type \notin OverStandardTransport)
    \/ s.fields.allowInsecure = "1" /\ (way = "link" => s.type \in {"anytls", "naive"})

\* A certificate of the server's own never goes with it, a hash with two kinds of links;
\* REALITY needs neither, but becomes plain TLS in an entry.
LosesCheck(s) ==
    LET i == s.fields IN
    \/ Reality(i) /\ way = "clash" /\ s.type \in OverStandardTransport /\ SkippedAfter(s)
    \/ /\ ~Reality(i)
       /\ \/ i.cert # ""
          \/ i.certSha # "" /\ ~(way = "link" /\ s.type \in {"trojan", "vless"})
          \/ /\ i.cert = "" /\ i.certSha = ""
             /\ ~(resolveAllowInsecure(i.allowInsecure) <=> SkippedAfter(s))

\* A server's own choice about multiplexing stays behind.
LosesMultiplex(s) ==
    ~(Multiplexed(s) <=> Multiplexed(Item(s.type, [s.fields EXCEPT !.muxEnabled = ""])))

LostByLink(s) ==
    LET i == s.fields
        standard == s.type \in {"trojan", "vless"}
        Spoilt(v) == v \in Marked \cup {"spoilt", "worse"} IN
    [credentials |-> \/ s.type = "socks" /\ i.id = "colon"
                     \/ \E f \in UserInfoOf(s.type) : i[f] = "spoilt",
     options |->
        \/ s.type = "hysteria2" /\ Spoilt(i.obfsPassword)
        \/ s.type = "tuic" /\ "" \in {i.congestionControl, i.udpRelayMode}
        \/ s.type = "wireguard" /\ (Spoilt(i.peerPublicKey) \/ Spoilt(i.localAddress)
                                    \/ i.reserved = "marked"),
     transport |->
        /\ standard
        /\ i.network = "http" \/ (i.network = "tcp" /\ i.headerType = "http" /\ i.path \notin {"", "/"}),
     multiplex |-> LosesMultiplex(s),
     tls |-> \/ s.type = "socks" /\ i.streamSecurity = "tls"
             \/ s.type = "trojan" /\ i.streamSecurity = "",
     checked |-> LosesCheck(s),
     name |-> /\ standard /\ i.sni = ""
              /\ \/ i.network \in {"grpc", "kcp"} /\ i.requestHost \notin {"", "address"}
                 \/ i.network = "quic" /\ i.requestHost = "",
     alpn |-> s.type \in {"hysteria2", "tuic", "naive"} /\ Spoilt(i.alpn),
     utls |-> /\ i.fingerprint \notin {"", resolveFingerprint([i EXCEPT !.fingerprint = ""])}
              /\ s.type = "vmess" \/ (standard /\ ~Reality(i)),
     reality |-> s.type = "vmess" /\ Reality(i) /\ i.publicKey # ""]

LostByEntry(s) ==
    LET i == s.fields
        standard == s.type \in OverStandardTransport IN
    [credentials |-> {"007", "null"} \cap {i.id, i.security} # {},
     options |->
        \/ s.type = "vless" /\ i.packetEncoding # ""
        \/ s.type = "http" /\ (i.path # "" \/ i.requestHost # "")
        \/ s.type = "hysteria2" /\ (i.mbps # "" \/ i.obfsPassword \in {"007", "null"})
        \/ s.type = "tuic" /\ {i.congestionControl, i.udpRelayMode, i.zeroRttHandshake} # {""}
        \/ s.type = "wireguard" /\ i.localAddress = "three",
     transport |->
        /\ standard
        /\ \/ i.network = "httpupgrade" /\ (i.path # "" \/ i.requestHost # "")
           \/ i.network = "tcp" /\ i.headerType = "http",
     multiplex |-> LosesMultiplex(s),
     tls |-> \/ i.streamSecurity = "xtls" /\ s.type # "trojan"
             \/ i.streamSecurity \in {"", "none"} /\ s.type = "trojan",
     checked |-> LosesCheck(s),
     name |-> \/ s.type = "http" /\ i.sni = "" /\ i.requestHost \notin {"", "address"}
              \/ /\ standard
                 /\ i.sni = "" /\ i.requestHost \notin {"", "address"}
                 /\ i.network \notin {"ws", "h2"},
     alpn |-> s.type = "hysteria2" /\ i.alpn # "",
     utls |-> Reality(i) /\ i.fingerprint = "" /\ defaults.fingerprint = "",
     reality |-> Reality(i)]

Lost(s) == LET lost == IF way = "link" THEN LostByLink(s) ELSE LostByEntry(s)
                IN {p \in DOMAIN lost : lost[p]}

\* A link without the first secret cannot be read; a Naive server without a user name
\* gives its password's place away, and a Shadowsocks server may have a slash in its link.
Unreadable(s) == LET i == s.fields IN
    /\ way = "link"
    /\ \/ i.id = "" /\ s.type \notin {"socks", "hysteria2"}
       \/ s.type = "naive" /\ i.username = ""
       \/ s.type = "shadowsocks" /\ i.id = "slashed"

\* A server that was passed on is dialled as before, except for what a link or an entry
\* is known to lose: no field is forgotten on one of the twenty-one sides, none is read as
\* another or refused, and none changes in another way when the server is passed on once
\* more.
PassedOn ==
    hops > 0 /\ shared = NoText =>
        IF server = Refused THEN Unreadable(sent) ELSE Differing(sent, server) \subseteq Lost(sent)

\* What CHANGELOG.md says of entries, and what is not so of any loss LostByEntry lists here:
\* "a node exported as YAML and re-imported comes back with the same address, port,
\* credentials and TLS settings".
EntryKeepsServer ==
    hops > 0 /\ shared = NoText /\ way = "clash" =>
        Differing(sent, server) \cap ({"credentials", "tls"} \cup OfTls) = {}
================================================================================
