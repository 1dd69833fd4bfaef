---------------------------- MODULE ProxyConfig ----------------------------
(***************************************************************************)
(* What the pipeline looks at in a link: the configs that pkg/parser       *)
(* accepts, the fields that the handshake tests ask for, and the outbound  *)
(* that xray is given.  A config is its protocol, whether TLS is enabled,  *)
(* and which of the fields that a test asks for are usable; server, port,  *)
(* transport and TLS details do not change what the pipeline does.         *)
(***************************************************************************)
Known == {"ss", "vmess", "vless", "trojan", "reality", "wireguard", "tuic",
          "hysteria2", "socks5"}

Field == {"knownMethod", "uuid", "security", "password", "publicKey",
          "privateKey", "auth"}

Links(protocol, tls, fields) ==
    [protocol: {protocol}, tls: tls, fields: fields]

-----------------------------------------------------------------------------
(***************************************************************************)
(* The parsers, by the configs they return.  A link that lacks what its    *)
(* parser asks for is not returned at all.                                 *)
(***************************************************************************)
\* The method is taken as it is.
ParseSS == Links("ss", {FALSE}, SUBSET {"knownMethod"})

\* A missing security becomes "auto".
ParseVMess == Links("vmess", BOOLEAN, {{"uuid", "security"}})

ParseVLess == Links("vless", BOOLEAN, {{"uuid"}})

\* Mutant: TLS is on only if the link says so.
ReadsSecurity == Links("trojan", BOOLEAN, {{"password"}})

ParseTrojan == Links("trojan", {TRUE}, {{"password"}})

ParseReality == Links("reality", {TRUE}, {{"uuid", "publicKey"}})

ParseWireGuard == Links("wireguard", {FALSE}, {{"privateKey", "publicKey"}})

ParseTUIC == Links("tuic", {TRUE}, {{"uuid"}})

ParseHysteria2 == Links("hysteria2", {TRUE}, {{"auth"}})

ParseSocks5 == Links("socks5", {FALSE}, {{}})

ParseSingle ==
    UNION {ParseSS, ParseVMess, ParseVLess, ParseTrojan, ParseReality,
           ParseWireGuard, ParseTUIC, ParseHysteria2, ParseSocks5}

\* What the test of each protocol asks for before it connects.
Required(protocol) ==
    CASE protocol = "ss"        -> {"knownMethod"}
      [] protocol = "vmess"     -> {"uuid", "security"}
      [] protocol \in {"vless", "tuic"} -> {"uuid"}
      [] protocol = "trojan"    -> {"password"}
      [] protocol = "reality"   -> {"publicKey"}
      [] protocol = "wireguard" -> {"privateKey", "publicKey"}
      [] protocol = "hysteria2" -> {"auth"}
      [] protocol = "socks5"    -> {}

Complete(c) == Required(c.protocol) \subseteq c.fields

-----------------------------------------------------------------------------
(***************************************************************************)
(* The outbound of the xray config: xray's name of the protocol and the    *)
(* security of the transport.                                              *)
(***************************************************************************)
Proxy(protocol, security) == [protocol |-> protocol, security |-> security]

IfEnabled(c) == IF c.tls THEN "tls" ELSE "none"

SSOutbound        == Proxy("shadowsocks", "none")
VMessOutbound(c)  == Proxy("vmess", IfEnabled(c))
VLessOutbound(c)  == Proxy("vless", IfEnabled(c))
TrojanOutbound    == Proxy("trojan", "tls")
RealityOutbound   == Proxy("vless", "reality")
WireGuardOutbound == Proxy("wireguard", "none")
Socks5Outbound    == Proxy("socks", "none")

\* buildOutbound returns an error.
NoOutbound == Proxy("none", "none")

\* The outbounds xray-core has.
XrayOutbounds == {"shadowsocks", "vmess", "vless", "trojan", "wireguard",
                  "socks"}

\* Mutant: every protocol is passed on by its name.
PassesOn(c) == Proxy(c.protocol, IfEnabled(c))

Outbound(c) ==
    CASE c.protocol = "ss"        -> SSOutbound
      [] c.protocol = "vmess"     -> VMessOutbound(c)
      [] c.protocol = "vless"     -> VLessOutbound(c)
      [] c.protocol = "trojan"    -> TrojanOutbound
      [] c.protocol = "reality"   -> RealityOutbound
      [] c.protocol = "wireguard" -> WireGuardOutbound
      [] c.protocol = "socks5"    -> Socks5Outbound
      [] OTHER                    -> NoOutbound
=============================================================================
