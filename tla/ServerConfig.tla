---------------------------- MODULE ServerConfig ----------------------------
(***************************************************************************)
(* internal/config: what Validate accepts of a decoded configuration and   *)
(* the files it names, and what Convert makes of it for sing-box.          *)
(*                                                                         *)
(* A configuration is a record with the protocols it enables as a function *)
(* .on from protocol to that protocol's settings.  A directory is a        *)
(* function from file name to file.  Names of hosts are members of Name,   *)
(* told apart by how they parse; a UUID or password is a number, 0 for one *)
(* that is malformed or too short; texts of errors are left out, so that a *)
(* check is a predicate.  Sizes of files and the JSON itself are not       *)
(* modelled: a config.json without a configuration stands for every file   *)
(* that Decode refuses.                                                    *)
(***************************************************************************)
EXTENDS Integers, FiniteSets, Sequences

CONSTANTS
  Name,     \* host names and addresses
  DNS,      \* those that are DNS names
  IP,       \* the IP literals, those with a zone included
  Zoned,    \* the IP literals with a zone, which net.ParseIP refuses
  Unrooted, \* a name without the dot at its end
  File,     \* the names of files in a directory
  None      \* no file, no name

ASSUME NameAssumption ==
  /\ DNS \subseteq Name /\ IP \subseteq Name /\ Zoned \subseteq IP
  /\ DNS \cap IP = {}
  /\ Unrooted \in [Name -> Name]
  /\ \A n \in DNS : Unrooted[n] \in DNS
  /\ \A n \in Name : Unrooted[Unrooted[n]] = Unrooted[n]

Protocols == {"reality", "hy2", "anytls"}
TLSProtocols == {"hy2", "anytls"}

\* The order in which Validate and Convert take them.
Order == [p \in Protocols |-> CASE p = "reality" -> 1 [] p = "hy2" -> 2 [] p = "anytls" -> 3]

-----------------------------------------------------------------------------
(* Files.                                                                  *)

NoFile == [kind |-> "none", mode |-> {}, data |-> [nothing |-> TRUE]]

Regular(mode, data) == [kind |-> "regular", mode |-> mode, data |-> data]

\* The permissions checkPermissions looks at, and the others do not matter:
\* 0600 has none of them and 0644 lets others read.
Private == {}
Public  == {"other read"}

filePrivateKey  == "private key"
fileConfig      == "config"
fileCertificate == "certificate"

checkPermissions(mode, kind) ==
  /\ kind = filePrivateKey => "other read" \notin mode
  /\ kind # fileCertificate => {"group write", "other write"} \cap mode = {}
  /\ kind = fileCertificate => "other write" \notin mode

checkFile(dir, path, kind) ==
  /\ path \in File
  /\ dir[path].kind = "regular"
  /\ checkPermissions(dir[path].mode, kind)

\* DecodeFile: a regular config.json that no one else can write.
DecodeFile(dir) ==
  /\ checkFile(dir, "config.json", fileConfig)
  /\ "on" \in DOMAIN dir["config.json"].data

Config(dir) == dir["config.json"].data

-----------------------------------------------------------------------------
(* Validate.                                                               *)

\* netip.ParseAddr, validDNSName and validUUID, by what they tell apart.
isIPAddress(name)   == name \in IP
validDNSName(name)  == name \in DNS
validCredential(id) == id > 0

LogLevel(c) == IF c.level = "" THEN "warn" ELSE c.level

Earlier(c, p) == {q \in DOMAIN c.on : Order[q] < Order[p]}

\* A port, and one that a service without privileges can listen at.
MaxPort  == 65535
Port     == 1..MaxPort
UserPort == 1024..MaxPort

\* Variant: there is no upper limit.
validatePortFrom(c, p) ==
  /\ c.on[p].port >= 1024
  /\ \A q \in Earlier(c, p) : c.on[q].port # c.on[p].port

\* The ports map has the ports of every protocol, whatever its transport.
validatePort(c, p) ==
  /\ c.on[p].port \in UserPort
  /\ \A q \in Earlier(c, p) : c.on[q].port # c.on[p].port

uniqueCredential(c, p) == \A q \in Earlier(c, p) : c.on[q].cred # c.on[p].cred

\* Unset is an optional field that is missing.
Unset == -1
validateBandwidth(v) == v # Unset => v \in 1..10000

readRealityPrivateKey(dir, path) ==
  /\ "private" \in DOMAIN dir[path].data
  /\ dir[path].data.private > 0

\* tls.LoadX509KeyPair: the key's public half is the certificate's.
LoadX509KeyPair(dir, cert, key) ==
  /\ "cert" \in DOMAIN dir[cert].data
  /\ "pair" \in DOMAIN dir[key].data
  /\ dir[cert].data.cert = dir[key].data.pair

validateTLSFiles(dir, s) ==
  /\ checkFile(dir, s.certificate, fileCertificate)
  /\ checkFile(dir, s.key, filePrivateKey)
  /\ LoadX509KeyPair(dir, s.certificate, s.key)

validateInbound(c, p) ==
  /\ isIPAddress(c.on[p].listen)
  /\ validatePort(c, p)
  /\ validCredential(c.on[p].cred)
  /\ uniqueCredential(c, p)

validateVLESSReality(dir, c) ==
  LET s == c.on["reality"] IN
  /\ validateInbound(c, "reality")
  /\ checkFile(dir, s.key, filePrivateKey)
  /\ readRealityPrivateKey(dir, s.key)
  /\ s.shortID > 0
  /\ validDNSName(s.serverName) /\ ~isIPAddress(s.serverName)
  /\ validDNSName(s.host) \/ isIPAddress(s.host)
  /\ s.hostPort \in Port

validateHysteria2(dir, c) ==
  /\ validateInbound(c, "hy2")
  /\ validateBandwidth(c.on["hy2"].up)
  /\ validateBandwidth(c.on["hy2"].down)
  /\ validateTLSFiles(dir, c.on["hy2"])

validateAnyTLS(dir, c) ==
  /\ validateInbound(c, "anytls")
  /\ validateTLSFiles(dir, c.on["anytls"])

Validate(dir, c) ==
  /\ c.schema = 1
  /\ LogLevel(c) \in {"warn", "error"}
  /\ DOMAIN c.on # {}
  /\ "reality" \in DOMAIN c.on => validateVLESSReality(dir, c)
  /\ "hy2" \in DOMAIN c.on => validateHysteria2(dir, c)
  /\ "anytls" \in DOMAIN c.on => validateAnyTLS(dir, c)

\* What check, run, deliver and renew-certificate begin with.
Accepted(dir) == DecodeFile(dir) /\ Validate(dir, Config(dir))

-----------------------------------------------------------------------------
(* Convert, and sing-box.                                                  *)

Tag == [p \in Protocols |-> CASE p = "reality" -> "vless-reality" [] p = "hy2" -> "hysteria2"
                              [] p = "anytls" -> "anytls"]

\* uint16(port) keeps sixteen bits; MustParseAddr panics on anything but an IP.
uint16(n) == n % (MaxPort + 1)

Inbound(dir, c, p) ==
  [tag |-> Tag[p], listen |-> c.on[p].listen, port |-> uint16(c.on[p].port), user |-> c.on[p].cred,
   hostPort |-> IF p = "reality" THEN uint16(c.on[p].hostPort) ELSE Unset,
   secret |-> dir[c.on[p].key].data,
   certificate |-> IF p = "reality" THEN NoFile.data ELSE dir[c.on[p].certificate].data]

Convert(dir, c) == {Inbound(dir, c, p) : p \in DOMAIN c.on}

\* hysteria2 is QUIC; the two others are TCP.
Transport(inbound) == IF inbound.tag = "hysteria2" THEN "udp" ELSE "tcp"

\* A Reality key that decodes, or a certificate with its key, as sing-box reads
\* them from the paths it is given.
HasIdentity(i) ==
  IF i.tag = "vless-reality"
    THEN "private" \in DOMAIN i.secret /\ i.secret.private > 0
    ELSE /\ "cert" \in DOMAIN i.certificate /\ "pair" \in DOMAIN i.secret
         /\ i.certificate.cert = i.secret.pair

\* What box.New and Start need of their options.
BoxStarts(inbounds) ==
  /\ \A i \in inbounds : i.listen \in IP /\ i.port # 0 /\ i.hostPort # 0 /\ HasIdentity(i)
  /\ \A i, j \in inbounds : i # j => i.tag # j.tag
                                     /\ (Transport(i) = Transport(j) => i.port # j.port)
=============================================================================
