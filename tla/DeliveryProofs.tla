--------------------------- MODULE DeliveryProofs ---------------------------
(***************************************************************************)
(* Proofs about ServerConfig and Delivery, for every set of command lines, *)
(* edits and replaced files: what check accepts can be started, generate   *)
(* writes nothing that Validate refuses, and what a command delivers       *)
(* authenticates the server and is repeated by a renewal.                  *)
(*                                                                         *)
(* Directory says what every file of a directory can be (IsFile), of which *)
(* the argument needs two things: no key or certificate of an accepted     *)
(* configuration is under a name that deliver writes, and the Reality key  *)
(* is not one of the files that a renewal replaces.  Delivers adds to      *)
(* DeliveredWorks what a renewal relies on: no delivered port is zero, the *)
(* value that would mean the listening port.                               *)
(***************************************************************************)
EXTENDS Delivery, TLAPS

-----------------------------------------------------------------------------
(* Functions, files and what is delivered.                                 *)

LEMMA WithDomain ==
  ASSUME NEW f, NEW g
  PROVE  DOMAIN With(f, g) = DOMAIN f \cup DOMAIN g
BY DEF With

LEMMA WithFirst ==
  ASSUME NEW f, NEW g, NEW x \in DOMAIN f
  PROVE  With(f, g)[x] = f[x]
BY DEF With

LEMMA WithSecond ==
  ASSUME NEW f, NEW g, NEW x \in DOMAIN g, x \notin DOMAIN f
  PROVE  With(f, g)[x] = g[x]
BY DEF With

LEMMA WrittenFile ==
  ASSUME NEW d, NEW files, NEW f \in File
  PROVE  /\ f \in DOMAIN files => Written(d, files)[f] = files[f]
         /\ f \notin DOMAIN files => Written(d, files)[f] = d[f]
BY DEF Written

LEMMA Ordered ==
  /\ \A p \in Protocols : Order[p] \in 1..3
  /\ \A p, q \in Protocols : p # q => Order[p] # Order[q]
BY DEF Order, Protocols

LEMMA RegularFile ==
  ASSUME NEW m, NEW x
  PROVE  /\ Regular(m, x).kind = "regular" /\ Regular(m, x).mode = m /\ Regular(m, x).data = x
         /\ Regular(m, x) = [kind |-> "regular", mode |-> m, data |-> x]
BY DEF Regular

\* The files that carry a protocol to its clients.
LEMMA Shares ==
  /\ ShareFile["reality"] = {"share-reality.txt"}
  /\ ShareFile["hy2"] = {"share-hysteria2.txt"}
  /\ ShareFile["anytls"] = {"client-anytls", "share-anytls-v2rayn.txt"}
BY DEF ShareFile, Protocols


LEMMA Deliverable ==
  ASSUME NEW info
  PROVE  DOMAIN DeliveryFiles(info) = (UNION {ShareFile[p] : p \in DOMAIN info.on})
           \cup (IF info.insecure THEN {"share-anytls.txt"} ELSE {})
BY DEF DeliveryFiles

LEMMA DeliveredSet ==
  ASSUME NEW info, DOMAIN info.on \subseteq Protocols
  PROVE  DOMAIN DeliveryFiles(info) \subseteq RENEWAL_FILES \ {"tls.crt", "tls.key", "client-info.json"}
<1>1. \A p \in Protocols : ShareFile[p] \subseteq RENEWAL_FILES \ {"tls.crt", "tls.key", "client-info.json"}
  BY Shares DEF Protocols, RENEWAL_FILES
<1>2. "share-anytls.txt" \in RENEWAL_FILES \ {"tls.crt", "tls.key", "client-info.json"}
  BY DEF RENEWAL_FILES
<1>3. UNION {ShareFile[p] : p \in DOMAIN info.on}
        \subseteq RENEWAL_FILES \ {"tls.crt", "tls.key", "client-info.json"}
  BY <1>1
<1>4. (IF info.insecure THEN {"share-anytls.txt"} ELSE {}) \subseteq {"share-anytls.txt"}
  OBVIOUS
<1> QED  BY <1>2, <1>3, <1>4, Deliverable

\* What a delivery file holds, and which of them carry the settings of p.
LEMMA DeliveredFile ==
  ASSUME NEW info, NEW f \in DOMAIN DeliveryFiles(info)
  PROVE  /\ DeliveryFiles(info)[f] = Regular(Private, DeliveryFiles(info)[f].data)
         /\ DOMAIN DeliveryFiles(info)[f].data = {"address", "share"}
BY DEF DeliveryFiles, Regular

LEMMA Shared ==
  ASSUME NEW info, DOMAIN info.on \subseteq Protocols, NEW p \in DOMAIN info.on, NEW f \in ShareFile[p]
  PROVE  /\ f \in DOMAIN DeliveryFiles(info)
         /\ DeliveryFiles(info)[f] = Regular(Private, [address |-> info.address, share |-> info.on[p]])
<1>1. f \in DOMAIN DeliveryFiles(info)
  BY Deliverable
<1>2. f # "share-anytls.txt" /\ \A q \in Protocols : f \in ShareFile[q] => q = p
  BY Shares DEF Protocols
<1>3. (CHOOSE q \in DOMAIN info.on : f \in ShareFile[q]) = p
  BY <1>2
<1>4. f \in (UNION {ShareFile[q] : q \in DOMAIN info.on})
             \cup (IF info.insecure THEN {"share-anytls.txt"} ELSE {})
  BY <1>1, Deliverable
<1> QED  BY <1>1, <1>2, <1>3, <1>4 DEF DeliveryFiles

-----------------------------------------------------------------------------
(* What Validate accepts, and what clients are told.                       *)

LEMMA Valid ==
  ASSUME NEW d, NEW c, DOMAIN c.on \subseteq Protocols, Validate(d, c), NEW p \in DOMAIN c.on
  PROVE  /\ validateInbound(c, p)
         /\ p = "reality" => validateVLESSReality(d, c)
         /\ p \in TLSProtocols => validateTLSFiles(d, c.on[p])
<1>1. p = "reality" \/ p = "hy2" \/ p = "anytls"
  BY DEF Protocols
<1>2. /\ p = "reality" => validateVLESSReality(d, c)
      /\ p = "hy2" => validateHysteria2(d, c)
      /\ p = "anytls" => validateAnyTLS(d, c)
  BY Zenon DEF Validate
<1>3. CASE p = "reality"
  BY <1>2, <1>3 DEF validateVLESSReality, TLSProtocols
<1>4. CASE p = "hy2"
  BY <1>2, <1>4 DEF validateHysteria2
<1>5. CASE p = "anytls"
  BY <1>2, <1>5 DEF validateAnyTLS
<1> QED  BY <1>1, <1>3, <1>4, <1>5

LEMMA Apart ==
  ASSUME NEW d, NEW c, DOMAIN c.on \subseteq Protocols, Validate(d, c),
         NEW p \in DOMAIN c.on, NEW q \in DOMAIN c.on, p # q
  PROVE  c.on[p].port # c.on[q].port
<1>1. validatePort(c, p) /\ validatePort(c, q)
  BY Valid DEF validateInbound
<1>2. Order[p] \in 1..3 /\ Order[q] \in 1..3 /\ Order[p] # Order[q]
  BY Ordered
<1>3. p \in Earlier(c, q) \/ q \in Earlier(c, p)
  BY <1>2 DEF Earlier
<1>4. /\ \A r \in Earlier(c, p) : c.on[r].port # c.on[p].port
      /\ \A r \in Earlier(c, q) : c.on[r].port # c.on[q].port
  BY <1>1, Zenon DEF validatePort
<1> QED  BY <1>3, <1>4, Zenon

LEMMA Tags ==
  \A p, q \in Protocols : p # q => Tag[p] # Tag[q]
BY DEF Tag, Protocols

LEMMA PortFits ==
  /\ \A n \in Port : uint16(n) = n /\ n # 0
  /\ UserPort \subseteq Port
<1>1. MaxPort \in Nat
  BY DEF MaxPort
<1>2. ASSUME NEW n \in Port
      PROVE  uint16(n) = n /\ n # 0
  BY <1>1 DEF Port, uint16
<1>3. UserPort \subseteq Port
  BY <1>1 DEF Port, UserPort
<1> QED  BY <1>2, <1>3

LEMMA Converted ==
  ASSUME NEW d, NEW c, NEW p \in DOMAIN c.on
  PROVE  /\ Inbound(d, c, p).tag = Tag[p]
         /\ Inbound(d, c, p).listen = c.on[p].listen
         /\ Inbound(d, c, p).port = uint16(c.on[p].port)
         /\ Inbound(d, c, p).hostPort = IF p = "reality" THEN uint16(c.on[p].hostPort) ELSE Unset
         /\ Inbound(d, c, p).secret = d[c.on[p].key].data
         /\ p # "reality" => Inbound(d, c, p).certificate = d[c.on[p].certificate].data
BY DEF Inbound

\* The key or the certificate that an inbound is given is one Validate has read.
LEMMA Identified ==
  ASSUME NEW d, NEW c, DOMAIN c.on \subseteq Protocols, Validate(d, c), NEW p \in DOMAIN c.on
  PROVE  HasIdentity(Inbound(d, c, p))
<1> DEFINE i == Inbound(d, c, p)
<1>1. i.tag = Tag[p] /\ i.secret = d[c.on[p].key].data
      /\ (p # "reality" => i.certificate = d[c.on[p].certificate].data)
  BY Converted
<1>2. CASE p = "reality"
  <2>1. readRealityPrivateKey(d, c.on[p].key)
    BY <1>2, Valid DEF validateVLESSReality
  <2>2. i.tag = "vless-reality"
    BY <1>1, <1>2 DEF Tag, Protocols
  <2> QED  BY <1>1, <2>1, <2>2 DEF HasIdentity, readRealityPrivateKey
<1>3. CASE p # "reality"
  <2>1. p \in TLSProtocols
    BY <1>3 DEF Protocols, TLSProtocols
  <2>2. LoadX509KeyPair(d, c.on[p].certificate, c.on[p].key)
    BY <2>1, Valid, Zenon DEF validateTLSFiles
  <2>3. i.tag # "vless-reality"
    BY <1>1, <1>3 DEF Tag, Protocols
  <2> QED  BY <1>1, <1>3, <2>2, <2>3 DEF HasIdentity, LoadX509KeyPair
<1> QED  BY <1>2, <1>3

LEMMA Startable ==
  ASSUME NEW d, NEW c, DOMAIN c.on \subseteq Protocols, Validate(d, c)
  PROVE  BoxStarts(Convert(d, c)) /\ AsConfigured(Convert(d, c), c)
<1>1. ASSUME NEW p \in DOMAIN c.on
      PROVE  /\ c.on[p].listen \in IP
             /\ Inbound(d, c, p).port = c.on[p].port /\ c.on[p].port \in Port
             /\ Inbound(d, c, p).hostPort # 0
             /\ p = "reality" => Inbound(d, c, p).hostPort = c.on[p].hostPort
  <2>1. c.on[p].listen \in IP /\ c.on[p].port \in Port
    BY Valid, PortFits DEF validateInbound, isIPAddress, validatePort
  <2>2. p = "reality" => c.on[p].hostPort \in Port
    BY Valid DEF validateVLESSReality
  <2> QED  BY <2>1, <2>2, PortFits, Converted DEF Unset
<1>2. ASSUME NEW i \in Convert(d, c)
      PROVE  i.listen \in IP /\ i.port # 0 /\ i.hostPort # 0 /\ HasIdentity(i)
  <2>1. PICK p \in DOMAIN c.on : i = Inbound(d, c, p)
    BY DEF Convert
  <2>2. i.listen = c.on[p].listen
    BY <2>1, Converted
  <2>3. /\ i.port = Inbound(d, c, p).port /\ i.hostPort = Inbound(d, c, p).hostPort
        /\ c.on[p].port # 0
    BY <2>1, <1>1, PortFits
  <2>4. HasIdentity(i)
    BY <2>1, Identified
  <2> QED  BY <2>2, <2>3, <2>4, <1>1
<1>3. ASSUME NEW i \in Convert(d, c), NEW j \in Convert(d, c), i # j
      PROVE  i.tag # j.tag /\ i.port # j.port
  <2>1. PICK p \in DOMAIN c.on : i = Inbound(d, c, p)
    BY DEF Convert
  <2>2. PICK q \in DOMAIN c.on : j = Inbound(d, c, q)
    BY DEF Convert
  <2>3. p # q
    BY <1>3, <2>1, <2>2
  <2>4. i.tag = Tag[p] /\ j.tag = Tag[q]
    BY <2>1, <2>2, Converted
  <2>5. i.port = c.on[p].port /\ j.port = c.on[q].port
    BY <1>1, <2>1, <2>2
  <2>6. Tag[p] # Tag[q]
    BY <2>3, Tags
  <2>7. c.on[p].port # c.on[q].port
    BY <2>3, Apart
  <2> QED  BY <2>4, <2>5, <2>6, <2>7
<1>4. BoxStarts(Convert(d, c))
  BY <1>2, <1>3 DEF BoxStarts
<1>5. ASSUME NEW p \in DOMAIN c.on
      PROVE  \E i \in Convert(d, c) :
               /\ i.tag = Tag[p] /\ i.listen = c.on[p].listen /\ i.port = c.on[p].port
               /\ p = "reality" => i.hostPort = c.on[p].hostPort
  <2>1. Inbound(d, c, p) \in Convert(d, c)
    BY DEF Convert
  <2> QED  BY <2>1, <1>1, Converted
<1> QED  BY <1>4, <1>5 DEF AsConfigured

\* What clients are told.
LEMMA Informed ==
  ASSUME NEW on, NEW address, NEW public, NEW insecure \in BOOLEAN
  PROVE  /\ ClientInfo(on, address, public, insecure).address = address
         /\ ClientInfo(on, address, public, insecure).insecure = (insecure /\ "anytls" \in DOMAIN on)
         /\ DOMAIN ClientInfo(on, address, public, insecure).on = DOMAIN on
         /\ \A p \in DOMAIN on :
              ClientInfo(on, address, public, insecure).on[p] =
                [on[p] EXCEPT !.port = PublicPort(on, public, p)]
BY DEF ClientInfo

\* A client knows a port, a credential and a name of p, and of TLS the pin.
IsClient(p, i) ==
  /\ {"port", "cred", "name"} \subseteq DOMAIN i
  /\ p = "reality" => {"public", "shortID"} \subseteq DOMAIN i
  /\ p # "reality" => "pin" \in DOMAIN i

LEMMA Repeated ==
  ASSUME NEW p, NEW i, IsClient(p, i), NEW n
  PROVE  /\ IsClient(p, [i EXCEPT !.port = n])
         /\ [i EXCEPT !.port = n].port = n
         /\ [i EXCEPT !.port = n].cred = i.cred
         /\ [i EXCEPT !.port = n].name = i.name
         /\ p = "reality" => /\ [i EXCEPT !.port = n].public = i.public
                             /\ [i EXCEPT !.port = n].shortID = i.shortID
         /\ p # "reality" => [i EXCEPT !.port = n].pin = i.pin
BY DEF IsClient

LEMMA Existing ==
  ASSUME NEW d, NEW c, NEW crt, NEW p \in DOMAIN c.on
  PROVE  /\ DOMAIN ExistingClient(d, c, crt) = DOMAIN c.on
         /\ IsClient(p, ExistingClient(d, c, crt)[p])
         /\ ExistingClient(d, c, crt)[p].port = c.on[p].port
         /\ ExistingClient(d, c, crt)[p].cred = c.on[p].cred
         /\ p = "reality" => /\ ExistingClient(d, c, crt)[p].public = d[c.on[p].key].data.private
                             /\ ExistingClient(d, c, crt)[p].shortID = c.on[p].shortID
                             /\ ExistingClient(d, c, crt)[p].name = c.on[p].serverName
         /\ p # "reality" => /\ ExistingClient(d, c, crt)[p].pin = crt[p].cert
                             /\ ExistingClient(d, c, crt)[p].name = crt[p].san
BY DEF ExistingClient, With, IsClient

LEMMA Generated ==
  ASSUME NEW o, NEW g, NEW p \in ToSet(o.protocols)
  PROVE  /\ DOMAIN GeneratedClient(o, g) = ToSet(o.protocols)
         /\ IsClient(p, GeneratedClient(o, g)[p])
         /\ GeneratedClient(o, g)[p].port = o.port[p]
         /\ GeneratedClient(o, g)[p].cred = NewCredential(g, p)
         /\ p = "reality" => /\ GeneratedClient(o, g)[p].public = g
                             /\ GeneratedClient(o, g)[p].shortID = g
                             /\ GeneratedClient(o, g)[p].name = o.serverName
         /\ p # "reality" => /\ GeneratedClient(o, g)[p].pin = g
                             /\ GeneratedClient(o, g)[p].name = o.san
BY DEF GeneratedClient, With, IsClient

-----------------------------------------------------------------------------
(* The files of a directory.                                               *)

\* Every file is what a file of its name can be.
Directory == dir = [f \in File |-> dir[f]] /\ \A f \in File : IsFile(f, dir[f])

LEMMA Names ==
  /\ RENEWAL_FILES \subseteq File /\ "config.json" \in File /\ "reality.key" \in File
  /\ {"tls.crt", "tls.key", "client-info.json"} \subseteq RENEWAL_FILES
  /\ "client-info.json" \in DeliveredNames
  /\ {"config.json", "reality.key"} \cap RENEWAL_FILES = {}
  /\ DeliveredNames = RENEWAL_FILES \ {"tls.crt", "tls.key"}
<1>1. RENEWAL_FILES \cup {"config.json", "reality.key"} \subseteq File
  BY DeliveryAssumption, Zenon
<1>2. (UNION {ShareFile[p] : p \in Protocols})
        = {"client-anytls", "share-reality.txt", "share-hysteria2.txt", "share-anytls-v2rayn.txt"}
  BY Shares DEF Protocols
<1>3. DeliveredNames = RENEWAL_FILES \ {"tls.crt", "tls.key"}
  BY <1>2 DEF RENEWAL_FILES, DeliveredNames
<1> QED  BY <1>1, <1>3 DEF RENEWAL_FILES

LEMMA NoFileIsFile ==
  ASSUME NEW f
  PROVE  IsFile(f, NoFile)
<1>1. DOMAIN NoFile.data = {"nothing"} /\ NoFile.kind = "none"
  BY DEF NoFile
<1> QED  BY <1>1 DEF IsFile

\* IsFile, of what the commands write.
LEMMA RegularIsFile ==
  ASSUME NEW f, NEW m, NEW x,
         f = "config.json" /\ "on" \in DOMAIN x => DOMAIN x.on \subseteq Protocols,
         f = "client-info.json" => DOMAIN x.info.on \subseteq Protocols,
         "cert" \in DOMAIN x => x.san \in Name /\ Unrooted[x.san] = x.san,
         "private" \in DOMAIN x => {"cert", "pair"} \cap DOMAIN x = {},
         f \in {"config.json"} \cup DeliveredNames => {"private", "cert", "pair"} \cap DOMAIN x = {}
  PROVE  IsFile(f, Regular(m, x))
<1>1. /\ Regular(m, x).kind = "regular" /\ Regular(m, x).data = x
      /\ Regular(m, x) =
           [kind |-> Regular(m, x).kind, mode |-> Regular(m, x).mode, data |-> Regular(m, x).data]
  BY DEF Regular
<1> QED  BY <1>1, Names DEF IsFile

LEMMA PlainFile ==
  ASSUME NEW f, NEW m, NEW x, {"private", "cert", "pair", "on"} \cap DOMAIN x = {}, f # "client-info.json"
  PROVE  IsFile(f, Regular(m, x))
BY RegularIsFile

LEMMA InfoIsFile ==
  ASSUME NEW info, DOMAIN info.on \subseteq Protocols
  PROVE  IsFile("client-info.json", Regular(Private, [info |-> info]))
<1> DEFINE x == [info |-> info]
<1>1. DOMAIN x = {"info"} /\ x.info = info
  OBVIOUS
<1> HIDE DEF x
<1>2. IsFile("client-info.json", Regular(Private, x))
  BY <1>1, RegularIsFile
<1> QED  BY <1>2 DEF x

LEMMA DeliveredIsFile ==
  ASSUME NEW info, DOMAIN info.on \subseteq Protocols, NEW f \in DOMAIN DeliveryFiles(info)
  PROVE  IsFile(f, DeliveryFiles(info)[f])
<1>1. f # "client-info.json"
  BY DeliveredSet
<1> QED  BY <1>1, DeliveredFile, PlainFile

LEMMA TLSIsFile ==
  ASSUME NEW g, NEW san \in Name, NEW f \in {"tls.crt", "tls.key"}
  PROVE  /\ IsFile(f, TLSFiles(g, san)[f])
         /\ DOMAIN TLSFiles(g, san) = {"tls.crt", "tls.key"}
         /\ TLSFiles(g, san)["tls.crt"] = Regular(Public, [cert |-> g, san |-> Unrooted[san]])
         /\ TLSFiles(g, san)["tls.key"] = Regular(Private, [pair |-> g])
<1>1. /\ DOMAIN TLSFiles(g, san) = {"tls.crt", "tls.key"}
      /\ TLSFiles(g, san)["tls.crt"] = Regular(Public, [cert |-> g, san |-> Unrooted[san]])
      /\ TLSFiles(g, san)["tls.key"] = Regular(Private, [pair |-> g])
  BY DEF TLSFiles
<1> DEFINE x == [cert |-> g, san |-> Unrooted[san]]
           y == [pair |-> g]
<1>2. DOMAIN x = {"cert", "san"} /\ x.san = Unrooted[san] /\ DOMAIN y = {"pair"}
  OBVIOUS
<1>3. Unrooted[san] \in Name /\ Unrooted[Unrooted[san]] = Unrooted[san]
  BY NameAssumption
<1> HIDE DEF x, y
<1>4. "tls.crt" \notin {"config.json"} \cup DeliveredNames /\ "tls.key" \notin {"config.json"} \cup DeliveredNames
  BY Names
<1>5. IsFile("tls.crt", Regular(Public, x))
  BY <1>2, <1>3, <1>4, RegularIsFile
<1>6. IsFile("tls.key", Regular(Private, y))
  BY <1>2, <1>4, RegularIsFile
<1> QED  BY <1>1, <1>5, <1>6 DEF x, y

LEMMA KeyIsFile ==
  ASSUME NEW g
  PROVE  IsFile("reality.key", Regular(Private, [private |-> g]))
<1> DEFINE x == [private |-> g]
<1>1. DOMAIN x = {"private"} /\ "reality.key" \notin {"config.json"} \cup DeliveredNames
  BY Names
<1> HIDE DEF x
<1>2. IsFile("reality.key", Regular(Private, x))
  BY <1>1, RegularIsFile
<1> QED  BY <1>2 DEF x

LEMMA ConfigIsFile ==
  ASSUME NEW c, DOMAIN c \subseteq {"schema", "level", "on"}, DOMAIN c.on \subseteq Protocols
  PROVE  IsFile("config.json", Regular(Private, c))
BY RegularIsFile

LEMMA ConfigTyped ==
  ASSUME Directory, DecodeFile(dir)
  PROVE  DOMAIN Config(dir).on \subseteq Protocols
BY Names DEF Directory, DecodeFile, Config, IsFile

\* What keeps a configuration acceptable when other files change.
LEMMA StillAccepted ==
  ASSUME NEW d, NEW e, Accepted(d), DOMAIN Config(d).on \subseteq Protocols,
         e["config.json"] = d["config.json"],
         "reality" \in DOMAIN Config(d).on =>
           e[Config(d).on["reality"].key] = d[Config(d).on["reality"].key],
         \A p \in DOMAIN Config(d).on \cap TLSProtocols : validateTLSFiles(e, Config(d).on[p])
  PROVE  Accepted(e) /\ Config(e) = Config(d)
<1> DEFINE c == Config(d)
<1>1. Config(e) = c
  BY DEF Config
<1>2. DecodeFile(e)
  BY DEF Accepted, DecodeFile, checkFile
<1>3. Validate(d, c)
  BY DEF Accepted
<1> HIDE DEF c
<1>4. "reality" \in DOMAIN c.on => validateVLESSReality(e, c)
  <2>1. HAVE "reality" \in DOMAIN c.on
  <2>2. validateVLESSReality(d, c)
    BY <1>3, <2>1, Zenon DEF Validate
  <2>3. e[c.on["reality"].key] = d[c.on["reality"].key]
    BY <2>1 DEF c
  <2>4. checkFile(d, c.on["reality"].key, filePrivateKey) /\ readRealityPrivateKey(d, c.on["reality"].key)
    BY <2>2, Zenon DEF validateVLESSReality
  <2>5. checkFile(e, c.on["reality"].key, filePrivateKey) /\ readRealityPrivateKey(e, c.on["reality"].key)
    BY <2>3, <2>4, Zenon DEF checkFile, readRealityPrivateKey
  <2> QED  BY <2>2, <2>5, Zenon DEF validateVLESSReality
<1>5. "hy2" \in DOMAIN c.on => validateHysteria2(e, c)
  <2>1. HAVE "hy2" \in DOMAIN c.on
  <2>2. validateHysteria2(d, c)
    BY <1>3, <2>1, Zenon DEF Validate
  <2>3. validateTLSFiles(e, c.on["hy2"])
    BY <2>1 DEF c, TLSProtocols
  <2> QED  BY <2>2, <2>3, Zenon DEF validateHysteria2
<1>6. "anytls" \in DOMAIN c.on => validateAnyTLS(e, c)
  <2>1. HAVE "anytls" \in DOMAIN c.on
  <2>2. validateAnyTLS(d, c)
    BY <1>3, <2>1, Zenon DEF Validate
  <2>3. validateTLSFiles(e, c.on["anytls"])
    BY <2>1 DEF c, TLSProtocols
  <2> QED  BY <2>2, <2>3, Zenon DEF validateAnyTLS
<1>7. Validate(e, c)
  BY <1>3, <1>4, <1>5, <1>6, Zenon DEF Validate
<1> QED  BY <1>1, <1>2, <1>7 DEF Accepted, c

-----------------------------------------------------------------------------
(* Where the keys of an accepted configuration are.                        *)

LEMMA RealityKey ==
  ASSUME Directory, Accepted(dir), "reality" \in DOMAIN Config(dir).on
  PROVE  /\ Config(dir).on["reality"].key \in File \ DeliveredNames
         /\ "private" \in DOMAIN dir[Config(dir).on["reality"].key].data
         /\ readRealityPrivateKey(dir, Config(dir).on["reality"].key)
<1> DEFINE c == Config(dir)
           k == c.on["reality"].key
<1>1. Validate(dir, c)
  BY DEF Accepted
<1>2. validateVLESSReality(dir, c)
  BY <1>1, Zenon DEF Validate
<1>3. checkFile(dir, k, filePrivateKey) /\ readRealityPrivateKey(dir, k)
  BY <1>2, Zenon DEF validateVLESSReality
<1> HIDE DEF k
<1>4. k \in File /\ "private" \in DOMAIN dir[k].data
  BY <1>3, Zenon DEF checkFile, readRealityPrivateKey
<1>5. IsFile(k, dir[k])
  BY <1>4, Zenon DEF Directory
<1>6. k \notin DeliveredNames
  BY <1>4, <1>5, Names DEF IsFile
<1> QED  BY <1>3, <1>4, <1>6 DEF k

LEMMA TLSMaterial ==
  ASSUME Directory, Accepted(dir), NEW p \in DOMAIN Config(dir).on \cap TLSProtocols
  PROVE  /\ {Config(dir).on[p].certificate, Config(dir).on[p].key} \subseteq File \ DeliveredNames
         /\ "cert" \in DOMAIN dir[Config(dir).on[p].certificate].data
         /\ "pair" \in DOMAIN dir[Config(dir).on[p].key].data
         /\ validateTLSFiles(dir, Config(dir).on[p])
<1> DEFINE c == Config(dir)
           f == c.on[p].certificate
           k == c.on[p].key
<1>1. Validate(dir, c) /\ DOMAIN c.on \subseteq Protocols
  BY ConfigTyped DEF Accepted
<1>2. validateTLSFiles(dir, c.on[p])
  BY <1>1, Valid
<1>3. checkFile(dir, f, fileCertificate) /\ checkFile(dir, k, filePrivateKey) /\ LoadX509KeyPair(dir, f, k)
  BY <1>2, Zenon DEF validateTLSFiles
<1> HIDE DEF f, k
<1>4. f \in File /\ k \in File /\ "cert" \in DOMAIN dir[f].data /\ "pair" \in DOMAIN dir[k].data
  BY <1>3, Zenon DEF checkFile, LoadX509KeyPair
<1>5. IsFile(f, dir[f]) /\ IsFile(k, dir[k])
  BY <1>4, Zenon DEF Directory
<1>6. f \notin DeliveredNames /\ k \notin DeliveredNames
  BY <1>4, <1>5, Names DEF IsFile
<1> QED  BY <1>2, <1>4, <1>6 DEF f, k

\* No file is a Reality key and TLS material at once.
LEMMA RealityKeyApart ==
  ASSUME Directory, Accepted(dir), "reality" \in DOMAIN Config(dir).on,
         DOMAIN Config(dir).on \cap TLSProtocols # {}, validateManagedTLSPaths(Config(dir))
  PROVE  Config(dir).on["reality"].key \in File \ RENEWAL_FILES
<1> DEFINE k == Config(dir).on["reality"].key
<1>1. k \in File \ DeliveredNames /\ "private" \in DOMAIN dir[k].data
  BY RealityKey
<1>2. PICK p \in DOMAIN Config(dir).on \cap TLSProtocols : TRUE
  OBVIOUS
<1>3. Config(dir).on[p].certificate = "tls.crt" /\ Config(dir).on[p].key = "tls.key"
  BY <1>2, Zenon DEF validateManagedTLSPaths
<1>4. "cert" \in DOMAIN dir["tls.crt"].data /\ "pair" \in DOMAIN dir["tls.key"].data
  BY <1>2, <1>3, TLSMaterial
<1> HIDE DEF k
<1>5. IsFile(k, dir[k])
  BY <1>1, Zenon DEF Directory
<1>6. k # "tls.crt" /\ k # "tls.key"
  BY <1>1, <1>4, <1>5 DEF IsFile
<1> QED  BY <1>1, <1>6, Names DEF k

\* The name in a certificate.
LEMMA CertificateName ==
  ASSUME Directory, NEW f \in File, "cert" \in DOMAIN dir[f].data, dir[f].data.san # None
  PROVE  dir[f].data.san \in Name /\ Unrooted[dir[f].data.san] = dir[f].data.san
<1>1. IsFile(f, dir[f])
  BY Zenon DEF Directory
<1> QED  BY <1>1, Zenon DEF IsFile

\* d is a directory whose clients were told info.
Tells(d, info) ==
  /\ d["client-info.json"] = Regular(Private, [info |-> info])
  /\ info.address # None => \A f \in DOMAIN DeliveryFiles(info) : d[f] = DeliveryFiles(info)[f]

LEMMA Told ==
  ASSUME NEW d, NEW info, Tells(d, info)
  PROVE  /\ d["client-info.json"].kind = "regular" /\ Info(d) = info
         /\ DOMAIN info.on \subseteq Protocols /\ info.address # None =>
              \A p \in DOMAIN info.on : \A f \in ShareFile[p] :
                d[f].data = [address |-> info.address, share |-> info.on[p]]
<1>1. d["client-info.json"].kind = "regular" /\ Info(d) = info
  <2> DEFINE x == [info |-> info]
  <2>1. d["client-info.json"] = Regular(Private, x) /\ x.info = info
    BY DEF Tells
  <2> HIDE DEF x
  <2> QED  BY <2>1, RegularFile DEF Info
<1>2. ASSUME DOMAIN info.on \subseteq Protocols, info.address # None,
             NEW p \in DOMAIN info.on, NEW f \in ShareFile[p]
      PROVE  d[f].data = [address |-> info.address, share |-> info.on[p]]
  <2> DEFINE x == [address |-> info.address, share |-> info.on[p]]
  <2>1. f \in DOMAIN DeliveryFiles(info) /\ DeliveryFiles(info)[f] = Regular(Private, x)
    BY <1>2, Shared
  <2> HIDE DEF x
  <2>2. d[f] = Regular(Private, x)
    BY <1>2, <2>1, Zenon DEF Tells
  <2>3. d[f].data = x
    BY <2>2, RegularFile
  <2> QED  BY <2>3 DEF x
<1> QED  BY <1>1, <1>2

-----------------------------------------------------------------------------
(* The directory that deliver and a renewal leave.                         *)

LEMMA Writing ==
  ASSUME Directory, NEW files, DOMAIN files \subseteq File, \A f \in DOMAIN files : IsFile(f, files[f])
  PROVE  /\ Written(dir, files) = [f \in File |-> Written(dir, files)[f]]
         /\ \A f \in File : IsFile(f, Written(dir, files)[f])
<1>1. Written(dir, files) = [f \in File |-> Written(dir, files)[f]]
  BY DEF Written
<1>2. ASSUME NEW f \in File
      PROVE  IsFile(f, Written(dir, files)[f])
  <2>1. CASE f \in DOMAIN files
    BY <2>1, WrittenFile
  <2>2. CASE f \notin DOMAIN files
    BY <2>2, WrittenFile DEF Directory
  <2> QED  BY <2>1, <2>2
<1> QED  BY <1>1, <1>2

LEMMA Announcement ==
  ASSUME NEW info, DOMAIN info.on \subseteq Protocols
  PROVE  /\ DOMAIN With(InfoFile(info), DeliveryFiles(info)) \subseteq DeliveredNames
         /\ \A f \in DOMAIN With(InfoFile(info), DeliveryFiles(info)) :
              IsFile(f, With(InfoFile(info), DeliveryFiles(info))[f])
         /\ Tells(Written(dir, With(InfoFile(info), DeliveryFiles(info))), info)
<1> DEFINE new == With(InfoFile(info), DeliveryFiles(info))
<1>1. /\ DOMAIN InfoFile(info) = {"client-info.json"}
      /\ InfoFile(info)["client-info.json"] = Regular(Private, [info |-> info])
  BY DEF InfoFile
<1>2. DOMAIN DeliveryFiles(info) \subseteq DeliveredNames \ {"client-info.json"}
  BY DeliveredSet, Names
<1>3. DOMAIN new = {"client-info.json"} \cup DOMAIN DeliveryFiles(info)
  BY <1>1, WithDomain
<1>4. new["client-info.json"] = Regular(Private, [info |-> info])
  BY <1>1, WithFirst
<1>5. ASSUME NEW f \in DOMAIN DeliveryFiles(info)
      PROVE  new[f] = DeliveryFiles(info)[f]
  BY <1>1, <1>2, WithSecond
<1> HIDE DEF new
<1>6. DOMAIN new \subseteq DeliveredNames /\ DeliveredNames \subseteq File
  BY <1>2, <1>3, Names
<1>7. \A f \in DOMAIN new : IsFile(f, new[f])
  BY <1>3, <1>4, <1>5, InfoIsFile, DeliveredIsFile
<1>8. /\ Written(dir, new)["client-info.json"] = Regular(Private, [info |-> info])
      /\ \A f \in DOMAIN DeliveryFiles(info) : Written(dir, new)[f] = DeliveryFiles(info)[f]
  BY <1>3, <1>4, <1>5, <1>6, WrittenFile
<1> QED  BY <1>6, <1>7, <1>8 DEF Tells, new

\* What deliver tells, and what a renewal reads and tells.
DeliverInfo(o) == ClientInfo(DeliveredClient(dir), o.address, o.public, o.insecure)

LEMMA DeliveredDomain ==
  DOMAIN DeliveredClient(dir) = DOMAIN Config(dir).on
BY DEF DeliveredClient, ExistingClient

LEMMA DeliverStep ==
  ASSUME Directory, NEW o \in DeliverOptions, Deliver(o)
  PROVE  /\ DOMAIN DeliverInfo(o).on = DOMAIN Config(dir).on /\ DOMAIN Config(dir).on \subseteq Protocols
         /\ o.insecure \in BOOLEAN
         /\ Tells(dir', DeliverInfo(o))
         /\ dir' = [f \in File |-> dir'[f]] /\ \A f \in File : IsFile(f, dir'[f])
         /\ \A f \in File \ DeliveredNames : dir'[f] = dir[f]
<1> DEFINE info == DeliverInfo(o)
           files == With(InfoFile(info), DeliveryFiles(info))
<1>1. o.insecure \in BOOLEAN
  BY DeliveryAssumption, Zenon
<1>2. DOMAIN info.on = DOMAIN Config(dir).on
  BY <1>1, Informed, DeliveredDomain DEF DeliverInfo
<1>3. DOMAIN Config(dir).on \subseteq Protocols
  BY ConfigTyped DEF Deliver, Accepted
<1>4. dir' = Written(dir, files)
  BY Zenon DEF Deliver, DeliverInfo
<1> HIDE DEF info
<1>5. /\ DOMAIN files \subseteq DeliveredNames /\ \A f \in DOMAIN files : IsFile(f, files[f])
      /\ Tells(Written(dir, files), info)
  BY <1>2, <1>3, Announcement
<1> HIDE DEF files
<1>6. DOMAIN files \subseteq File
  BY <1>5, Names
<1>7. dir' = [f \in File |-> dir'[f]] /\ \A f \in File : IsFile(f, dir'[f])
  BY <1>4, <1>5, <1>6, Writing
<1>8. \A f \in File \ DeliveredNames : dir'[f] = dir[f]
  BY <1>4, <1>5, WrittenFile
<1> QED  BY <1>1, <1>2, <1>3, <1>4, <1>5, <1>7, <1>8 DEF info

RenewInfo == dir["client-info.json"].data.info
RenewClient ==
  ExistingClient(dir, Config(dir), [p \in DOMAIN Config(dir).on \cap TLSProtocols |->
    [cert |-> gen + 1, san |-> CurrentTLS(dir, Config(dir)).san]])
RenewedInfo == ClientInfo(RenewClient, RenewInfo.address, DeliveredPorts(RenewInfo), RenewInfo.insecure)

LEMMA RenewDomain ==
  DOMAIN RenewedInfo.on = DOMAIN Config(dir).on
BY DEF RenewedInfo, RenewClient, ExistingClient, ClientInfo

LEMMA CurrentName ==
  ASSUME Directory, Renew
  PROVE  /\ CurrentTLS(dir, Config(dir)) = dir["tls.crt"].data
         /\ CurrentTLS(dir, Config(dir)).san \in Name
         /\ Unrooted[CurrentTLS(dir, Config(dir)).san] = CurrentTLS(dir, Config(dir)).san
         /\ DOMAIN Config(dir).on \subseteq Protocols
<1> DEFINE c == Config(dir)
<1>1. /\ Accepted(dir) /\ DOMAIN c.on \cap TLSProtocols # {} /\ validateManagedTLSPaths(c)
      /\ CurrentTLS(dir, c).san # None
  BY Zenon DEF Renew
<1>2. DOMAIN c.on \subseteq Protocols
  BY <1>1, ConfigTyped DEF Accepted
<1> DEFINE p == IF "hy2" \in DOMAIN c.on THEN "hy2" ELSE "anytls"
<1>3. p \in DOMAIN c.on \cap TLSProtocols
  BY <1>1 DEF TLSProtocols
<1>4. c.on[p].certificate = "tls.crt"
  BY <1>1, <1>3, Zenon DEF validateManagedTLSPaths
<1>5. CurrentTLS(dir, c) = dir["tls.crt"].data
  BY <1>4, Zenon DEF CurrentTLS
<1> HIDE DEF p
<1>6. "cert" \in DOMAIN dir["tls.crt"].data /\ "tls.crt" \in File
  BY <1>1, <1>3, <1>4, TLSMaterial, Names
<1>7. dir["tls.crt"].data.san \in Name /\ Unrooted[dir["tls.crt"].data.san] = dir["tls.crt"].data.san
  BY <1>1, <1>5, <1>6, CertificateName
<1> QED  BY <1>2, <1>5, <1>7

LEMMA RenewStep ==
  ASSUME Directory, Renew
  PROVE  /\ Tells(dir', RenewedInfo)
         /\ dir'["tls.crt"] = Regular(Public, [cert |-> gen + 1, san |-> CurrentTLS(dir, Config(dir)).san])
         /\ dir'["tls.key"] = Regular(Private, [pair |-> gen + 1])
         /\ dir' = [f \in File |-> dir'[f]] /\ \A f \in File : IsFile(f, dir'[f])
         /\ \A f \in File \ RENEWAL_FILES : dir'[f] = dir[f]
<1> DEFINE info == RenewedInfo
           san == CurrentTLS(dir, Config(dir)).san
           tls == TLSFiles(gen + 1, san)
           rest == With(tls, DeliveryFiles(info))
           files == With(InfoFile(info), rest)
<1>1. DOMAIN info.on \subseteq Protocols
  BY RenewDomain, CurrentName
<1>2. dir' = Installed(dir, files)
  <2>1. dir' = Installed(dir,
          RenewedFiles(dir, gen + 1, RenewInfo.address, DeliveredPorts(RenewInfo), RenewInfo.insecure))
    BY Zenon DEF Renew, RenewInfo
  <2> QED  BY <2>1, Zenon DEF RenewedFiles, RenewedInfo, RenewClient
<1>3. /\ DOMAIN tls = {"tls.crt", "tls.key"}
      /\ IsFile("tls.crt", tls["tls.crt"]) /\ IsFile("tls.key", tls["tls.key"])
      /\ tls["tls.crt"] = Regular(Public, [cert |-> gen + 1, san |-> san])
      /\ tls["tls.key"] = Regular(Private, [pair |-> gen + 1])
  BY CurrentName, TLSIsFile
<1>4. DOMAIN DeliveryFiles(info) \subseteq RENEWAL_FILES \ {"client-info.json", "tls.crt", "tls.key"}
  BY <1>1, DeliveredSet
<1>5. /\ DOMAIN InfoFile(info) = {"client-info.json"}
      /\ InfoFile(info)["client-info.json"] = Regular(Private, [info |-> info])
  BY DEF InfoFile
<1> HIDE DEF tls, info
<1>6. DOMAIN rest = {"tls.crt", "tls.key"} \cup DOMAIN DeliveryFiles(info)
  BY <1>3, WithDomain
<1>7. /\ rest["tls.crt"] = tls["tls.crt"] /\ rest["tls.key"] = tls["tls.key"]
      /\ \A f \in DOMAIN DeliveryFiles(info) : rest[f] = DeliveryFiles(info)[f]
  BY <1>3, <1>4, WithFirst, WithSecond
<1> HIDE DEF rest
<1>8. DOMAIN files = {"client-info.json", "tls.crt", "tls.key"} \cup DOMAIN DeliveryFiles(info)
  BY <1>5, <1>6, WithDomain
<1>9. /\ files["client-info.json"] = Regular(Private, [info |-> info])
      /\ \A f \in DOMAIN rest : files[f] = rest[f]
  BY <1>4, <1>5, <1>6, WithFirst, WithSecond
<1> HIDE DEF files
<1>10. \A f \in DOMAIN files : IsFile(f, files[f])
  BY <1>1, <1>3, <1>6, <1>7, <1>8, <1>9, InfoIsFile, DeliveredIsFile DEF info
<1>11. DOMAIN files \subseteq RENEWAL_FILES /\ RENEWAL_FILES \subseteq File
  BY <1>4, <1>8, Names
<1>12. \A f \in File :
         dir'[f] = IF f \in DOMAIN files THEN files[f] ELSE IF f \in RENEWAL_FILES THEN NoFile ELSE dir[f]
  BY <1>2, Zenon DEF Installed
<1>13. dir' = [f \in File |-> dir'[f]]
  BY <1>2 DEF Installed
<1>14. \A f \in File : IsFile(f, dir'[f])
  BY <1>10, <1>12, NoFileIsFile DEF Directory
<1>15. \A f \in DOMAIN files : dir'[f] = files[f]
  BY <1>11, <1>12
<1>16. Tells(dir', info)
  BY <1>6, <1>7, <1>8, <1>9, <1>15 DEF Tells
<1>17. /\ dir'["tls.crt"] = Regular(Public, [cert |-> gen + 1, san |-> san])
       /\ dir'["tls.key"] = Regular(Private, [pair |-> gen + 1])
  BY <1>3, <1>6, <1>7, <1>8, <1>9, <1>15
<1> QED  BY <1>11, <1>12, <1>13, <1>14, <1>16, <1>17 DEF info

-----------------------------------------------------------------------------
(* What generate writes.                                                   *)

LEMMA ConfigParts ==
  ASSUME NEW o, NEW g
  PROVE  /\ DOMAIN GeneratedConfig(o, g) = {"schema", "level", "on"}
         /\ GeneratedConfig(o, g).schema = 1 /\ GeneratedConfig(o, g).level = "warn"
         /\ DOMAIN GeneratedConfig(o, g).on = ToSet(o.protocols)
BY DEF GeneratedConfig

LEMMA ConfigSettings ==
  ASSUME NEW o, NEW g, NEW p \in ToSet(o.protocols), p \in Protocols
  PROVE  LET s == GeneratedConfig(o, g).on[p] IN
         /\ s.listen = o.listen /\ s.port = o.port[p] /\ s.cred = NewCredential(g, p)
         /\ p = "reality" => /\ s.key = "reality.key" /\ s.shortID = g /\ s.serverName = o.serverName
                             /\ s.host = o.host /\ s.hostPort = o.hostPort
         /\ p = "hy2" => s.up = Unset /\ s.down = Unset
         /\ p # "reality" => s.certificate = "tls.crt" /\ s.key = "tls.key"
<1> DEFINE base == [listen |-> o.listen, port |-> o.port[p], cred |-> NewCredential(g, p)]
           s == GeneratedConfig(o, g).on[p]
<1>1. /\ p = "reality" => s = With(base, [key |-> "reality.key", shortID |-> g, serverName |-> o.serverName,
                                          host |-> o.host, hostPort |-> o.hostPort])
      /\ p = "hy2" => s = With(base, [certificate |-> "tls.crt", key |-> "tls.key", up |-> Unset, down |-> Unset])
      /\ p = "anytls" => s = With(base, [certificate |-> "tls.crt", key |-> "tls.key"])
  BY DEF GeneratedConfig
<1>2. p = "reality" \/ p = "hy2" \/ p = "anytls"
  BY DEF Protocols
<1> HIDE DEF s
<1>3. CASE p = "reality"
  <2>1. s = With(base, [key |-> "reality.key", shortID |-> g, serverName |-> o.serverName,
                        host |-> o.host, hostPort |-> o.hostPort])
    BY <1>1, <1>3
  <2>2. s.listen = o.listen /\ s.port = o.port[p] /\ s.cred = NewCredential(g, p)
    BY <2>1 DEF With
  <2>3. /\ s.key = "reality.key" /\ s.shortID = g /\ s.serverName = o.serverName
        /\ s.host = o.host /\ s.hostPort = o.hostPort
    BY <2>1 DEF With
  <2> QED  BY <1>3, <2>2, <2>3 DEF s
<1>4. CASE p = "hy2"
  <2>1. s = With(base, [certificate |-> "tls.crt", key |-> "tls.key", up |-> Unset, down |-> Unset])
    BY <1>1, <1>4
  <2>2. s.listen = o.listen /\ s.port = o.port[p] /\ s.cred = NewCredential(g, p)
    BY <2>1 DEF With
  <2>3. s.certificate = "tls.crt" /\ s.key = "tls.key" /\ s.up = Unset /\ s.down = Unset
    BY <2>1 DEF With
  <2> QED  BY <1>4, <2>2, <2>3 DEF s
<1>5. CASE p = "anytls"
  <2>1. s = With(base, [certificate |-> "tls.crt", key |-> "tls.key"])
    BY <1>1, <1>5
  <2>2. s.listen = o.listen /\ s.port = o.port[p] /\ s.cred = NewCredential(g, p)
    BY <2>1 DEF With
  <2>3. s.certificate = "tls.crt" /\ s.key = "tls.key"
    BY <2>1 DEF With
  <2> QED  BY <1>5, <2>2, <2>3 DEF s
<1> QED  BY <1>2, <1>3, <1>4, <1>5 DEF s

LEMMA GeneratedParts ==
  ASSUME NEW o, NEW g, o.insecure \in BOOLEAN
  PROVE  LET info == GeneratedInfo(o, g) IN
         /\ info.address = o.address
         /\ info.insecure \in BOOLEAN /\ (info.insecure => "anytls" \in DOMAIN info.on)
         /\ DOMAIN info.on = ToSet(o.protocols)
         /\ \A p \in ToSet(o.protocols) :
              info.on[p] = IF o.address = None THEN GeneratedClient(o, g)[p]
                           ELSE [GeneratedClient(o, g)[p] EXCEPT !.port = PublicPort(GeneratedClient(o, g), o.public, p)]
<1> DEFINE info == GeneratedInfo(o, g)
           on == GeneratedClient(o, g)
<1>1. DOMAIN on = ToSet(o.protocols)
  BY DEF GeneratedClient
<1> HIDE DEF on
<1>2. CASE o.address = None
  <2>1. info = [NoInfo EXCEPT !.on = on]
    BY <1>2 DEF GeneratedInfo, on
  <2>2. info.address = None /\ info.insecure = FALSE /\ info.on = on
    BY <2>1 DEF NoInfo
  <2> QED  BY <1>1, <1>2, <2>2, Zenon DEF on
<1>3. CASE o.address # None
  <2>1. info = ClientInfo(on, o.address, o.public, o.insecure)
    BY <1>3 DEF GeneratedInfo, on
  <2>2. /\ info.address = o.address
        /\ info.insecure = (o.insecure /\ "anytls" \in DOMAIN on)
        /\ DOMAIN info.on = DOMAIN on
        /\ \A p \in DOMAIN on : info.on[p] = [on[p] EXCEPT !.port = PublicPort(on, o.public, p)]
    BY <2>1, Informed
  <2> HIDE DEF info
  <2>3. info.insecure \in BOOLEAN /\ (info.insecure => "anytls" \in DOMAIN info.on)
    BY <2>2
  <2> QED  BY <1>1, <1>3, <2>2, <2>3, Zenon DEF on, info
<1> QED  BY <1>2, <1>3

\* What generate checks.
LEMMA Checked ==
  ASSUME NEW o \in GenerateOptions, GenerateChecks(o)
  PROVE  /\ ToSet(o.protocols) \subseteq Protocols /\ ToSet(o.protocols) # {}
         /\ o.insecure \in BOOLEAN /\ o.listen \in IP
         /\ \A p \in ToSet(o.protocols) : o.port[p] \in UserPort
         /\ \A p, q \in ToSet(o.protocols) : p # q => o.port[p] # o.port[q]
         /\ "reality" \in ToSet(o.protocols) =>
              o.hostPort \in Port /\ o.serverName \in DNS /\ validHost(o.host)
         /\ ToSet(o.protocols) \cap TLSProtocols # {} => o.san \in Name
<1>1. o.protocols \in Seq(STRING) /\ o.insecure \in BOOLEAN
  BY DeliveryAssumption, Zenon
<1> DEFINE s == o.protocols
           P == ToSet(s)
<1>2. normalizeProtocols(s)
  BY Zenon DEF GenerateChecks
<1> HIDE DEF s
<1>3. P # {}
  <2>1. s \in Seq(STRING) /\ s # <<>>
    BY <1>1, <1>2 DEF normalizeProtocols, s
  <2>2. Len(s) > 0 /\ 1 \in DOMAIN s
    BY <2>1
  <2> QED  BY <2>2 DEF ToSet
<1>4. P \subseteq Protocols
  BY <1>2 DEF normalizeProtocols
<1>5. /\ o.listen \in IP
      /\ \A p \in P : o.port[p] \in UserPort
      /\ \A p, q \in P : p # q => o.port[p] # o.port[q]
      /\ "reality" \in P => o.hostPort \in Port /\ o.serverName \in DNS /\ validHost(o.host)
      /\ P \cap TLSProtocols # {} => validHost(o.san)
  BY Zenon DEF GenerateChecks, GeneratePort, s
<1>6. \A n : validHost(n) => n \in Name
  BY NameAssumption DEF validHost
<1> QED  BY <1>1, <1>3, <1>4, <1>5, <1>6, Zenon DEF s

LEMMA WithApart ==
  ASSUME NEW f, NEW g, DOMAIN f \cap DOMAIN g = {}
  PROVE  /\ DOMAIN With(f, g) = DOMAIN f \cup DOMAIN g
         /\ \A x \in DOMAIN f : With(f, g)[x] = f[x]
         /\ \A x \in DOMAIN g : With(f, g)[x] = g[x]
<1>1. DOMAIN With(f, g) = DOMAIN f \cup DOMAIN g
  BY WithDomain
<1>2. \A x \in DOMAIN f : With(f, g)[x] = f[x]
  BY WithFirst
<1>3. ASSUME NEW x \in DOMAIN g
      PROVE  With(f, g)[x] = g[x]
  BY WithSecond
<1> QED  BY <1>1, <1>2, <1>3

LEMMA GenerateStep ==
  ASSUME Directory, NEW o \in GenerateOptions, Generate(o)
  PROVE  /\ dir'["config.json"] = Regular(Private, GeneratedConfig(o, gen + 1))
         /\ Tells(dir', GeneratedInfo(o, gen + 1))
         /\ "reality" \in ToSet(o.protocols) => dir'["reality.key"] = Regular(Private, [private |-> gen + 1])
         /\ ToSet(o.protocols) \cap TLSProtocols # {} =>
              /\ dir'["tls.crt"] = Regular(Public, [cert |-> gen + 1, san |-> Unrooted[o.san]])
              /\ dir'["tls.key"] = Regular(Private, [pair |-> gen + 1])
         /\ dir' = [f \in File |-> dir'[f]] /\ \A f \in File : IsFile(f, dir'[f])
<1> DEFINE g == gen + 1
           P == ToSet(o.protocols)
           info == GeneratedInfo(o, g)
           config == [f \in {"config.json"} |-> Regular(Private, GeneratedConfig(o, g))]
           key == IF "reality" \in P THEN [f \in {"reality.key"} |-> Regular(Private, [private |-> g])] ELSE <<>>
           tls == IF P \cap TLSProtocols # {} THEN TLSFiles(g, o.san) ELSE <<>>
           share == IF o.address # None THEN DeliveryFiles(info) ELSE <<>>
           files3 == With(tls, share)
           files2 == With(key, files3)
           files1 == With(config, files2)
           files == With(InfoFile(info), files1)
<1>1. GenerateChecks(o)
  BY Zenon DEF Generate
<1>2. dir' = Written(dir, files)
  <2>1. dir' = Written(dir, GeneratedFiles(o, gen + 1))
    BY Zenon DEF Generate
  <2> QED  BY <2>1, Zenon DEF GeneratedFiles
<1>3. DOMAIN <<>> = {}
  OBVIOUS
<1>4. /\ info.address = o.address /\ DOMAIN info.on = P /\ P \subseteq Protocols
      /\ P \cap TLSProtocols # {} => o.san \in Name
  BY <1>1, Checked, GeneratedParts
<1>5. /\ DOMAIN InfoFile(info) = {"client-info.json"}
      /\ InfoFile(info)["client-info.json"] = Regular(Private, [info |-> info])
  BY DEF InfoFile
<1>6. /\ DOMAIN config = {"config.json"} /\ config["config.json"] = Regular(Private, GeneratedConfig(o, g))
      /\ IsFile("config.json", config["config.json"])
  <2>1. IsFile("config.json", Regular(Private, GeneratedConfig(o, g)))
    BY <1>4, ConfigParts, ConfigIsFile
  <2> QED  BY <2>1
<1>7. /\ DOMAIN key \subseteq {"reality.key"}
      /\ "reality" \in P => "reality.key" \in DOMAIN key
      /\ "reality.key" \in DOMAIN key => key["reality.key"] = Regular(Private, [private |-> g])
  <2>1. CASE "reality" \in P
    BY <2>1
  <2>2. CASE "reality" \notin P
    BY <2>2, <1>3
  <2> QED  BY <2>1, <2>2
<1>8. /\ DOMAIN tls \subseteq {"tls.crt", "tls.key"}
      /\ P \cap TLSProtocols # {} => /\ DOMAIN tls = {"tls.crt", "tls.key"}
                                     /\ tls["tls.crt"] = Regular(Public, [cert |-> g, san |-> Unrooted[o.san]])
                                     /\ tls["tls.key"] = Regular(Private, [pair |-> g])
      /\ \A f \in DOMAIN tls : IsFile(f, tls[f])
  <2>1. CASE P \cap TLSProtocols # {}
    <3>1. tls = TLSFiles(g, o.san)
      BY <2>1
    <3> QED  BY <2>1, <3>1, <1>4, TLSIsFile
  <2>2. CASE P \cap TLSProtocols = {}
    <3>1. DOMAIN tls = {}
      BY <2>2, <1>3
    <3> QED  BY <2>2, <3>1
  <2> QED  BY <2>1, <2>2
<1>9. /\ DOMAIN share \subseteq RENEWAL_FILES \ {"client-info.json", "tls.crt", "tls.key"}
      /\ \A f \in DOMAIN share : IsFile(f, share[f])
      /\ o.address # None => share = DeliveryFiles(info)
  <2>1. CASE o.address # None
    BY <2>1, <1>4, DeliveredSet, DeliveredIsFile
  <2>2. CASE o.address = None
    <3>1. DOMAIN share = {}
      BY <2>2, <1>3
    <3> QED  BY <2>2, <3>1
  <2> QED  BY <2>1, <2>2
<1> HIDE DEF info, config, key, tls, share
<1>10. /\ DOMAIN files3 = DOMAIN tls \cup DOMAIN share
       /\ \A f \in DOMAIN tls : files3[f] = tls[f]
       /\ \A f \in DOMAIN share : files3[f] = share[f]
  <2>1. DOMAIN tls \cap DOMAIN share = {}
    BY <1>8, <1>9
  <2> QED  BY <2>1, WithApart
<1> HIDE DEF files3
<1>11. /\ DOMAIN files2 = DOMAIN key \cup DOMAIN files3
       /\ \A f \in DOMAIN key : files2[f] = key[f]
       /\ \A f \in DOMAIN files3 : files2[f] = files3[f]
  <2>1. DOMAIN key \cap DOMAIN files3 = {}
    BY <1>7, <1>8, <1>9, <1>10, Names
  <2> QED  BY <2>1, WithApart
<1> HIDE DEF files2
<1>12. /\ DOMAIN files1 = {"config.json"} \cup DOMAIN files2
       /\ files1["config.json"] = config["config.json"]
       /\ \A f \in DOMAIN files2 : files1[f] = files2[f]
  <2>1. DOMAIN config \cap DOMAIN files2 = {}
    BY <1>6, <1>7, <1>8, <1>9, <1>10, <1>11, Names
  <2>2. DOMAIN config = {"config.json"}
    BY <1>6
  <2>3. /\ DOMAIN files1 = DOMAIN config \cup DOMAIN files2
        /\ \A f \in DOMAIN config : files1[f] = config[f]
        /\ \A f \in DOMAIN files2 : files1[f] = files2[f]
    BY <2>1, WithApart
  <2> HIDE DEF files1
  <2> QED  BY <2>2, <2>3
<1> HIDE DEF files1
<1>13. /\ DOMAIN files = {"client-info.json"} \cup DOMAIN files1
       /\ files["client-info.json"] = Regular(Private, [info |-> info])
       /\ \A f \in DOMAIN files1 : files[f] = files1[f]
  <2>1. DOMAIN InfoFile(info) \cap DOMAIN files1 = {}
    BY <1>5, <1>7, <1>8, <1>9, <1>10, <1>11, <1>12, Names
  <2>2. /\ DOMAIN files = DOMAIN InfoFile(info) \cup DOMAIN files1
        /\ \A f \in DOMAIN InfoFile(info) : files[f] = InfoFile(info)[f]
        /\ \A f \in DOMAIN files1 : files[f] = files1[f]
    BY <2>1, WithApart
  <2> HIDE DEF files
  <2> QED  BY <1>5, <2>2
<1> HIDE DEF files
<1>14. /\ DOMAIN files = {"client-info.json", "config.json"} \cup DOMAIN key \cup DOMAIN tls \cup DOMAIN share
       /\ files["config.json"] = config["config.json"]
       /\ \A f \in DOMAIN key : files[f] = key[f]
       /\ \A f \in DOMAIN tls : files[f] = tls[f]
       /\ \A f \in DOMAIN share : files[f] = share[f]
  BY <1>10, <1>11, <1>12, <1>13
<1>15. DOMAIN files \subseteq File
  BY <1>7, <1>8, <1>9, <1>14, Names
<1>16. \A f \in DOMAIN files : IsFile(f, files[f])
  <2>1. IsFile("client-info.json", files["client-info.json"])
    BY <1>4, <1>13, InfoIsFile
  <2>2. \A f \in DOMAIN key : IsFile(f, key[f])
    BY <1>7, KeyIsFile
  <2> QED  BY <2>1, <2>2, <1>6, <1>8, <1>9, <1>14
<1>17. \A f \in DOMAIN files : dir'[f] = files[f]
  BY <1>2, <1>15, WrittenFile
<1>18. dir' = [f \in File |-> dir'[f]] /\ \A f \in File : IsFile(f, dir'[f])
  BY <1>2, <1>15, <1>16, Writing
<1>19. Tells(dir', info)
  BY <1>4, <1>9, <1>13, <1>14, <1>17 DEF Tells
<1>20. dir'["config.json"] = Regular(Private, GeneratedConfig(o, g))
  BY <1>6, <1>14, <1>17
<1>21. "reality" \in P => dir'["reality.key"] = Regular(Private, [private |-> g])
  BY <1>7, <1>14, <1>17
<1>22. P \cap TLSProtocols # {} => /\ dir'["tls.crt"] = Regular(Public, [cert |-> g, san |-> Unrooted[o.san]])
                                  /\ dir'["tls.key"] = Regular(Private, [pair |-> g])
  BY <1>8, <1>14, <1>17
<1> QED  BY <1>18, <1>19, <1>20, <1>21, <1>22 DEF info

\* A configuration that generate has written, Validate accepts.
LEMMA CredentialsApart ==
  ASSUME NEW g \in Nat, g > 0
  PROVE  /\ \A p \in Protocols : NewCredential(g, p) > 0
         /\ \A p, q \in Protocols : p # q => NewCredential(g, p) # NewCredential(g, q)
<1>1. /\ \A p \in Protocols : NewCredential(g, p) = 10 * g + Order[p] /\ Order[p] \in 1..3
      /\ \A p, q \in Protocols : p # q => Order[p] # Order[q]
  BY Ordered DEF NewCredential
<1> QED  BY <1>1

LEMMA NewConfigAccepted ==
  ASSUME NEW d, NEW o \in GenerateOptions, GenerateChecks(o), NEW g \in Nat, g > 0,
         d["config.json"] = Regular(Private, GeneratedConfig(o, g)),
         "reality" \in ToSet(o.protocols) => d["reality.key"] = Regular(Private, [private |-> g]),
         ToSet(o.protocols) \cap TLSProtocols # {} =>
           /\ d["tls.crt"] = Regular(Public, [cert |-> g, san |-> Unrooted[o.san]])
           /\ d["tls.key"] = Regular(Private, [pair |-> g])
  PROVE  Accepted(d) /\ Config(d) = GeneratedConfig(o, g)
<1> DEFINE c == GeneratedConfig(o, g)
           P == ToSet(o.protocols)
<1>1. /\ P \subseteq Protocols /\ P # {} /\ o.listen \in IP
      /\ \A p \in P : o.port[p] \in UserPort
      /\ \A p, q \in P : p # q => o.port[p] # o.port[q]
      /\ "reality" \in P => o.hostPort \in Port /\ o.serverName \in DNS /\ validHost(o.host)
  BY Checked
<1>2. DOMAIN c = {"schema", "level", "on"} /\ c.schema = 1 /\ c.level = "warn" /\ DOMAIN c.on = P
  BY ConfigParts
<1>3. ASSUME NEW p \in P
      PROVE  /\ c.on[p].listen = o.listen /\ c.on[p].port = o.port[p] /\ c.on[p].cred = NewCredential(g, p)
             /\ p = "reality" => /\ c.on[p].key = "reality.key" /\ c.on[p].shortID = g
                                 /\ c.on[p].serverName = o.serverName
                                 /\ c.on[p].host = o.host /\ c.on[p].hostPort = o.hostPort
             /\ p = "hy2" => c.on[p].up = Unset /\ c.on[p].down = Unset
             /\ p # "reality" => c.on[p].certificate = "tls.crt" /\ c.on[p].key = "tls.key"
  BY <1>1, ConfigSettings
<1>4. Config(d) = c /\ DecodeFile(d)
  <2>1. d["config.json"] = Regular(Private, c) /\ "on" \in DOMAIN c
    BY <1>2
  <2> HIDE DEF c
  <2>2. d["config.json"].kind = "regular" /\ d["config.json"].mode = Private /\ d["config.json"].data = c
    BY <2>1, RegularFile
  <2>3. checkPermissions(Private, fileConfig)
    BY DEF checkPermissions, Private, fileConfig, filePrivateKey, fileCertificate
  <2> QED  BY <2>1, <2>2, <2>3, Names DEF DecodeFile, checkFile, Config
<1> HIDE DEF c
<1>5. ASSUME NEW p \in P
      PROVE  validateInbound(c, p)
  <2>1. validCredential(c.on[p].cred)
    BY <1>1, <1>3, CredentialsApart DEF validCredential
  <2>2. uniqueCredential(c, p)
    <3>1. ASSUME NEW q \in Earlier(c, p)
          PROVE  c.on[q].cred # c.on[p].cred
      <4>1. q \in P /\ q # p
        BY <1>1, <1>2, Ordered DEF Earlier
      <4>2. c.on[q].cred = NewCredential(g, q) /\ c.on[p].cred = NewCredential(g, p)
        BY <4>1, <1>3
      <4> QED  BY <4>1, <4>2, <1>1, CredentialsApart
    <3> QED  BY <3>1 DEF uniqueCredential
  <2>3. validatePort(c, p)
    <3>1. ASSUME NEW q \in Earlier(c, p)
          PROVE  c.on[q].port # c.on[p].port
      <4>1. q \in P /\ q # p
        BY <1>1, <1>2, Ordered DEF Earlier
      <4>2. c.on[q].port = o.port[q] /\ c.on[p].port = o.port[p]
        BY <4>1, <1>3
      <4> QED  BY <4>1, <4>2, <1>1, Zenon
    <3>2. c.on[p].port \in UserPort
      BY <1>1, <1>3
    <3> QED  BY <3>1, <3>2 DEF validatePort
  <2>4. isIPAddress(c.on[p].listen)
    BY <1>1, <1>3 DEF isIPAddress
  <2> QED  BY <2>1, <2>2, <2>3, <2>4 DEF validateInbound
<1>6. "reality" \in P => validateVLESSReality(d, c)
  <2>1. HAVE "reality" \in P
  <2>2. /\ c.on["reality"].key = "reality.key" /\ c.on["reality"].shortID = g
        /\ c.on["reality"].serverName = o.serverName
        /\ c.on["reality"].host = o.host /\ c.on["reality"].hostPort = o.hostPort
    BY <2>1, <1>3
  <2>3. d["reality.key"].kind = "regular" /\ d["reality.key"].mode = Private /\ d["reality.key"].data = [private |-> g]
    BY <2>1, RegularFile
  <2>4. checkFile(d, "reality.key", filePrivateKey)
    BY <2>3, Names DEF checkFile, checkPermissions, Private, fileConfig, filePrivateKey, fileCertificate
  <2>5. readRealityPrivateKey(d, "reality.key")
    BY <2>3 DEF readRealityPrivateKey
  <2>6. validDNSName(o.serverName) /\ ~isIPAddress(o.serverName)
    BY <1>1, <2>1, NameAssumption DEF validDNSName, isIPAddress
  <2>7. validDNSName(o.host) \/ isIPAddress(o.host)
    BY <1>1, <2>1 DEF validHost, validDNSName, isIPAddress
  <2>8. o.hostPort \in Port /\ g > 0
    BY <1>1, <2>1
  <2> QED  BY <2>1, <2>2, <2>4, <2>5, <2>6, <2>7, <2>8, <1>5, Zenon DEF validateVLESSReality
<1>7. ASSUME NEW p \in P \cap TLSProtocols
      PROVE  validateTLSFiles(d, c.on[p])
  <2>1. c.on[p].certificate = "tls.crt" /\ c.on[p].key = "tls.key"
    BY <1>3 DEF TLSProtocols
  <2>2. /\ d["tls.crt"].kind = "regular" /\ d["tls.crt"].mode = Public
        /\ d["tls.crt"].data = [cert |-> g, san |-> Unrooted[o.san]]
        /\ d["tls.key"].kind = "regular" /\ d["tls.key"].mode = Private /\ d["tls.key"].data = [pair |-> g]
    BY <1>7, RegularFile
  <2>3. checkFile(d, "tls.crt", fileCertificate) /\ checkFile(d, "tls.key", filePrivateKey)
    BY <2>2, Names DEF checkFile, checkPermissions, Public, Private, fileConfig, filePrivateKey, fileCertificate
  <2>4. LoadX509KeyPair(d, "tls.crt", "tls.key")
    BY <2>2 DEF LoadX509KeyPair
  <2> QED  BY <2>1, <2>3, <2>4 DEF validateTLSFiles
<1>8. "hy2" \in P => validateHysteria2(d, c)
  <2>1. HAVE "hy2" \in P
  <2>2. c.on["hy2"].up = Unset /\ c.on["hy2"].down = Unset
    BY <2>1, <1>3
  <2>3. validateBandwidth(Unset)
    BY DEF validateBandwidth
  <2>4. validateInbound(c, "hy2") /\ validateTLSFiles(d, c.on["hy2"])
    BY <2>1, <1>5, <1>7 DEF TLSProtocols
  <2> QED  BY <2>2, <2>3, <2>4, Zenon DEF validateHysteria2
<1>9. "anytls" \in P => validateAnyTLS(d, c)
  BY <1>5, <1>7 DEF validateAnyTLS, TLSProtocols
<1>10. LogLevel(c) \in {"warn", "error"}
  BY <1>2 DEF LogLevel
<1>11. Validate(d, c)
  BY <1>1, <1>2, <1>6, <1>8, <1>9, <1>10, Zenon DEF Validate
<1> QED  BY <1>4, <1>11 DEF Accepted, c

-----------------------------------------------------------------------------
(* Types, and the two properties they are enough for.                      *)

\* The inductive form of TypeOK.
Typed == TypeOK /\ Directory

LEMMA PlainTypes ==
  ASSUME Directory
  PROVE  DOMAIN dir = File /\ \A f \in File : dir[f].kind = "none" => dir[f] = NoFile
<1>1. DOMAIN dir = File
  BY DEF Directory
<1>2. ASSUME NEW f \in File, dir[f].kind = "none"
      PROVE  dir[f] = NoFile
  BY <1>2, Zenon DEF Directory, IsFile
<1> QED  BY <1>1, <1>2

LEMMA Bounds ==
  MaxGen \in Nat /\ MaxEdit \in Nat
BY DeliveryAssumption, Zenon

LEMMA InitDirectory ==
  ASSUME Init
  PROVE  Directory
<1>1. DOMAIN Own \subseteq File /\ \A f \in DOMAIN Own : IsFile(f, Own[f])
  BY DeliveryAssumption, Zenon
<1> DEFINE empty == [f \in File |-> NoFile]
<1>2. dir = With(Own, empty)
  BY Zenon DEF Init
<1>3. DOMAIN empty = File /\ \A f \in File : empty[f] = NoFile
  OBVIOUS
<1> HIDE DEF empty
<1>4. dir = [f \in File |-> dir[f]]
  BY <1>1, <1>2, <1>3 DEF With
<1>5. ASSUME NEW f \in File
      PROVE  IsFile(f, dir[f])
  <2>1. CASE f \in DOMAIN Own
    BY <1>1, <1>2, <2>1, WithFirst
  <2>2. CASE f \notin DOMAIN Own
    BY <1>2, <1>3, <2>2, WithSecond, NoFileIsFile
  <2> QED  BY <2>1, <2>2
<1> QED  BY <1>4, <1>5, Zenon DEF Directory

LEMMA InitTyped ==
  ASSUME Init
  PROVE  Typed
<1>1. Directory
  BY InitDirectory
<1>2. gen \in 0..MaxGen /\ edits \in 0..MaxEdit
  BY Bounds DEF Init
<1>3. DOMAIN imported.on \subseteq Protocols
  <2>1. DOMAIN <<>> = {}
    OBVIOUS
  <2>2. imported = NoInfo
    BY Zenon DEF Init
  <2>3. NoInfo.on = <<>>
    BY DEF NoInfo
  <2> QED  BY <2>1, <2>2, <2>3
<1> QED  BY <1>1, <1>2, <1>3, PlainTypes, Zenon DEF Typed, TypeOK

\* An edited configuration is one that Decode could read.
LEMMA EditedFile ==
  ASSUME Directory, NEW x, DecodeFile(dir),
         DOMAIN x.on \subseteq Protocols, DOMAIN x \subseteq DOMAIN Config(dir) \cup {"schema", "level", "on"},
         dir' = [dir EXCEPT !["config.json"] = [@ EXCEPT !.data = x]]
  PROVE  Directory'
<1> DEFINE old == dir["config.json"]
<1>1. IsFile("config.json", old) /\ old.kind = "regular" /\ dir = [f \in File |-> dir[f]]
  BY Names, Zenon DEF Directory, DecodeFile, checkFile
<1> DEFINE new == [old EXCEPT !.data = x]
<1>2. old = [kind |-> old.kind, mode |-> old.mode, data |-> old.data]
  <2>1. old # NoFile
    BY <1>1 DEF NoFile
  <2> QED  BY <1>1, <2>1, Zenon DEF IsFile
<1>3. new.kind = "regular" /\ new.data = x /\ new = [kind |-> new.kind, mode |-> new.mode, data |-> new.data]
  <2>1. new = [kind |-> old.kind, mode |-> old.mode, data |-> x]
    BY <1>2
  <2> QED  BY <1>1, <2>1
<1>4. {"private", "cert", "pair"} \cap DOMAIN old.data = {}
  BY <1>1, Zenon DEF IsFile
<1>5. DOMAIN x \subseteq DOMAIN old.data \cup {"schema", "level", "on"}
  BY DEF Config
<1>6. dir' = [dir EXCEPT !["config.json"] = new]
  BY Zenon
<1> HIDE DEF old, new
<1>7. IsFile("config.json", new)
  BY <1>3, <1>4, <1>5 DEF IsFile
<1>8. dir' = [f \in File |-> IF f = "config.json" THEN new ELSE dir[f]]
  BY <1>1, <1>6
<1>9. \A f \in File : IsFile(f, dir'[f])
  BY <1>7, <1>8, Zenon DEF Directory
<1>10. dir' = [f \in File |-> dir'[f]]
  BY <1>8
<1> QED  BY <1>9, <1>10, Zenon DEF Directory

LEMMA EditDirectory ==
  ASSUME Directory, NEW e \in Patches, Edit(e)
  PROVE  Directory'
<1> DEFINE c == Config(dir)
<1>1. DecodeFile(dir) /\ DOMAIN c.on \subseteq Protocols /\ "on" \in DOMAIN c
  BY ConfigTyped DEF Edit, DecodeFile, Config
<1>2. c = dir["config.json"].data
  BY DEF Config
<1>3. CASE e.protocol = None /\ dir' = [dir EXCEPT !["config.json"].data = With(e.set, @)]
  <2> DEFINE x == With(e.set, c)
  <2>1. /\ DOMAIN e.set \subseteq {"schema", "level", "on"}
        /\ "on" \in DOMAIN e.set => DOMAIN e.set.on \subseteq Protocols
    BY <1>3, DeliveryAssumption, Zenon
  <2>2. DOMAIN x \subseteq DOMAIN c \cup {"schema", "level", "on"}
    BY <2>1, WithDomain
  <2>3. DOMAIN x.on \subseteq Protocols
    <3>1. CASE "on" \in DOMAIN e.set
      <4>1. x["on"] = e.set["on"]
        BY <3>1, WithFirst
      <4> QED  BY <2>1, <3>1, <4>1
    <3>2. CASE "on" \notin DOMAIN e.set
      <4>1. x["on"] = c["on"]
        BY <1>1, <3>2, WithSecond
      <4> QED  BY <1>1, <4>1
    <3> QED  BY <3>1, <3>2
  <2>4. dir' = [dir EXCEPT !["config.json"] = [@ EXCEPT !.data = x]]
    BY <1>2, <1>3
  <2> HIDE DEF x
  <2> QED  BY <1>1, <2>2, <2>3, <2>4, EditedFile
<1>4. CASE /\ e.protocol \in DOMAIN c.on
           /\ dir' = [dir EXCEPT !["config.json"].data.on[e.protocol] = With(e.set, @)]
  <2> DEFINE y == With(e.set, c.on[e.protocol])
             z == [c.on EXCEPT ![e.protocol] = y]
             x == [c EXCEPT !.on = z]
  <2>1. DOMAIN x = DOMAIN c /\ DOMAIN z = DOMAIN c.on
    OBVIOUS
  <2>2. DOMAIN x.on \subseteq Protocols
    <3> HIDE DEF z
    <3>1. x.on = z
      BY <1>1
    <3> QED  BY <1>1, <2>1, <3>1
  <2>3. dir' = [dir EXCEPT !["config.json"] = [@ EXCEPT !.data = x]]
    <3>1. dir' = [dir EXCEPT !["config.json"].data.on[e.protocol] = y]
      BY <1>2, <1>4
    <3> HIDE DEF y
    <3> QED  BY <1>2, <3>1
  <2> HIDE DEF x
  <2> QED  BY <1>1, <2>1, <2>2, <2>3, EditedFile
<1> QED  BY <1>3, <1>4, Zenon DEF Edit

LEMMA SpoilDirectory ==
  ASSUME Directory, NEW s \in Spoils, Spoil(s)
  PROVE  Directory'
<1>1. s.file \in File /\ IsFile(s.file, s.by)
  BY DeliveryAssumption, Zenon
<1>2. dir' = [dir EXCEPT ![s.file] = s.by]
  BY Zenon DEF Spoil
<1>3. dir' = [f \in File |-> IF f = s.file THEN s.by ELSE dir[f]]
  BY <1>2 DEF Directory
<1>4. \A f \in File : IsFile(f, dir'[f])
  BY <1>1, <1>3, Zenon DEF Directory
<1>5. dir' = [f \in File |-> dir'[f]]
  BY <1>3
<1> QED  BY <1>4, <1>5, Zenon DEF Directory

LEMMA NextDirectory ==
  ASSUME Directory, [Next]_vars
  PROVE  Directory'
<1>1. ASSUME NEW o \in GenerateOptions, Generate(o)
      PROVE  Directory'
  BY <1>1, GenerateStep, Zenon DEF Directory
<1>2. ASSUME NEW o \in DeliverOptions, Deliver(o)
      PROVE  Directory'
  BY <1>2, DeliverStep, Zenon DEF Directory
<1>3. CASE Renew
  BY <1>3, RenewStep, Zenon DEF Directory
<1>4. CASE Import \/ UNCHANGED vars
  <2>1. dir' = dir
    BY <1>4, Zenon DEF Import, vars
  <2> QED  BY <2>1, Zenon DEF Directory
<1> QED  BY <1>1, <1>2, <1>3, <1>4, EditDirectory, SpoilDirectory, Zenon DEF Next

LEMMA NextTyped ==
  ASSUME Typed, [Next]_vars
  PROVE  Typed'
<1>1. Directory'
  BY NextDirectory, Zenon DEF Typed
<1>2. DOMAIN dir' = File /\ \A f \in File : dir'[f].kind = "none" => dir'[f] = NoFile
  <2>1. DOMAIN dir' = File
    BY <1>1 DEF Directory
  <2>2. ASSUME NEW f \in File, dir'[f].kind = "none"
        PROVE  dir'[f] = NoFile
    BY <1>1, <2>2, Zenon DEF Directory, IsFile
  <2> QED  BY <2>1, <2>2
<1>3. gen' \in 0..MaxGen
  <2>1. gen' = gen \/ (gen < MaxGen /\ gen' = gen + 1)
    BY Zenon DEF Next, Generate, Deliver, Renew, Edit, Spoil, Import, vars
  <2> QED  BY <2>1, Bounds DEF Typed, TypeOK
<1>4. edits' \in 0..MaxEdit
  <2>1. edits' = edits \/ (edits < MaxEdit /\ edits' = edits + 1)
    BY Zenon DEF Next, Generate, Deliver, Renew, Edit, MayEdit, Spoil, Import, vars
  <2> QED  BY <2>1, Bounds DEF Typed, TypeOK
<1>5. DOMAIN imported'.on \subseteq Protocols
  <2>1. imported' = imported \/ Import
    BY Zenon DEF Next, Generate, Deliver, Renew, Edit, Spoil, vars
  <2>2. CASE Import
    <3>1. dir["client-info.json"].kind = "regular" /\ imported' = dir["client-info.json"].data.info
      BY <2>2, Zenon DEF Import
    <3>2. IsFile("client-info.json", dir["client-info.json"])
      BY Names, Zenon DEF Typed, Directory
    <3> QED  BY <3>1, <3>2, Zenon DEF IsFile
  <2> QED  BY <2>1, <2>2 DEF Typed, TypeOK
<1> QED  BY <1>1, <1>2, <1>3, <1>4, <1>5, Zenon DEF Typed, TypeOK

\* The type invariant: the directory keeps its files, generations and edits stay
\* in their bounds, and a client never knows of a protocol there is not.
THEOREM TypeCorrect == Spec => []TypeOK
<1>1. Init => Typed
  BY InitTyped
<1>2. Typed /\ [Next]_vars => Typed'
  BY NextTyped
<1>3. Typed => TypeOK
  BY DEF Typed
<1> QED  BY <1>1, <1>2, <1>3, PTL DEF Spec

\* What check accepts, run can start: two inbounds never have one port of a
\* transport, each has its key or its certificate with its key, and each listens
\* at the configured address and port, unchanged by uint16 (validate.go, convert.go).
THEOREM AlwaysAcceptedStarts == Spec => []AcceptedStarts
<1>1. Init => Typed
  BY InitTyped
<1>2. Typed /\ [Next]_vars => Typed'
  BY NextTyped
<1>3. Typed => AcceptedStarts
  BY ConfigTyped, Startable DEF Typed, AcceptedStarts, Accepted
<1> QED  BY <1>1, <1>2, <1>3, PTL DEF Spec

\* generate never puts a configuration that Validate refuses in the place of an
\* old one, which would be gone: its own checks imply those of Validate
\* (generate.go, validate.go).
THEOREM AlwaysGeneratedAccepted == Spec => GeneratedAccepted
<1>1. Init => Typed
  BY InitTyped
<1>2. Typed /\ [Next]_vars => Typed'
  BY NextTyped
<1>3. ASSUME Typed, [Next]_vars
      PROVE  [gen' # gen /\ dir'["config.json"] # dir["config.json"] => Accepted(dir')]_vars
  <2> SUFFICES ASSUME gen' # gen, dir'["config.json"] # dir["config.json"]
               PROVE  Accepted(dir')
    OBVIOUS
  <2>1. (\E o \in GenerateOptions : Generate(o)) \/ Renew
    BY <1>3, Zenon DEF Next, Deliver, Edit, Spoil, Import, vars
  <2>2. ~Renew
    BY <1>3, RenewStep, Names DEF Typed
  <2>3. PICK o \in GenerateOptions : Generate(o)
    BY <2>1, <2>2
  <2>4. GenerateChecks(o)
    BY <2>3, Zenon DEF Generate
  <2>5. gen + 1 \in Nat /\ gen + 1 > 0
    BY <1>3, Bounds DEF Typed, TypeOK
  <2> QED  BY <1>3, <2>3, <2>4, <2>5, GenerateStep, NewConfigAccepted DEF Typed
<1> QED  BY <1>1, <1>2, <1>3, PTL DEF Spec, GeneratedAccepted

-----------------------------------------------------------------------------
(* What a command has delivered.                                           *)

\* DeliveredWorks of a directory.
Works(d) ==
  LET info == Info(d) IN
  /\ Accepted(d)
  /\ DOMAIN info.on = DOMAIN Config(d).on
  /\ \A p \in DOMAIN info.on :
       /\ Serves(p, info.on[p], d)
       /\ info.address # None =>
            \A f \in ShareFile[p] : d[f].data = [address |-> info.address, share |-> info.on[p]]

\* What a renewal repeats.
Repeats(d) ==
  LET info == Info(d) IN
  /\ info.insecure \in BOOLEAN /\ (info.insecure => "anytls" \in DOMAIN info.on)
  /\ \A p \in DOMAIN info.on : info.on[p].port # 0

\* The inductive form of DeliveredWorks.
Delivers == current => Works(dir) /\ Repeats(dir)

LEMMA WorksWhenTold ==
  ASSUME NEW d, NEW info, Tells(d, info), Accepted(d), DOMAIN Config(d).on \subseteq Protocols,
         DOMAIN info.on = DOMAIN Config(d).on,
         \A p \in DOMAIN info.on : Serves(p, info.on[p], d)
  PROVE  Works(d)
<1>1. Info(d) = info
  BY Told
<1>2. info.address # None => \A p \in DOMAIN info.on : \A f \in ShareFile[p] :
        d[f].data = [address |-> info.address, share |-> info.on[p]]
  BY Told
<1> QED  BY <1>1, <1>2, Zenon DEF Works

LEMMA RepeatsWhenTold ==
  ASSUME NEW d, NEW info, Tells(d, info), info.insecure \in BOOLEAN, info.insecure => "anytls" \in DOMAIN info.on,
         \A p \in DOMAIN info.on : info.on[p].port # 0
  PROVE  Repeats(d)
BY Told, Zenon DEF Repeats

LEMMA SameTLS ==
  ASSUME NEW d, NEW e, NEW s, validateTLSFiles(d, s), e[s.certificate] = d[s.certificate], e[s.key] = d[s.key]
  PROVE  validateTLSFiles(e, s)
BY Zenon DEF validateTLSFiles, checkFile, LoadX509KeyPair

LEMMA AcceptedPorts ==
  ASSUME NEW d, Accepted(d), DOMAIN Config(d).on \subseteq Protocols, NEW p \in DOMAIN Config(d).on
  PROVE  Config(d).on[p].port # 0
<1>1. validateInbound(Config(d), p)
  BY Valid DEF Accepted
<1>2. Config(d).on[p].port \in UserPort
  BY <1>1, Zenon DEF validateInbound, validatePort
<1> QED  BY <1>2, PortFits

LEMMA PublicPorts ==
  ASSUME NEW on, NEW public, NEW p, on[p].port # 0
  PROVE  PublicPort(on, public, p) # 0
BY DEF PublicPort

-----------------------------------------------------------------------------

LEMMA DeliverKeeps ==
  ASSUME Directory, NEW o \in DeliverOptions, Deliver(o)
  PROVE  /\ Accepted(dir) /\ Accepted(dir') /\ Config(dir') = Config(dir)
         /\ "reality" \in DOMAIN Config(dir).on =>
              dir'[Config(dir).on["reality"].key] = dir[Config(dir).on["reality"].key]
         /\ \A p \in DOMAIN Config(dir).on \cap TLSProtocols :
              dir'[Config(dir).on[p].certificate] = dir[Config(dir).on[p].certificate]
<1> DEFINE c == Config(dir)
<1>1. Accepted(dir)
  BY Zenon DEF Deliver
<1>2. DOMAIN c.on \subseteq Protocols /\ \A f \in File \ DeliveredNames : dir'[f] = dir[f]
  BY DeliverStep
<1>3. dir'["config.json"] = dir["config.json"]
  BY <1>2, Names
<1>4. "reality" \in DOMAIN c.on => dir'[c.on["reality"].key] = dir[c.on["reality"].key]
  BY <1>1, <1>2, RealityKey
<1>5. ASSUME NEW p \in DOMAIN c.on \cap TLSProtocols
      PROVE  /\ dir'[c.on[p].certificate] = dir[c.on[p].certificate]
             /\ validateTLSFiles(dir', c.on[p])
  <2>1. {c.on[p].certificate, c.on[p].key} \subseteq File \ DeliveredNames /\ validateTLSFiles(dir, c.on[p])
    BY <1>1, TLSMaterial
  <2>2. dir'[c.on[p].certificate] = dir[c.on[p].certificate] /\ dir'[c.on[p].key] = dir[c.on[p].key]
    BY <1>2, <2>1
  <2> QED  BY <2>1, <2>2, SameTLS
<1>6. Accepted(dir') /\ Config(dir') = c
  BY <1>1, <1>2, <1>3, <1>4, <1>5, StillAccepted
<1> QED  BY <1>1, <1>4, <1>5, <1>6

LEMMA DeliverDelivers ==
  ASSUME Directory, NEW o \in DeliverOptions, Deliver(o)
  PROVE  Works(dir') /\ Repeats(dir')
<1> DEFINE c == Config(dir)
           info == DeliverInfo(o)
           client == DeliveredClient(dir)
<1>1. /\ Accepted(dir) /\ Accepted(dir') /\ Config(dir') = c
      /\ "reality" \in DOMAIN c.on => dir'[c.on["reality"].key] = dir[c.on["reality"].key]
      /\ \A p \in DOMAIN c.on \cap TLSProtocols : dir'[c.on[p].certificate] = dir[c.on[p].certificate]
  BY DeliverKeeps
<1>2. /\ DOMAIN info.on = DOMAIN c.on /\ DOMAIN c.on \subseteq Protocols
      /\ o.insecure \in BOOLEAN /\ Tells(dir', info)
  BY DeliverStep
<1>3. HasSAN(dir, c)
  BY Zenon DEF Deliver
<1> DEFINE crt == [p \in DOMAIN c.on \cap TLSProtocols |-> dir[c.on[p].certificate].data]
<1>4. client = ExistingClient(dir, c, crt)
  BY Zenon DEF DeliveredClient
<1>5. ASSUME NEW p \in DOMAIN c.on
      PROVE  /\ IsClient(p, client[p]) /\ client[p].port = c.on[p].port /\ client[p].cred = c.on[p].cred
             /\ p = "reality" => /\ client[p].public = dir[c.on[p].key].data.private
                                 /\ client[p].shortID = c.on[p].shortID
                                 /\ client[p].name = c.on[p].serverName
             /\ p # "reality" => /\ client[p].pin = dir[c.on[p].certificate].data.cert
                                 /\ client[p].name = dir[c.on[p].certificate].data.san
  <2>1. p # "reality" => crt[p] = dir[c.on[p].certificate].data
    BY <1>2 DEF Protocols, TLSProtocols
  <2> HIDE DEF crt
  <2> QED  BY <1>4, <2>1, Existing
<1>6. \A p \in DOMAIN c.on : info.on[p] = [client[p] EXCEPT !.port = PublicPort(client, o.public, p)]
  BY <1>2, Informed, DeliveredDomain DEF DeliverInfo
<1>7. info.insecure \in BOOLEAN /\ (info.insecure => "anytls" \in DOMAIN info.on)
  <2>1. info.insecure = (o.insecure /\ "anytls" \in DOMAIN c.on)
    BY <1>2, Informed, DeliveredDomain DEF DeliverInfo
  <2> QED  BY <1>2, <2>1
<1> HIDE DEF info, client, c
<1>8. ASSUME NEW p \in DOMAIN c.on
      PROVE  /\ info.on[p].port # 0
             /\ Serves(p, info.on[p], dir')
  <2>1. /\ info.on[p].port = PublicPort(client, o.public, p)
        /\ info.on[p].cred = client[p].cred /\ info.on[p].name = client[p].name
        /\ p = "reality" => info.on[p].public = client[p].public /\ info.on[p].shortID = client[p].shortID
        /\ p # "reality" => info.on[p].pin = client[p].pin
    <3>1. info.on[p] = [client[p] EXCEPT !.port = PublicPort(client, o.public, p)] /\ IsClient(p, client[p])
      BY <1>5, <1>6
    <3> DEFINE i == client[p]
               n == PublicPort(client, o.public, p)
    <3> HIDE DEF i, n
    <3>2. info.on[p] = [i EXCEPT !.port = n] /\ IsClient(p, i)
      BY <3>1 DEF i, n
    <3>3. /\ info.on[p].port = n /\ info.on[p].cred = i.cred /\ info.on[p].name = i.name
          /\ p = "reality" => info.on[p].public = i.public /\ info.on[p].shortID = i.shortID
          /\ p # "reality" => info.on[p].pin = i.pin
      BY <3>2, Repeated
    <3> QED  BY <3>3 DEF i, n
  <2>2. info.on[p].port # 0
    <3>1. client[p].port # 0
      BY <1>1, <1>2, <1>5, AcceptedPorts DEF c
    <3> QED  BY <2>1, <3>1, PublicPorts
  <2>3. KnowsServer(p, info.on[p], dir')
    <3>1. info.on[p].cred = c.on[p].cred
      BY <1>5, <2>1
    <3>2. p = "reality" => /\ readRealityPrivateKey(dir', c.on[p].key)
                           /\ info.on[p].public = dir'[c.on[p].key].data.private
                           /\ info.on[p].shortID = c.on[p].shortID /\ info.on[p].name = c.on[p].serverName
      <4>1. HAVE p = "reality"
      <4>2. readRealityPrivateKey(dir, c.on[p].key)
        BY <1>1, <4>1, RealityKey DEF c
      <4>3. dir'[c.on[p].key] = dir[c.on[p].key]
        BY <1>1, <4>1
      <4>4. readRealityPrivateKey(dir', c.on[p].key)
        BY <4>2, <4>3, Zenon DEF readRealityPrivateKey
      <4> QED  BY <1>5, <2>1, <4>1, <4>3, <4>4
    <3> QED  BY <1>1, <3>1, <3>2, Zenon DEF KnowsServer
  <2>4. p \in TLSProtocols => /\ info.on[p].pin = dir'[c.on[p].certificate].data.cert
                              /\ Unrooted[info.on[p].name] = dir'[c.on[p].certificate].data.san
    <3>1. HAVE p \in TLSProtocols
    <3>2. dir'[c.on[p].certificate] = dir[c.on[p].certificate] /\ p # "reality"
      BY <1>1, <3>1 DEF TLSProtocols
    <3>3. /\ c.on[p].certificate \in File /\ "cert" \in DOMAIN dir[c.on[p].certificate].data
      BY <1>1, <3>1, TLSMaterial DEF c
    <3>4. dir[c.on[p].certificate].data.san # None
      BY <1>3, <3>1, Zenon DEF HasSAN
    <3>5. Unrooted[dir[c.on[p].certificate].data.san] = dir[c.on[p].certificate].data.san
      BY <3>3, <3>4, CertificateName
    <3> QED  BY <1>5, <2>1, <3>2, <3>5
  <2> QED  BY <1>1, <2>2, <2>3, <2>4, Zenon DEF Serves
<1>9. DOMAIN Config(dir').on \subseteq Protocols /\ DOMAIN info.on = DOMAIN Config(dir').on
  BY <1>1, <1>2
<1> QED  BY <1>1, <1>2, <1>7, <1>8, <1>9, WorksWhenTold, RepeatsWhenTold

-----------------------------------------------------------------------------

LEMMA RenewKeeps ==
  ASSUME Directory, Renew
  PROVE  /\ Accepted(dir) /\ Accepted(dir') /\ Config(dir') = Config(dir)
         /\ DOMAIN Config(dir).on \subseteq Protocols
         /\ "reality" \in DOMAIN Config(dir).on =>
              /\ dir'[Config(dir).on["reality"].key] = dir[Config(dir).on["reality"].key]
              /\ readRealityPrivateKey(dir, Config(dir).on["reality"].key)
         /\ \A p \in DOMAIN Config(dir).on \cap TLSProtocols : Config(dir).on[p].certificate = "tls.crt"
<1> DEFINE c == Config(dir)
           san == CurrentTLS(dir, c).san
<1>1. Accepted(dir) /\ DOMAIN c.on \cap TLSProtocols # {} /\ validateManagedTLSPaths(c)
  BY Zenon DEF Renew
<1>2. /\ dir'["tls.crt"] = Regular(Public, [cert |-> gen + 1, san |-> san])
      /\ dir'["tls.key"] = Regular(Private, [pair |-> gen + 1])
      /\ \A f \in File \ RENEWAL_FILES : dir'[f] = dir[f]
  BY RenewStep
<1>3. DOMAIN c.on \subseteq Protocols
  BY CurrentName
<1>4. dir'["config.json"] = dir["config.json"]
  BY <1>2, Names
<1>5. "reality" \in DOMAIN c.on => /\ dir'[c.on["reality"].key] = dir[c.on["reality"].key]
                                  /\ readRealityPrivateKey(dir, c.on["reality"].key)
  BY <1>1, <1>2, RealityKeyApart, RealityKey
<1>6. ASSUME NEW p \in DOMAIN c.on \cap TLSProtocols
      PROVE  c.on[p].certificate = "tls.crt" /\ c.on[p].key = "tls.key"
  BY <1>1, Zenon DEF validateManagedTLSPaths
<1>7. ASSUME NEW p \in DOMAIN c.on \cap TLSProtocols
      PROVE  validateTLSFiles(dir', c.on[p])
  <2> HIDE DEF c, san
  <2>1. /\ dir'["tls.crt"].kind = "regular" /\ dir'["tls.crt"].mode = Public
        /\ dir'["tls.crt"].data = [cert |-> gen + 1, san |-> san]
        /\ dir'["tls.key"].kind = "regular" /\ dir'["tls.key"].mode = Private /\ dir'["tls.key"].data = [pair |-> gen + 1]
    BY <1>2, RegularFile
  <2>2. checkFile(dir', "tls.crt", fileCertificate) /\ checkFile(dir', "tls.key", filePrivateKey)
    BY <2>1, Names DEF checkFile, checkPermissions, Public, Private, fileConfig, filePrivateKey, fileCertificate
  <2>3. LoadX509KeyPair(dir', "tls.crt", "tls.key")
    BY <2>1 DEF LoadX509KeyPair
  <2> QED  BY <1>6, <2>2, <2>3, Zenon DEF validateTLSFiles
<1>8. Accepted(dir') /\ Config(dir') = c
  BY <1>1, <1>3, <1>4, <1>5, <1>7, StillAccepted
<1> QED  BY <1>1, <1>3, <1>5, <1>6, <1>8

\* What a renewal tells of p.
LEMMA RenewedClient ==
  ASSUME Directory, Renew, NEW p \in DOMAIN Config(dir).on
  PROVE  /\ DOMAIN RenewedInfo.on = DOMAIN Config(dir).on
         /\ RenewedInfo.on[p].cred = Config(dir).on[p].cred
         /\ RenewedInfo.on[p].port = PublicPort(RenewClient, DeliveredPorts(RenewInfo), p)
         /\ RenewClient[p].port = Config(dir).on[p].port
         /\ p = "reality" => /\ RenewedInfo.on[p].public = dir[Config(dir).on[p].key].data.private
                             /\ RenewedInfo.on[p].shortID = Config(dir).on[p].shortID
                             /\ RenewedInfo.on[p].name = Config(dir).on[p].serverName
         /\ p # "reality" => /\ RenewedInfo.on[p].pin = gen + 1
                             /\ RenewedInfo.on[p].name = dir["tls.crt"].data.san
<1> DEFINE c == Config(dir)
           crt == [q \in DOMAIN c.on \cap TLSProtocols |-> [cert |-> gen + 1, san |-> CurrentTLS(dir, c).san]]
           client == RenewClient
<1>1. DOMAIN RenewedInfo.on = DOMAIN c.on
  BY RenewDomain
<1>2. client = ExistingClient(dir, c, crt)
  BY Zenon DEF RenewClient
<1>3. DOMAIN c.on \subseteq Protocols /\ CurrentTLS(dir, c) = dir["tls.crt"].data
  BY CurrentName
<1>4. p # "reality" => crt[p].cert = gen + 1 /\ crt[p].san = dir["tls.crt"].data.san
  BY <1>3 DEF Protocols, TLSProtocols
<1> HIDE DEF crt
<1>5. /\ DOMAIN client = DOMAIN c.on
      /\ IsClient(p, client[p]) /\ client[p].port = c.on[p].port /\ client[p].cred = c.on[p].cred
      /\ p = "reality" => /\ client[p].public = dir[c.on[p].key].data.private
                          /\ client[p].shortID = c.on[p].shortID
                          /\ client[p].name = c.on[p].serverName
      /\ p # "reality" => client[p].pin = gen + 1 /\ client[p].name = dir["tls.crt"].data.san
  BY <1>2, <1>4, Existing
<1>6. RenewedInfo.on[p] = [client[p] EXCEPT !.port = PublicPort(client, DeliveredPorts(RenewInfo), p)]
  BY <1>5 DEF RenewedInfo, ClientInfo
<1> HIDE DEF client, c
<1>7. /\ RenewedInfo.on[p].port = PublicPort(client, DeliveredPorts(RenewInfo), p)
      /\ RenewedInfo.on[p].cred = client[p].cred /\ RenewedInfo.on[p].name = client[p].name
      /\ p = "reality" => RenewedInfo.on[p].public = client[p].public /\ RenewedInfo.on[p].shortID = client[p].shortID
      /\ p # "reality" => RenewedInfo.on[p].pin = client[p].pin
  BY <1>5, <1>6, Repeated
<1> QED  BY <1>1, <1>5, <1>7 DEF client, c

LEMMA RenewWorks ==
  ASSUME Directory, Renew
  PROVE  Works(dir')
<1> DEFINE c == Config(dir)
           info == RenewedInfo
<1>1. /\ Accepted(dir) /\ Accepted(dir') /\ Config(dir') = c /\ DOMAIN c.on \subseteq Protocols
      /\ "reality" \in DOMAIN c.on => /\ dir'[c.on["reality"].key] = dir[c.on["reality"].key]
                                     /\ readRealityPrivateKey(dir, c.on["reality"].key)
      /\ \A p \in DOMAIN c.on \cap TLSProtocols : c.on[p].certificate = "tls.crt"
  BY RenewKeeps
<1>2. /\ Tells(dir', info)
      /\ dir'["tls.crt"] = Regular(Public, [cert |-> gen + 1, san |-> CurrentTLS(dir, c).san])
  BY RenewStep
<1>3. DOMAIN info.on = DOMAIN c.on
  BY RenewDomain
<1>4. /\ dir'["tls.crt"].data.cert = gen + 1
      /\ dir'["tls.crt"].data.san = dir["tls.crt"].data.san
      /\ Unrooted[dir["tls.crt"].data.san] = dir["tls.crt"].data.san
  <2>1. CurrentTLS(dir, c) = dir["tls.crt"].data /\ Unrooted[dir["tls.crt"].data.san] = dir["tls.crt"].data.san
    BY CurrentName
  <2>2. dir'["tls.crt"].data = [cert |-> gen + 1, san |-> CurrentTLS(dir, c).san]
    BY <1>2, RegularFile
  <2> QED  BY <2>1, <2>2
<1>5. ASSUME NEW p \in DOMAIN c.on
      PROVE  Serves(p, info.on[p], dir')
  <2>1. /\ info.on[p].cred = c.on[p].cred
        /\ p = "reality" => /\ info.on[p].public = dir[c.on[p].key].data.private
                            /\ info.on[p].shortID = c.on[p].shortID /\ info.on[p].name = c.on[p].serverName
        /\ p # "reality" => info.on[p].pin = gen + 1 /\ info.on[p].name = dir["tls.crt"].data.san
    BY RenewedClient
  <2> HIDE DEF info, c
  <2>2. p = "reality" => /\ readRealityPrivateKey(dir', c.on[p].key)
                         /\ info.on[p].public = dir'[c.on[p].key].data.private
    <3>1. HAVE p = "reality"
    <3>2. dir'[c.on[p].key] = dir[c.on[p].key] /\ readRealityPrivateKey(dir, c.on[p].key)
      BY <1>1, <3>1
    <3>3. readRealityPrivateKey(dir', c.on[p].key)
      BY <3>2, Zenon DEF readRealityPrivateKey
    <3> QED  BY <2>1, <3>1, <3>2, <3>3
  <2>3. KnowsServer(p, info.on[p], dir')
    BY <1>1, <2>1, <2>2, Zenon DEF KnowsServer
  <2>4. p \in TLSProtocols => /\ info.on[p].pin = dir'[c.on[p].certificate].data.cert
                              /\ Unrooted[info.on[p].name] = dir'[c.on[p].certificate].data.san
    <3>1. HAVE p \in TLSProtocols
    <3>2. p # "reality" /\ c.on[p].certificate = "tls.crt"
      BY <1>1, <3>1 DEF TLSProtocols
    <3> QED  BY <1>4, <2>1, <3>2
  <2> QED  BY <1>1, <2>3, <2>4, Zenon DEF Serves
<1> HIDE DEF info, c
<1>6. DOMAIN Config(dir').on \subseteq Protocols /\ DOMAIN info.on = DOMAIN Config(dir').on
  BY <1>1, <1>3
<1> QED  BY <1>1, <1>2, <1>5, <1>6, <1>3, WorksWhenTold

LEMMA GenerateWorks ==
  ASSUME Typed, NEW o \in GenerateOptions, Generate(o)
  PROVE  Works(dir') /\ Repeats(dir')
<1> DEFINE g == gen + 1
           c == GeneratedConfig(o, g)
           info == GeneratedInfo(o, g)
           client == GeneratedClient(o, g)
           P == ToSet(o.protocols)
<1>1. GenerateChecks(o)
  BY Zenon DEF Generate
<1>2. /\ P \subseteq Protocols /\ o.insecure \in BOOLEAN
      /\ \A p \in P : o.port[p] # 0
      /\ P \cap TLSProtocols # {} => o.san \in Name
  BY <1>1, Checked, PortFits
<1>3. g \in Nat /\ g > 0
  BY Bounds DEF Typed, TypeOK
<1>4. /\ dir'["config.json"] = Regular(Private, c) /\ Tells(dir', info)
      /\ "reality" \in P => dir'["reality.key"] = Regular(Private, [private |-> g])
      /\ P \cap TLSProtocols # {} =>
           /\ dir'["tls.crt"] = Regular(Public, [cert |-> g, san |-> Unrooted[o.san]])
           /\ dir'["tls.key"] = Regular(Private, [pair |-> g])
  BY GenerateStep DEF Typed
<1>5. Accepted(dir') /\ Config(dir') = c
  BY <1>1, <1>3, <1>4, NewConfigAccepted
<1>6. DOMAIN c.on = P
  BY ConfigParts
<1>7. /\ info.address = o.address /\ info.insecure \in BOOLEAN /\ (info.insecure => "anytls" \in DOMAIN info.on)
      /\ DOMAIN info.on = P
      /\ \A p \in P : info.on[p] = IF o.address = None THEN client[p]
                                   ELSE [client[p] EXCEPT !.port = PublicPort(client, o.public, p)]
  BY <1>2, GeneratedParts
<1>8. ASSUME NEW p \in P
      PROVE  /\ IsClient(p, client[p]) /\ client[p].port = o.port[p] /\ client[p].cred = NewCredential(g, p)
             /\ p = "reality" => client[p].public = g /\ client[p].shortID = g /\ client[p].name = o.serverName
             /\ p # "reality" => client[p].pin = g /\ client[p].name = o.san
             /\ c.on[p].cred = NewCredential(g, p)
             /\ p = "reality" => /\ c.on[p].key = "reality.key" /\ c.on[p].shortID = g
                                 /\ c.on[p].serverName = o.serverName
             /\ p # "reality" => c.on[p].certificate = "tls.crt"
  BY <1>2, Generated, ConfigSettings
<1> HIDE DEF g, c, info, client, P
<1>9. ASSUME NEW p \in P
      PROVE  info.on[p].port # 0 /\ Serves(p, info.on[p], dir')
  <2>1. /\ info.on[p].cred = client[p].cred /\ info.on[p].name = client[p].name
        /\ p = "reality" => info.on[p].public = client[p].public /\ info.on[p].shortID = client[p].shortID
        /\ p # "reality" => info.on[p].pin = client[p].pin
        /\ info.on[p].port # 0
    <3> DEFINE i == client[p]
               n == PublicPort(client, o.public, p)
    <3>1. IsClient(p, i) /\ i.port # 0 /\ (info.on[p] = i \/ info.on[p] = [i EXCEPT !.port = n])
      BY <1>2, <1>7, <1>8
    <3>2. n # 0
      BY <3>1, PublicPorts
    <3> HIDE DEF i, n
    <3>3. CASE info.on[p] = i
      BY <3>1, <3>3 DEF i
    <3>4. CASE info.on[p] = [i EXCEPT !.port = n]
      <4>1. /\ info.on[p].port = n /\ info.on[p].cred = i.cred /\ info.on[p].name = i.name
            /\ p = "reality" => info.on[p].public = i.public /\ info.on[p].shortID = i.shortID
            /\ p # "reality" => info.on[p].pin = i.pin
        BY <3>1, <3>4, Repeated
      <4> QED  BY <3>2, <4>1 DEF i
    <3> QED  BY <3>1, <3>3, <3>4
  <2>2. p = "reality" => /\ readRealityPrivateKey(dir', c.on[p].key)
                         /\ info.on[p].public = dir'[c.on[p].key].data.private
    <3>1. HAVE p = "reality"
    <3>2. c.on[p].key = "reality.key" /\ info.on[p].public = g
      BY <1>8, <2>1, <3>1
    <3>3. dir'["reality.key"].data = [private |-> g]
      BY <1>4, <3>1, RegularFile
    <3>4. readRealityPrivateKey(dir', "reality.key") /\ dir'["reality.key"].data.private = g
      BY <1>3, <3>3 DEF readRealityPrivateKey
    <3> QED  BY <3>2, <3>4
  <2>3. KnowsServer(p, info.on[p], dir')
    <3>1. info.on[p].cred = c.on[p].cred
      BY <1>8, <2>1
    <3>2. p = "reality" => info.on[p].shortID = c.on[p].shortID /\ info.on[p].name = c.on[p].serverName
      BY <1>8, <2>1
    <3> QED  BY <1>5, <1>6, <2>2, <3>1, <3>2, Zenon DEF KnowsServer
  <2>4. p \in TLSProtocols => /\ info.on[p].pin = dir'[c.on[p].certificate].data.cert
                              /\ Unrooted[info.on[p].name] = dir'[c.on[p].certificate].data.san
    <3>1. HAVE p \in TLSProtocols
    <3>2. p # "reality" /\ P \cap TLSProtocols # {}
      BY <3>1 DEF TLSProtocols
    <3>3. dir'["tls.crt"].data = [cert |-> g, san |-> Unrooted[o.san]]
      BY <1>4, <3>2, RegularFile
    <3>4. c.on[p].certificate = "tls.crt" /\ info.on[p].pin = g /\ info.on[p].name = o.san
      BY <1>8, <2>1, <3>2
    <3> QED  BY <3>3, <3>4
  <2> QED  BY <1>5, <2>1, <2>3, <2>4, Zenon DEF Serves
<1>10. DOMAIN Config(dir').on \subseteq Protocols /\ DOMAIN info.on = DOMAIN Config(dir').on
  BY <1>2, <1>5, <1>6, <1>7
<1> QED  BY <1>4, <1>5, <1>7, <1>9, <1>10, WorksWhenTold, RepeatsWhenTold

-----------------------------------------------------------------------------

LEMMA RenewPorts ==
  ASSUME Directory, Renew, NEW p \in DOMAIN RenewedInfo.on
  PROVE  /\ RenewedInfo.on[p].port # 0
         /\ p \in DOMAIN RenewInfo.on /\ RenewInfo.on[p].port # 0 => RenewedInfo.on[p].port = RenewInfo.on[p].port
<1>1. p \in DOMAIN Config(dir).on /\ p \in Protocols
  BY RenewDomain, CurrentName
<1>2. /\ RenewedInfo.on[p].port = PublicPort(RenewClient, DeliveredPorts(RenewInfo), p)
      /\ RenewClient[p].port = Config(dir).on[p].port
  BY <1>1, RenewedClient
<1>3. Config(dir).on[p].port # 0
  BY <1>1, RenewKeeps, AcceptedPorts
<1>4. DeliveredPorts(RenewInfo)[p] = IF p \in DOMAIN RenewInfo.on THEN RenewInfo.on[p].port ELSE 0
  BY <1>1 DEF DeliveredPorts
<1>5. PublicPort(RenewClient, DeliveredPorts(RenewInfo), p) =
        IF DeliveredPorts(RenewInfo)[p] = 0 THEN RenewClient[p].port ELSE DeliveredPorts(RenewInfo)[p]
  BY DEF PublicPort
<1> DEFINE ports == DeliveredPorts(RenewInfo)
           old == RenewInfo
           new == RenewedInfo.on[p].port
           here == Config(dir).on[p].port
<1>6. /\ new = IF ports[p] = 0 THEN here ELSE ports[p]
      /\ ports[p] = IF p \in DOMAIN old.on THEN old.on[p].port ELSE 0
      /\ here # 0
  BY <1>2, <1>3, <1>4, <1>5
<1> HIDE DEF ports, old, new, here
<1>7. new # 0 /\ (p \in DOMAIN old.on /\ old.on[p].port # 0 => new = old.on[p].port)
  BY <1>6, Zenon
<1> QED  BY <1>7 DEF old, new

LEMMA RenewedInsecure ==
  RenewedInfo.insecure = (RenewInfo.insecure /\ "anytls" \in DOMAIN Config(dir).on)
BY DEF RenewedInfo, RenewClient, ExistingClient, ClientInfo

LEMMA RenewRepeats ==
  ASSUME Directory, Renew
  PROVE  Repeats(dir')
<1>1. Tells(dir', RenewedInfo)
  BY RenewStep
<1>2. /\ RenewedInfo.insecure = (RenewInfo.insecure /\ "anytls" \in DOMAIN Config(dir).on)
      /\ DOMAIN RenewedInfo.on = DOMAIN Config(dir).on
  BY RenewedInsecure, RenewDomain
<1>3. RenewedInfo.insecure \in BOOLEAN /\ (RenewedInfo.insecure => "anytls" \in DOMAIN RenewedInfo.on)
  BY <1>2
<1> QED  BY <1>1, <1>3, RenewPorts, RepeatsWhenTold

LEMMA DeliversInit ==
  Init => Delivers
BY Zenon DEF Init, Delivers

LEMMA DeliversNext ==
  ASSUME Typed, Delivers, [Next]_vars
  PROVE  Delivers'
<1> SUFFICES ASSUME current'
             PROVE  Works(dir') /\ Repeats(dir')
  BY Zenon DEF Delivers
<1>1. Directory
  BY DEF Typed
<1>2. ASSUME NEW o \in GenerateOptions, Generate(o)
      PROVE  Works(dir') /\ Repeats(dir')
  BY <1>2, GenerateWorks
<1>3. ASSUME NEW o \in DeliverOptions, Deliver(o)
      PROVE  Works(dir') /\ Repeats(dir')
  BY <1>1, <1>3, DeliverDelivers
<1>4. CASE Renew
  BY <1>1, <1>4, RenewWorks, RenewRepeats
<1>5. ASSUME NEW e \in Patches, Edit(e)
      PROVE  FALSE
  BY <1>5, Zenon DEF Edit
<1>6. ASSUME NEW s \in Spoils, Spoil(s)
      PROVE  FALSE
  BY <1>6, Zenon DEF Spoil
<1>7. CASE Import \/ UNCHANGED vars
  <2>1. dir' = dir /\ current
    BY <1>7, Zenon DEF Import, vars
  <2>2. Works(dir) /\ Repeats(dir)
    BY <2>1, Zenon DEF Delivers
  <2> QED  BY <2>1, <2>2, Zenon
<1> QED  BY <1>2, <1>3, <1>4, <1>5, <1>6, <1>7, Zenon DEF Next

LEMMA DeliveryInvariant ==
  Spec => [](Typed /\ Delivers)
<1>1. Init => Typed /\ Delivers
  BY InitTyped, DeliversInit
<1>2. Typed /\ Delivers /\ [Next]_vars => (Typed /\ Delivers)'
  BY NextTyped, DeliversNext
<1> QED  BY <1>1, <1>2, PTL DEF Spec

\* As long as nobody edits anything, what generate, deliver or a renewal has
\* delivered last is for exactly the protocols of the server, authenticates it,
\* and is in every file (deliver.go, generate.go, renew.go).
THEOREM AlwaysDeliveredWorks == Spec => []DeliveredWorks
<1>1. Typed /\ Delivers => DeliveredWorks
  BY Zenon DEF Delivers, Works, DeliveredWorks
<1> QED  BY <1>1, DeliveryInvariant, PTL

\* A renewal keeps every Reality client, and the credentials of the others
\* (renew.go).
THEOREM RenewalAlwaysKeepsClients == Spec => RenewalKeepsClients
<1>1. ASSUME Typed, [Next]_vars
      PROVE  [Renew => \A p \in DOMAIN imported.on :
                Accepted(dir) /\ KnowsServer(p, imported.on[p], dir) => KnowsServer(p, imported.on[p], dir')]_vars
  <2> SUFFICES ASSUME Renew, NEW p \in DOMAIN imported.on, KnowsServer(p, imported.on[p], dir)
               PROVE  KnowsServer(p, imported.on[p], dir')
    OBVIOUS
  <2>1. /\ Config(dir') = Config(dir)
        /\ "reality" \in DOMAIN Config(dir).on =>
             dir'[Config(dir).on["reality"].key] = dir[Config(dir).on["reality"].key]
    BY <1>1, RenewKeeps DEF Typed
  <2>2. p \in DOMAIN Config(dir).on /\ imported.on[p].cred = Config(dir).on[p].cred
    BY Zenon DEF KnowsServer
  <2>3. p = "reality" =>
          /\ readRealityPrivateKey(dir', Config(dir).on[p].key)
          /\ imported.on[p].public = dir'[Config(dir).on[p].key].data.private
          /\ imported.on[p].shortID = Config(dir).on[p].shortID /\ imported.on[p].name = Config(dir).on[p].serverName
    <3>1. HAVE p = "reality"
    <3>2. dir'[Config(dir).on[p].key] = dir[Config(dir).on[p].key]
      BY <2>1, <2>2, <3>1
    <3>3. /\ readRealityPrivateKey(dir, Config(dir).on[p].key)
          /\ imported.on[p].public = dir[Config(dir).on[p].key].data.private
          /\ imported.on[p].shortID = Config(dir).on[p].shortID /\ imported.on[p].name = Config(dir).on[p].serverName
      BY <3>1, Zenon DEF KnowsServer
    <3> QED  BY <3>2, <3>3, Zenon DEF readRealityPrivateKey
  <2> QED  BY <2>1, <2>2, <2>3, Zenon DEF KnowsServer
<1>2. Spec => []Typed
  BY DeliveryInvariant, PTL
<1> QED  BY <1>1, <1>2, PTL DEF Spec, RenewalKeepsClients

\* A renewal delivers again what was delivered: address, public ports, names, and
\* the unauthenticated link if there was one (renew.go).
THEOREM RenewalAlwaysRepeatsDelivery == Spec => RenewalRepeatsDelivery
<1>1. ASSUME Typed, Delivers, [Next]_vars
      PROVE  [Renew /\ current => SameDelivery(Info(dir), Info(dir'))]_vars
  <2> SUFFICES ASSUME Renew, current
               PROVE  SameDelivery(Info(dir), Info(dir'))
    OBVIOUS
  <2> DEFINE old == Info(dir)
             new == RenewedInfo
             c == Config(dir)
  <2>1. Directory /\ Works(dir) /\ Repeats(dir)
    BY <1>1 DEF Delivers, Typed
  <2>2. Info(dir') = new
    BY <2>1, RenewStep, Told
  <2>3. old = RenewInfo
    BY DEF Info, RenewInfo
  <2>4. /\ DOMAIN old.on = DOMAIN c.on /\ DOMAIN new.on = DOMAIN c.on /\ DOMAIN c.on \subseteq Protocols
        /\ \A p \in DOMAIN old.on : Serves(p, old.on[p], dir)
    BY <2>1, RenewDomain, CurrentName, Zenon DEF Works
  <2>5. new.address = old.address
    BY <2>3 DEF RenewedInfo, ClientInfo
  <2>6. new.insecure = old.insecure
    <3>1. new.insecure = (old.insecure /\ "anytls" \in DOMAIN c.on)
      BY <2>3, RenewedInsecure
    <3>2. old.insecure \in BOOLEAN /\ (old.insecure => "anytls" \in DOMAIN old.on)
      BY <2>1, Zenon DEF Repeats
    <3> HIDE DEF old, new, c
    <3> QED  BY <2>4, <3>1, <3>2
  <2>7. ASSUME NEW p \in DOMAIN old.on
        PROVE  new.on[p].port = old.on[p].port /\ Unrooted[new.on[p].name] = Unrooted[old.on[p].name]
    <3>1. new.on[p].port = old.on[p].port
      <4>1. old.on[p].port # 0
        BY <2>1, Zenon DEF Repeats
      <4> QED  BY <2>1, <2>3, <2>4, <4>1, RenewPorts
    <3>2. p \in DOMAIN c.on /\ Serves(p, old.on[p], dir)
      BY <2>4
    <3>3. CASE p = "reality"
      <4>1. new.on[p].name = c.on[p].serverName
        BY <2>1, <3>2, <3>3, RenewedClient
      <4>2. old.on[p].name = c.on[p].serverName
        BY <3>2, <3>3, Zenon DEF Serves, KnowsServer
      <4> QED  BY <3>1, <4>1, <4>2
    <3>4. CASE p # "reality"
      <4>1. new.on[p].name = dir["tls.crt"].data.san
        BY <2>1, <3>2, <3>4, RenewedClient
      <4>2. p \in TLSProtocols
        BY <2>4, <3>2, <3>4 DEF Protocols, TLSProtocols
      <4>3. c.on[p].certificate = "tls.crt"
        BY <2>1, <3>2, <4>2, RenewKeeps
      <4>4. Unrooted[old.on[p].name] = dir["tls.crt"].data.san
        BY <3>2, <4>2, <4>3, Zenon DEF Serves
      <4>5. Unrooted[dir["tls.crt"].data.san] = dir["tls.crt"].data.san
        BY <2>1, CurrentName
      <4> QED  BY <3>1, <4>1, <4>4, <4>5
    <3> QED  BY <3>3, <3>4
  <2> HIDE DEF old, new, c
  <2>8. SameDelivery(old, new)
    BY <2>4, <2>5, <2>6, <2>7, Zenon DEF SameDelivery
  <2> QED  BY <2>2, <2>8 DEF old
<1> QED  BY <1>1, DeliveryInvariant, PTL DEF Spec, RenewalRepeatsDelivery
=============================================================================
