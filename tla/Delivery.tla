------------------------------ MODULE Delivery ------------------------------
(***************************************************************************)
(* The commands of internal/app that make a server's directory and what    *)
(* its clients import: generate, deliver, and renew-certificate as         *)
(* mini-singboxctl installs it, one after the other, with an administrator *)
(* who edits the configuration and replaces files in between.              *)
(*                                                                         *)
(* A command is one step.  What it writes, secret.WriteFiles replaces as a *)
(* whole or not at all (AtomicFiles), and an installation of renewed files *)
(* that fails is put back (RenewCertificate), so that a command that fails *)
(* leaves everything as it was and is no step of its own.                  *)
(* A generation number stands for everything random that a command makes:  *)
(* credentials, key pairs and certificates.                                *)
(***************************************************************************)
EXTENDS ServerConfig, SequencesExt

CONSTANTS
  GenerateOptions, \* the arguments of generate
  DeliverOptions,  \* those of deliver
  Patches,         \* the administrator's edits: a protocol or None, and new values of its fields
  Spoils,          \* the files he puts in the place of others
  Own,             \* files that are there from the beginning, like his own certificate
  MaxGen,          \* bound: generations
  MaxEdit          \* bound: edits and replaced files

VARIABLES
  dir,      \* the server's directory
  gen,      \* the last generation made
  edits,    \* the edits so far
  current,  \* history: nothing was edited since client-info.json was written
  imported  \* history: the client-info.json that a user imported

vars == <<dir, gen, edits, current, imported>>

NoInfo == [address |-> None, insecure |-> FALSE, on |-> <<>>]

\* "client-anytls" is both AnyTLS client files, which have the same settings.
ShareFile == [p \in Protocols |-> CASE p = "reality" -> {"share-reality.txt"}
                                    [] p = "hy2" -> {"share-hysteria2.txt"}
                                    [] p = "anytls" -> {"client-anytls", "share-anytls-v2rayn.txt"}]

\* Generated credentials are all different.
NewCredential(g, p) == 10 * g + Order[p]

-----------------------------------------------------------------------------
(* What generate, deliver and renew-certificate share.                     *)

\* net.ParseIP or validGenerateDNSName.
validHost(name) == name \in (IP \ Zoned) \cup DNS

validatePublicAddress(address) == validHost(address)

\* Variant: the listening port is delivered whatever was asked for.
PublicPortListening(on, public, p) == on[p].port

\* resolvePublicPort: 0 is the listening port.
PublicPort(on, public, p) == IF public[p] = 0 THEN on[p].port ELSE public[p]

\* Only Reality and AnyTLS can collide, Hysteria2 is UDP.
applyPublicPorts(on, public) ==
  /\ \A p \in DOMAIN on : public[p] \in 0..65535
  /\ {"reality", "anytls"} \subseteq DOMAIN on =>
       PublicPort(on, public, "reality") # PublicPort(on, public, "anytls")

\* The clientInfo of protocols on, as buildDeliveryFiles completes it.
ClientInfo(on, address, public, insecure) ==
  [address |-> address, insecure |-> insecure /\ "anytls" \in DOMAIN on,
   on |-> [p \in DOMAIN on |-> [on[p] EXCEPT !.port = PublicPort(on, public, p)]]]

\* The files of buildDeliveryFiles: each has the settings of its protocol.
DeliveryFiles(info) ==
  [f \in (UNION {ShareFile[p] : p \in DOMAIN info.on})
           \cup (IF info.insecure THEN {"share-anytls.txt"} ELSE {}) |->
     LET p == IF f = "share-anytls.txt" THEN "anytls"
              ELSE CHOOSE q \in DOMAIN info.on : f \in ShareFile[q]
     IN  Regular(Private, [address |-> info.address, share |-> info.on[p]])]

\* The names of all that a delivery can have.
DeliveredNames == {"client-info.json", "share-anytls.txt"} \cup (UNION {ShareFile[p] : p \in Protocols})

InfoFile(info) == [f \in {"client-info.json"} |-> Regular(Private, [info |-> info])]

TLSFiles(g, san) ==
  [f \in {"tls.crt", "tls.key"} |->
     IF f = "tls.crt" THEN Regular(Public, [cert |-> g, san |-> Unrooted[san]])
                      ELSE Regular(Private, [pair |-> g])]

\* WriteFiles into a directory: its opening check.
MayWrite(d, files, force) ==
  \A f \in DOMAIN files : d[f].kind = "none" \/ (force /\ d[f].kind = "regular")

Written(d, files) == [f \in File |-> IF f \in DOMAIN files THEN files[f] ELSE d[f]]

\* A function with the entries of f, and those of g where f has none.
With(f, g) == [x \in DOMAIN f \cup DOMAIN g |-> IF x \in DOMAIN f THEN f[x] ELSE g[x]]

-----------------------------------------------------------------------------
(* generate.                                                               *)

normalizeProtocols(protocols) ==
  /\ protocols # <<>>
  /\ ToSet(protocols) \subseteq Protocols
  /\ IsInjective(protocols)

\* Variant: as if a port had only to be a port.
PortInRangeOfAll(port) == port \in Port
GeneratePort(port) == port \in UserPort

\* The checks before anything is written.
GenerateChecks(o) ==
  LET P == ToSet(o.protocols) IN
  /\ normalizeProtocols(o.protocols)
  /\ o.listen \in IP
  /\ \A p \in P : GeneratePort(o.port[p])
  /\ \A p, q \in P : p # q => o.port[p] # o.port[q]
  /\ IF o.address # None THEN validatePublicAddress(o.address)
                         ELSE \A p \in Protocols : o.public[p] = 0
  /\ "reality" \in P =>
       /\ o.host # None /\ o.hostPort \in Port
       /\ o.serverName \in DNS
       /\ validHost(o.host)
  /\ P \cap TLSProtocols # {} => validHost(o.san)

\* The configuration: a new credential per protocol, and the files of the set.
GeneratedConfig(o, g) ==
  [schema |-> 1, level |-> "warn", on |-> [p \in ToSet(o.protocols) |->
     LET base == [listen |-> o.listen, port |-> o.port[p], cred |-> NewCredential(g, p)] IN
     CASE p = "reality" -> With(base, [key |-> "reality.key", shortID |-> g, serverName |-> o.serverName,
                                       host |-> o.host, hostPort |-> o.hostPort])
       [] p = "hy2" -> With(base, [certificate |-> "tls.crt", key |-> "tls.key", up |-> Unset, down |-> Unset])
       [] p = "anytls" -> With(base, [certificate |-> "tls.crt", key |-> "tls.key"])]]

\* What it tells its clients: the TLS name as it was given.
GeneratedClient(o, g) ==
  [p \in ToSet(o.protocols) |->
     LET base == [port |-> o.port[p], cred |-> NewCredential(g, p)] IN
     IF p = "reality" THEN With(base, [public |-> g, shortID |-> g, name |-> o.serverName])
                      ELSE With(base, [pin |-> g, name |-> o.san])]

GeneratedInfo(o, g) ==
  IF o.address = None THEN [NoInfo EXCEPT !.on = GeneratedClient(o, g)]
  ELSE ClientInfo(GeneratedClient(o, g), o.address, o.public, o.insecure)

GeneratedFiles(o, g) ==
  LET P == ToSet(o.protocols) IN
  With(InfoFile(GeneratedInfo(o, g)),
  With([f \in {"config.json"} |-> Regular(Private, GeneratedConfig(o, g))],
  With(IF "reality" \in P THEN [f \in {"reality.key"} |-> Regular(Private, [private |-> g])] ELSE <<>>,
  With(IF P \cap TLSProtocols # {} THEN TLSFiles(g, o.san) ELSE <<>>,
       IF o.address # None THEN DeliveryFiles(GeneratedInfo(o, g)) ELSE <<>>))))

\* The configuration is decoded and validated only after it was written: if
\* that failed the answer would be an error, and the old files be gone.
Generate(o) ==
  /\ gen < MaxGen /\ gen' = gen + 1
  /\ GenerateChecks(o)
  /\ o.address # None => applyPublicPorts(GeneratedClient(o, gen + 1), o.public)
  /\ LET files == GeneratedFiles(o, gen + 1) IN
     /\ MayWrite(dir, files, o.force)
     /\ dir' = Written(dir, files)
  /\ current' = TRUE
  /\ UNCHANGED <<edits, imported>>

-----------------------------------------------------------------------------
(* deliver.                                                                *)

\* tlsClientInfo: a certificate without a subject alternative name is refused.
HasSAN(d, c) == \A p \in DOMAIN c.on \cap TLSProtocols : d[c.on[p].certificate].data.san # None

\* What clients are told of an existing configuration; certificate[p] is the
\* generation of the certificate and the name in it.
ExistingClient(d, c, certificate) ==
  [p \in DOMAIN c.on |->
     LET base == [port |-> c.on[p].port, cred |-> c.on[p].cred] IN
     IF p = "reality"
       THEN With(base, [public |-> d[c.on[p].key].data.private, shortID |-> c.on[p].shortID,
                        name |-> c.on[p].serverName])
       ELSE With(base, [pin |-> certificate[p].cert, name |-> certificate[p].san])]

DeliveredClient(d) ==
  LET c == Config(d) IN ExistingClient(d, c, [p \in DOMAIN c.on \cap TLSProtocols |-> d[c.on[p].certificate].data])

Deliver(o) ==
  /\ validatePublicAddress(o.address)
  /\ Accepted(dir)
  /\ HasSAN(dir, Config(dir))
  /\ applyPublicPorts(DeliveredClient(dir), o.public)
  /\ LET info  == ClientInfo(DeliveredClient(dir), o.address, o.public, o.insecure)
         files == With(InfoFile(info), DeliveryFiles(info))
     IN /\ MayWrite(dir, files, o.force)
        /\ dir' = Written(dir, files)
  /\ current' = TRUE
  /\ UNCHANGED <<gen, edits, imported>>

-----------------------------------------------------------------------------
(* mini-singboxctl certificate renew.                                      *)

\* Variant: only the first protocol with a certificate is looked at.
validateFirstTLSPaths(c) ==
  "hy2" \in DOMAIN c.on => c.on["hy2"].certificate = "tls.crt" /\ c.on["hy2"].key = "tls.key"

\* Every protocol with a certificate uses the files that will be replaced.
validateManagedTLSPaths(c) ==
  \A p \in DOMAIN c.on \cap TLSProtocols :
    c.on[p].certificate = "tls.crt" /\ c.on[p].key = "tls.key"

\* Hysteria2's certificate, if there is one: the new one gets its name.
CurrentTLS(d, c) ==
  d[c.on[IF "hy2" \in DOMAIN c.on THEN "hy2" ELSE "anytls"].certificate].data

RenewedFiles(d, g, address, public, insecure) ==
  LET c == Config(d)
      san == CurrentTLS(d, c).san
      client == ExistingClient(d, c, [p \in DOMAIN c.on \cap TLSProtocols |-> [cert |-> g, san |-> san]])
      info == ClientInfo(client, address, public, insecure)
  IN With(InfoFile(info), With(TLSFiles(g, san), DeliveryFiles(info)))

\* Variant: the ports are not passed on.
NoPorts(info) == [p \in Protocols |-> 0]

\* The ports of client-info.json, 0 for a protocol it does not have.
DeliveredPorts(info) ==
  [p \in Protocols |-> IF p \in DOMAIN info.on THEN info.on[p].port ELSE 0]

\* Variant: the Reality key counts as one of them.
RENEWAL_FILES_AND_KEY ==
  {"tls.crt", "tls.key", "reality.key", "client-info.json", "client-anytls", "share-reality.txt",
   "share-hysteria2.txt", "share-anytls-v2rayn.txt", "share-anytls.txt"}

RENEWAL_FILES == {"tls.crt", "tls.key", "client-info.json", "client-anytls", "share-reality.txt",
                  "share-hysteria2.txt", "share-anytls-v2rayn.txt", "share-anytls.txt"}

\* Variant: what was not renewed is forgotten instead of removed.
InstalledAlone(d, files) == files

\* The installation: what was not renewed is removed.
Installed(d, files) ==
  [f \in File |-> IF f \in DOMAIN files THEN files[f]
                  ELSE IF f \in RENEWAL_FILES THEN NoFile ELSE d[f]]

Renew ==
  /\ gen < MaxGen /\ gen' = gen + 1
  /\ dir["client-info.json"].kind = "regular"
  /\ LET info  == dir["client-info.json"].data.info
         ports == DeliveredPorts(info)
         c     == Config(dir)
     IN /\ info.address # None
        /\ validatePublicAddress(info.address)
        /\ Accepted(dir)
        /\ DOMAIN c.on \cap TLSProtocols # {}
        /\ validateManagedTLSPaths(c)
        /\ CurrentTLS(dir, c).san # None
        /\ validHost(CurrentTLS(dir, c).san)
        /\ applyPublicPorts(c.on, ports)
        /\ dir' = Installed(dir, RenewedFiles(dir, gen + 1, info.address, ports, info.insecure))
  /\ current' = TRUE
  /\ UNCHANGED <<edits, imported>>

-----------------------------------------------------------------------------
(* The administrator and the users.                                        *)

\* A file named f can be x: a configuration has no protocols but the known
\* ones, client-info.json is what a command wrote, a name in a certificate has
\* no dot at its end, no file is a Reality key and TLS material at once (one is
\* base64, the other PEM), and neither is kept under a name that deliver writes.
IsFile(f, x) ==
  LET key == "private" \in DOMAIN x.data
      tls == {"cert", "pair"} \cap DOMAIN x.data # {}
  IN
  /\ \/ x = NoFile
     \/ x.kind # "none" /\ x = [kind |-> x.kind, mode |-> x.mode, data |-> x.data]
  /\ f = "config.json" /\ "on" \in DOMAIN x.data => DOMAIN x.data.on \subseteq Protocols
  /\ f = "client-info.json" /\ x.kind = "regular" => DOMAIN x.data.info.on \subseteq Protocols
  /\ "cert" \in DOMAIN x.data =>
       x.data.san = None \/ (x.data.san \in Name /\ Unrooted[x.data.san] = x.data.san)
  /\ ~(key /\ tls)
  /\ f \in {"config.json"} \cup DeliveredNames => ~key /\ ~tls

\* The parameters are of these types; the administrator writes fields that
\* Decode knows, and puts files where they can be.
ASSUME DeliveryAssumption ==
  /\ MaxGen \in Nat /\ MaxEdit \in Nat
  /\ RENEWAL_FILES \cup {"config.json", "reality.key"} \subseteq File
  /\ \A o \in GenerateOptions : o.protocols \in Seq(STRING) /\ o.insecure \in BOOLEAN
  /\ \A o \in DeliverOptions : o.insecure \in BOOLEAN
  /\ \A e \in Patches : e.protocol = None =>
       /\ DOMAIN e.set \subseteq {"schema", "level", "on"}
       /\ "on" \in DOMAIN e.set => DOMAIN e.set.on \subseteq Protocols
  /\ \A s \in Spoils : s.file \in File /\ IsFile(s.file, s.by)
  /\ DOMAIN Own \subseteq File /\ \A f \in DOMAIN Own : IsFile(f, Own[f])

MayEdit == edits < MaxEdit /\ edits' = edits + 1

Edit(e) ==
  /\ MayEdit
  /\ DecodeFile(dir)
  /\ \/ /\ e.protocol = None
        /\ dir' = [dir EXCEPT !["config.json"].data = With(e.set, @)]
     \/ /\ e.protocol \in DOMAIN Config(dir).on
        /\ dir' = [dir EXCEPT !["config.json"].data.on[e.protocol] = With(e.set, @)]
  /\ current' = FALSE
  /\ UNCHANGED <<gen, imported>>

\* A file replaced by hand, or by another tool.
Spoil(s) ==
  /\ MayEdit
  /\ dir[s.file] # s.by
  /\ dir' = [dir EXCEPT ![s.file] = s.by]
  /\ current' = FALSE
  /\ UNCHANGED <<gen, imported>>

\* One user, who imports once.
Import ==
  /\ imported = NoInfo
  /\ dir["client-info.json"].kind = "regular"
  /\ imported' = dir["client-info.json"].data.info
  /\ UNCHANGED <<dir, gen, edits, current>>

Init ==
  /\ dir = With(Own, [f \in File |-> NoFile])
  /\ gen = 0 /\ edits = 0
  /\ current = FALSE
  /\ imported = NoInfo

Next ==
  \/ \E o \in GenerateOptions : Generate(o)
  \/ \E o \in DeliverOptions : Deliver(o)
  \/ Renew
  \/ \E e \in Patches : Edit(e)
  \/ \E s \in Spoils : Spoil(s)
  \/ Import

Spec == Init /\ [][Next]_vars

-----------------------------------------------------------------------------
(* Properties.                                                             *)

Info(d) == d["client-info.json"].data.info

\* The settings a client has of a protocol are the server's, its certificate
\* left aside.
KnowsServer(p, i, d) ==
  /\ p \in DOMAIN Config(d).on
  /\ i.cred = Config(d).on[p].cred
  /\ p = "reality" => LET s == Config(d).on[p] IN
                     /\ readRealityPrivateKey(d, s.key) /\ i.public = d[s.key].data.private
                     /\ i.shortID = s.shortID /\ i.name = s.serverName

\* And they authenticate the server: pin and name are its certificate's.
Serves(p, i, d) ==
  /\ KnowsServer(p, i, d)
  /\ p \in TLSProtocols => LET crt == d[Config(d).on[p].certificate].data IN
                          i.pin = crt.cert /\ Unrooted[i.name] = crt.san

TypeOK ==
  /\ DOMAIN dir = File
  /\ \A f \in File : dir[f].kind = "none" => dir[f] = NoFile
  /\ gen \in 0..MaxGen /\ edits \in 0..MaxEdit
  /\ DOMAIN imported.on \subseteq Protocols

\* What generate, deliver or a renewal last delivered is for exactly the
\* protocols the server has, authenticates it, and is in every file that
\* client-info.json names; and the server still accepts its configuration.
DeliveredWorks ==
  current =>
    LET info == Info(dir) IN
    /\ Accepted(dir)
    /\ DOMAIN info.on = DOMAIN Config(dir).on
    /\ \A p \in DOMAIN info.on :
         /\ Serves(p, info.on[p], dir)
         /\ info.address # None =>
              \A f \in ShareFile[p] : dir[f].data = [address |-> info.address, share |-> info.on[p]]

\* The inbounds of a configuration listen where it says, and Reality's borrows
\* from the port it says: no port came out of uint16 as another.
AsConfigured(inbounds, c) ==
  \A p \in DOMAIN c.on : \E i \in inbounds :
    /\ i.tag = Tag[p] /\ i.listen = c.on[p].listen /\ i.port = c.on[p].port
    /\ p = "reality" => i.hostPort = c.on[p].hostPort

\* What check accepts, run can start (validate.go, convert.go): no two inbounds
\* are at one port of a transport, each has a key that decodes or a certificate
\* with its key, and each is at the address and port that are configured.
AcceptedStarts ==
  Accepted(dir) =>
    LET inbounds == Convert(dir, Config(dir)) IN
    BoxStarts(inbounds) /\ AsConfigured(inbounds, Config(dir))

\* What generate has put in the place of the old configuration, Validate does
\* not refuse: its own, different, checks are the stronger ones, so that it
\* never answers with an error when the old files are gone (generate.go:214-224).
GeneratedAccepted ==
  [][gen' # gen /\ dir'["config.json"] # dir["config.json"] => Accepted(dir')]_vars

\* A renewal makes no client import anything but a certificate: Reality clients
\* go on, and the others keep their credentials (renew.go:29-32).
RenewalKeepsClients ==
  [][Renew => \A p \in DOMAIN imported.on :
       Accepted(dir) /\ KnowsServer(p, imported.on[p], dir)
         => KnowsServer(p, imported.on[p], dir')]_vars

\* A renewal delivers what the last delivery did, but for the pins: the address,
\* the public ports, and the unauthenticated link if there was one.
SameDelivery(old, new) ==
  /\ new.address = old.address /\ new.insecure = old.insecure
  /\ DOMAIN new.on = DOMAIN old.on
  /\ \A p \in DOMAIN old.on : /\ new.on[p].port = old.on[p].port
                              /\ Unrooted[new.on[p].name] = Unrooted[old.on[p].name]

RenewalRepeatsDelivery ==
  [][Renew /\ current => SameDelivery(Info(dir), Info(dir'))]_vars
=============================================================================
