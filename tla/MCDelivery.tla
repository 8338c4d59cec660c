----------------------------- MODULE MCDelivery -----------------------------
(***************************************************************************)
(* Delivery with a usual command line, and every one that differs from it  *)
(* in an argument the code checks, and the same for the configuration.     *)
(***************************************************************************)
EXTENDS Delivery

MCUnrooted == [n \in Name |-> IF n = "a.example." THEN "a.example" ELSE n]

Ports(r, h, a) == [p \in Protocols |-> CASE p = "reality" -> r [] p = "hy2" -> h [] p = "anytls" -> a]

NoPublic == Ports(0, 0, 0)
Mapped   == Ports(443, 444, 445)
Listening == Ports(20001, 20002, 20003)

All == [protocols |-> <<"reality", "hy2", "anytls">>, listen |-> "192.0.2.1", address |-> "b.example",
        port |-> Listening, public |-> NoPublic, serverName |-> "a.example", host |-> "b.example",
        hostPort |-> 443, san |-> "a.example", insecure |-> FALSE, force |-> FALSE]

\* Over an older set, with force: other protocols, or another delivery.
Again == [All EXCEPT !.force = TRUE]

MCGenerateOptions ==
  {All, Again, [Again EXCEPT !.address = None], [Again EXCEPT !.insecure = TRUE, !.public = Mapped]}
  \cup {[Again EXCEPT !.protocols = P] : P \in {<<"reality">>, <<"hy2">>, <<"anytls", "reality">>}}
  \cup {[All EXCEPT !.protocols = P] : P \in {<<>>, <<"hy2", "hy2">>, <<"shadowsocks">>}}
  \cup {[All EXCEPT !.listen = n] : n \in {"fe80::1%eth0", "a.example"}}
  \cup {[All EXCEPT !.address = n] : n \in {"fe80::1%eth0", "-bad-"}}
  \cup {[All EXCEPT !.serverName = n] : n \in {"192.0.2.1", "a.example.", None}}
  \cup {[All EXCEPT !.host = n] : n \in {"192.0.2.1", "fe80::1%eth0", None}}
  \cup {[All EXCEPT !.hostPort = n] : n \in {0, 65535, 65536}}
  \cup {[All EXCEPT !.san = n] : n \in {"192.0.2.1", "a.example.", "-bad-"}}
  \cup {[All EXCEPT !.port = [@ EXCEPT !["anytls"] = n]] : n \in {1023, 1024, 65535, 65536, 20001, 20002}}
  \cup {[All EXCEPT !.public = n] : n \in {Ports(20003, 0, 0), Ports(0, 20001, 0), Ports(65536, 0, 0)}}
  \cup {[All EXCEPT !.public = Mapped, !.address = None]}

AtHome == [address |-> "192.0.2.1", public |-> NoPublic, insecure |-> FALSE, force |-> TRUE]

MCDeliverOptions ==
  {AtHome, [AtHome EXCEPT !.force = FALSE], [AtHome EXCEPT !.insecure = TRUE],
   [AtHome EXCEPT !.address = "-bad-"]}
  \cup {[AtHome EXCEPT !.public = n] : n \in {Mapped, Ports(20003, 0, 0), Ports(0, 0, -1)}}

Patch(p, f, V) == {[protocol |-> p, set |-> [x \in {f} |-> v]] : v \in V}

\* 12 is the Hysteria2 password of the first generation; 85539 is 20003 in
\* sixteen bits, and 70000 is 4464.
MCPatches ==
  Patch(None, "schema", {2}) \cup Patch(None, "level", {"", "info"}) \cup Patch(None, "on", {<<>>})
  \cup Patch("reality", "hostPort", {0, 65536}) \cup Patch("reality", "serverName", {"192.0.2.1", "b.example"})
  \cup Patch("reality", "host", {"fe80::1%eth0", "-bad-"}) \cup Patch("reality", "key", {"tls.key", None})
  \cup Patch("reality", "shortID", {0}) \cup Patch("reality", "listen", {"a.example"})
  \cup Patch("reality", "port", {20003, 70000, 85539})
  \cup Patch("hy2", "up", {0, 10000, 10001}) \cup Patch("hy2", "cred", {0})
  \cup Patch("hy2", "certificate", {"other.crt"})
  \cup Patch("anytls", "cred", {12}) \cup Patch("anytls", "port", {20001, 20002})
  \cup {[protocol |-> "anytls", set |-> [certificate |-> c, key |-> "other.key"]] : c \in {"other.crt", "tls.crt"}}

\* Generation 9 is made by hand.
MCOwn == [f \in {"other.crt", "other.key"} |->
            IF f = "other.crt" THEN Regular(Public, [cert |-> 9, san |-> "a.example"])
                               ELSE Regular(Private, [pair |-> 9])]

Spoiled(f, V) == [file : {f}, by : V]
MCSpoils ==
  Spoiled("tls.crt", {Regular(Public, [cert |-> 9, san |-> "b.example"]), NoFile})
  \cup Spoiled("tls.key", {Regular(Private, [pair |-> 9]), Regular(Public, [pair |-> 1])})
  \cup Spoiled("tls.crt", {Regular(Public, [cert |-> 1, san |-> None])})
  \cup Spoiled("reality.key", {Regular({"group write"}, [private |-> 1]), Regular(Private, [private |-> 8])})
  \cup Spoiled("share-reality.txt", {[kind |-> "link", mode |-> Private, data |-> [elsewhere |-> TRUE]]})
=============================================================================
