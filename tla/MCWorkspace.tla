---------------------------- MODULE MCWorkspace ----------------------------
(***************************************************************************)
(* Workspace with settings that are what init and config set make, and the  *)
(* properties that relate what server.conf and the client profiles say.     *)
(***************************************************************************)
EXTENDS Workspace, PeerConfig, TLC

\* init alone, and then config set --host, and then a host or a subnet that
\* the build refuses.
NotSet == DefaultServer
Plain  == Set(NotSet, "host" :> "vpn")
NoName == Set(NotSet, "host" :> "not ascii")
Wide   == Set(Plain, "prefix" :> 33)

\* init --schema with a port of 17 bits, no cipher and the subnet 0.0.0.0/0,
\* and then config set --host --redirect.
Schema == Set(Merge(DefaultServer, "port" :> 2^16 + 1194 @@ "cipher" :> "" @@ "prefix" :> 0),
              "host" :> "vpn" @@ "redirect" :> TRUE)

MCSettings  == {NotSet, Plain, NoName, Wide, Schema}
MCNoHost    == {s \in MCSettings : s.host = ""}
MCBadHost   == {s \in MCSettings : s.host = "not ascii"}
MCBadSubnet == {s \in MCSettings : ~SubnetParses(s)}

\* Whatever was set, built and set again in between, the profiles under dist/
\* reach the server.conf beside them and speak as it does: port, transport,
\* device, cipher and digest, defaults included.  A port of 0, which a schema
\* can give, is out: server.conf takes 1194 for it and the profiles 0.
PeersTalk ==
  \A n \in Clients :
    (Intact(ovpn[n]) /\ Intact(dist.conf) /\ dist.conf.port # 0) =>
      Talks(ClientConf(ovpn[n].server), ServerConf(dist.conf))

\* Four octets whose first n bits are ones.
MaskOf(n) ==
  [k \in 1 .. 4 |->
     LET ones == IF n >= 8 * k THEN 8 ELSE IF n <= 8 * (k - 1) THEN 0 ELSE n - 8 * (k - 1)
     IN  <<0, 128, 192, 224, 240, 248, 252, 254, 255>>[ones + 1]]

\* While the configuration is the one that was built, the subnet that NAT
\* would masquerade is the one that server.conf hands addresses out of: the
\* build and the NAT check parse the same text apart from each other, and
\* where both take it they must mean the same.
PoolIsMasqueraded ==
  (Intact(cfg) /\ Intact(dist.conf) /\ cfg.server = dist.conf /\ NatAccepts(cfg.server))
    => ServerConf(dist.conf).netmask = MaskOf(cfg.server.prefix)
=============================================================================
