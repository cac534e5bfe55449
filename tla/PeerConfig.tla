----------------------------- MODULE PeerConfig -----------------------------
(***************************************************************************)
(* The "server" section of tunsmith.json, where its values come from, and   *)
(* what server.conf, a client profile and the NAT script make of them.      *)
(*                                                                         *)
(* A subnet text is whether its address is four octets, and its prefix: a   *)
(* number, Absent (no slash) or Unread (not a number).  Only the fields     *)
(* that two machines must agree on, or whose conversion can go wrong, are   *)
(* kept.                                                                   *)
(***************************************************************************)
EXTENDS Integers

CONSTANTS Absent, Unread

ASSUME PrefixAssumption == Absent \notin Nat /\ Unread \notin Nat /\ Absent # Unread

-----------------------------------------------------------------------------
(* Where settings come from.                                               *)

DefaultServer ==
  [host |-> "", port |-> 1194, protocol |-> "udp", device |-> "tun",
   quad |-> TRUE, prefix |-> 24, cipher |-> "AES-256-GCM", auth |-> "SHA384",
   redirect |-> FALSE, block |-> FALSE]

Override(server, given) ==
  [f \in DOMAIN server |-> IF f \in DOMAIN given THEN given[f] ELSE server[f]]

\* merge_server: what a schema file gives replaces the default, unchecked; the
\* port is cast to 16 bits.
Merge(server, given) ==
  LET s == Override(server, given) IN [s EXCEPT !.port = @ % 2^16]

\* config set: clap has bounded the port above, the command bounds it below.
\* It sets full tunnel and never unsets it.
Settable(given) ==
  /\ "port" \in DOMAIN given => given.port \in 1 .. 2^16 - 1
  /\ "redirect" \in DOMAIN given => given.redirect
Set(server, given) == Override(server, given)

-----------------------------------------------------------------------------
(* Subnets.                                                                *)

\* The prefix that parse_subnet takes; above 32 the build fails.
Bits(s) == IF s.prefix \in Nat THEN s.prefix ELSE 24
SubnetParses(s) == Bits(s) <= 32

\* validate_ipv4_cidr, before NAT.
NatAccepts(s) == s.quad /\ s.prefix \in Nat /\ s.prefix <= 32

\* u32::MAX << n, as the set of its one bits.  The shift is by n modulo 32 in
\* the release build, whose overflow checks are off.
ShiftedOnes(n) == (n % 32) .. 31

\* Mutant: no case of its own for /0.
NetmaskUnguarded(bits) == ShiftedOnes(32 - bits)

\* prefix_to_netmask.
Netmask(bits) == IF bits = 0 THEN {} ELSE ShiftedOnes(32 - bits)

\* The dotted form: (mask >> 24) & 0xff first.
Octets(mask) ==
  [k \in 1 .. 4 |->
     LET bit(i) == IF 8 * (4 - k) + i \in mask THEN 1 ELSE 0
     IN  128 * bit(7) + 64 * bit(6) + 32 * bit(5) + 16 * bit(4)
           + 8 * bit(3) + 4 * bit(2) + 2 * bit(1) + bit(0)]

-----------------------------------------------------------------------------
(* The two ends.                                                           *)

OrDefault(text, default) == IF text = "" THEN default ELSE text

\* build_server_config.
ServerConf(s) ==
  [port |-> IF s.port = 0 THEN DefaultServer.port ELSE s.port,
   proto |-> s.protocol, dev |-> s.device,
   netmask |-> Octets(Netmask(Bits(s))),
   cipher |-> OrDefault(s.cipher, DefaultServer.cipher),
   auth |-> OrDefault(s.auth, DefaultServer.auth),
   push_gateway |-> s.redirect,
   exit_notify |-> s.protocol = "udp"]

\* block_outside_dns_policy for the one client target there is, mixed_client:
\* wrapped in `setenv opt', for clients that do not know the directive.
BlockOutsideDns(intent) == IF intent THEN "wrapped" ELSE "absent"

\* Mutant: an empty cipher is written as it is.
ClientConfPlain(s) ==
  [remote |-> <<s.host, s.port>>,
   proto |-> s.protocol, dev |-> s.device,
   cipher |-> s.cipher, auth |-> s.auth,
   block |-> BlockOutsideDns(s.block)]

\* build_client_config.
ClientConf(s) ==
  [remote |-> <<s.host, s.port>>,
   proto |-> s.protocol, dev |-> s.device,
   cipher |-> OrDefault(s.cipher, DefaultServer.cipher),
   auth |-> OrDefault(s.auth, DefaultServer.auth),
   block |-> BlockOutsideDns(s.block)]

\* A client that uses profile c reaches and understands the server of conf v.
Talks(c, v) ==
  /\ c.remote[2] = v.port /\ c.proto = v.proto /\ c.dev = v.dev
  /\ c.cipher = v.cipher /\ c.auth = v.auth
=============================================================================
