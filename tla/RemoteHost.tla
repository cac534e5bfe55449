----------------------------- MODULE RemoteHost -----------------------------
(***************************************************************************)
(* The server that tunsmith deploys to, and what the commands it runs there *)
(* over SSH do: the files of /etc/openvpn/server, the systemd units         *)
(* openvpn-server@<name> and tunsmith-nat@<name>, the iptables rules that   *)
(* the generated scripts add and delete, and IPv4 forwarding.               *)
(*                                                                         *)
(* Each operator below is the effect of one command on the variables it     *)
(* names; the module that uses it leaves the others unchanged.  systemd,    *)
(* iptables and the kernel are not tunsmith's code: they are modelled from  *)
(* how the commands and the generated scripts use them.                     *)
(***************************************************************************)
EXTENDS Naturals, FiniteSets

CONSTANTS
  Names,    \* instance names
  Subnets,  \* VPN subnets
  Ifaces,   \* the host's default-route interfaces
  NoFile,   \* the file does not exist, the service does not run
  Torn      \* the file was cut short by a failed upload

\* What a server.conf, or a "server" section, says that the host can tell
\* apart: the instance it is for, its subnet and whether it is full-tunnel.
Settings == [name : Names, subnet : Subnets, gateway : BOOLEAN]
\* What a NAT script applies.
NatArgs == [subnet : Subnets, iface : Ifaces]
\* A MASQUERADE rule; its comment is the instance.
Rules == [name : Names, subnet : Subnets, iface : Ifaces]

Missing == {NoFile, Torn}
Intact(file) == file \notin Missing

ASSUME HostAssumption ==
  /\ NoFile # Torn /\ NoFile \notin Names
  /\ \A m \in Missing : m \notin Settings \union NatArgs \union Ifaces

VARIABLES
  files,    \* <name>/: the five files a setup uploads, as one
  conf,     \* <name>.conf, the configuration the service reads
  run,      \* the configuration each openvpn-server@<name> is running
  vpnOn,    \* the openvpn-server@<name> that start at boot
  natUp,    \* <name>/nat.sh
  natDown,  \* <name>/nat-down.sh
  natUnit,  \* the template unit tunsmith-nat@.service is installed
  natOn,    \* the tunsmith-nat@<name> that are enabled
  natRun,   \* the tunsmith-nat@<name> that are active
  masq,     \* the MASQUERADE rules
  fwd,      \* the interfaces that have the two FORWARD rules
  forward,  \* net.ipv4.ip_forward
  sysctl    \* /etc/sysctl.conf sets it

vpnVars == <<files, conf, run, vpnOn>>
natFiles == <<natUp, natDown, natUnit>>
natSet == <<natOn, natRun, masq, fwd>>
natVars == <<natFiles, natSet>>
ipVars == <<forward, sysctl>>
hostVars == <<files, conf, run, vpnOn, natUp, natDown, natUnit, natOn, natRun,
              masq, fwd, forward, sysctl>>

HostInit ==
  /\ files = [n \in Names |-> NoFile]
  /\ conf = [n \in Names |-> NoFile]
  /\ run = [n \in Names |-> NoFile]
  /\ vpnOn = {} /\ natOn = {} /\ natRun = {}
  /\ natUp = [n \in Names |-> NoFile]
  /\ natDown = [n \in Names |-> NoFile]
  /\ natUnit = FALSE
  /\ masq = {} /\ fwd = {}
  /\ forward = FALSE /\ sysctl = FALSE

HostTypeOK ==
  /\ files \in [Names -> Settings \union Missing]
  /\ conf \in [Names -> Settings \union Missing]
  /\ run \in [Names -> Settings \union {NoFile}]
  /\ vpnOn \subseteq Names /\ natOn \subseteq Names /\ natRun \subseteq Names
  /\ natUp \in [Names -> NatArgs \union Missing]
  /\ natDown \in [Names -> NatArgs \union Missing]
  /\ natUnit \in BOOLEAN
  /\ masq \subseteq Rules /\ fwd \subseteq Ifaces
  /\ forward \in BOOLEAN /\ sysctl \in BOOLEAN

-----------------------------------------------------------------------------
(* The generated scripts, as sets of rules.                                *)

MasqRule(n, args) == [name |-> n, subnet |-> args.subnet, iface |-> args.iface]

\* The rules that the scripts of instance n name: the MASQUERADE rule carries
\* the instance's comment, the FORWARD rules name the interface alone.  A cut
\* script is taken to name none.
MasqOf(n, script) == IF Intact(script) THEN {MasqRule(n, script)} ELSE {}
FwdOf(script) == IF Intact(script) THEN {script.iface} ELSE {}

\* nat.sh adds a rule unless `iptables -C' finds it; nat-down.sh deletes it
\* if `iptables -C' finds it.
AfterUp(rules, added) == rules \union added
AfterDown(rules, deleted) == rules \ deleted

-----------------------------------------------------------------------------
(* systemctl.                                                              *)

\* openvpn-server@n has what it needs to start.
CanStart(n) == Intact(files[n]) /\ Intact(conf[n])
CanStartNat(n) == natUnit /\ Intact(natUp[n])

\* systemctl restart openvpn-server@n.  The NAT unit is wanted by it, so an
\* enabled one that is not active starts with it.
RestartVpn(n) ==
  /\ CanStart(n)
  /\ run' = [run EXCEPT ![n] = conf[n]]
  /\ IF n \in natOn \ natRun /\ CanStartNat(n)
       THEN /\ natRun' = natRun \union {n}
            /\ masq' = AfterUp(masq, MasqOf(n, natUp[n]))
            /\ fwd' = AfterUp(fwd, FwdOf(natUp[n]))
       ELSE UNCHANGED <<natRun, masq, fwd>>
  /\ UNCHANGED <<files, conf, vpnOn, natUp, natDown, natUnit, natOn, ipVars>>

\* A restart that fails has stopped the service.
RestartVpnFails(n) ==
  /\ run' = [run EXCEPT ![n] = NoFile]
  /\ UNCHANGED <<files, conf, vpnOn, natVars, ipVars>>

StopVpn(n) ==
  /\ run' = [run EXCEPT ![n] = NoFile]
  /\ UNCHANGED <<files, conf, vpnOn, natVars, ipVars>>

\* Mutant: an active unit is taken to be up to date.
RestartNatOnce(n) ==
  /\ CanStartNat(n)
  /\ IF n \in natRun
       THEN UNCHANGED <<masq, fwd>>
       ELSE /\ masq' = AfterUp(masq, MasqOf(n, natUp[n]))
            /\ fwd' = AfterUp(fwd, FwdOf(natUp[n]))
  /\ natRun' = natRun \union {n}
  /\ UNCHANGED <<vpnVars, natFiles, natOn, ipVars>>

\* systemctl restart tunsmith-nat@n: ExecStop runs the nat-down.sh that is
\* there now, then ExecStart the nat.sh.
RestartNat(n) ==
  /\ CanStartNat(n)
  /\ LET stopped == n \in natRun IN
       /\ masq' = AfterUp(AfterDown(masq, IF stopped THEN MasqOf(n, natDown[n]) ELSE {}),
                          MasqOf(n, natUp[n]))
       /\ fwd' = AfterUp(AfterDown(fwd, IF stopped THEN FwdOf(natDown[n]) ELSE {}),
                         FwdOf(natUp[n]))
  /\ natRun' = natRun \union {n}
  /\ UNCHANGED <<vpnVars, natFiles, natOn, ipVars>>

\* Mutant: nat-down.sh flushes the table.
RunNatDownFlushes(n) ==
  /\ masq' = IF Intact(natDown[n]) THEN {} ELSE masq
  /\ fwd' = AfterDown(fwd, FwdOf(natDown[n]))
  /\ UNCHANGED <<vpnVars, natFiles, natOn, natRun, ipVars>>

\* Run nat-down.sh, if it is there.
RunNatDown(n) ==
  /\ masq' = AfterDown(masq, MasqOf(n, natDown[n]))
  /\ fwd' = AfterDown(fwd, FwdOf(natDown[n]))
  /\ UNCHANGED <<vpnVars, natFiles, natOn, natRun, ipVars>>

\* systemctl stop tunsmith-nat@n: ExecStop runs if the unit is active.
StopNat(n) ==
  /\ natRun' = natRun \ {n}
  /\ IF n \in natRun
       THEN /\ masq' = AfterDown(masq, MasqOf(n, natDown[n]))
            /\ fwd' = AfterDown(fwd, FwdOf(natDown[n]))
       ELSE UNCHANGED <<masq, fwd>>
  /\ UNCHANGED <<vpnVars, natFiles, natOn, ipVars>>

\* A boot: nothing of the running state is left but what the enabled units
\* and sysctl.conf bring back.
Boot ==
  LET started == {n \in natOn : CanStartNat(n)} IN
  /\ run' = [n \in Names |-> IF n \in vpnOn /\ CanStart(n) THEN conf[n] ELSE NoFile]
  /\ natRun' = started
  /\ masq' = UNION {MasqOf(n, natUp[n]) : n \in started}
  /\ fwd' = UNION {FwdOf(natUp[n]) : n \in started}
  /\ forward' = sysctl
  /\ UNCHANGED <<files, conf, vpnOn, natUp, natDown, natUnit, natOn, sysctl>>
=============================================================================
