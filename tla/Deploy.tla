------------------------------- MODULE Deploy -------------------------------
(***************************************************************************)
(* remote setup, remote update and remote clean, from several project       *)
(* directories to one host.  A project keeps tunsmith.json (here its server *)
(* section), dist/ and remotes/<host>.json; the host is RemoteHost.  A      *)
(* command is a sequence of commands run over SSH; those of two projects    *)
(* interleave, each project runs one at a time.                             *)
(*                                                                         *)
(* What may go wrong, as members of Faults:                                 *)
(*   "error"  a remote command or an upload is refused, and reported so;    *)
(*   "drop"   the connection is lost while a command runs: no exit status   *)
(*            arrives, which RemoteSession::run reads as 0, and every       *)
(*            later command on that session is refused (a command that a    *)
(*            signal ends on the host also sends no exit status, over a     *)
(*            session that stays: this is left out);                        *)
(*   "reboot" the host restarts, and with it every session is lost;         *)
(*   "silence" the host stops answering: the session has neither a timeout  *)
(*            nor a keepalive, and the command waits until its operator     *)
(*            interrupts it;                                                *)
(*   "clean"  an error, a drop or a reboot also meets a clean at work.      *)
(***************************************************************************)
EXTENDS RemoteHost

CONSTANTS
  Projects,    \* project directories
  SettingsOf,  \* the settings each project's tunsmith.json may be given
  Faults,      \* what may go wrong
  EditDuring   \* tunsmith.json may be edited while a remote command runs

ASSUME DeployAssumption ==
  /\ SettingsOf \in [Projects -> SUBSET Settings]
  /\ Faults \subseteq {"error", "drop", "reboot", "silence", "clean"}
  /\ EditDuring \in BOOLEAN

\* The `setup' member of a profile.
Setups == [name : Names, nat : Ifaces \union {NoFile}]
\* What a command holds in memory, and what an operator is told.
Jobs == [cmd : {"none", "setup", "update", "clean"},
         cfg : Settings \union {NoFile},
         name : Names \union {NoFile},
         iface : Ifaces \union {NoFile}]
Reports == [what : {"none", "live", "updated", "cleaned", "failed"},
            name : Names \union {NoFile}]

ASSUME SetupAssumption == NoFile \notin Setups

VARIABLES
  cfg,    \* tunsmith.json of each project
  dist,   \* the settings its dist/server was built from
  known,  \* the projects with a remotes/<host>.json
  setup,  \* the `setup' member of that profile
  pc,     \* where the project's running command is
  job,    \* what that command holds in memory
  lost,   \* the projects whose SSH session is gone
  told    \* the last thing the project's operator was told

localVars == <<cfg, dist, known, setup>>
vars == <<hostVars, cfg, dist, known, setup, pc, job, lost, told>>

Quiet == [what |-> "none", name |-> NoFile]
NoJob == [cmd |-> "none", cfg |-> NoFile, name |-> NoFile, iface |-> NoFile]

Init ==
  /\ HostInit
  /\ cfg \in [Projects -> Settings]
  /\ \A p \in Projects : cfg[p] \in SettingsOf[p]
  /\ dist = [p \in Projects |-> NoFile]
  /\ known = {}
  /\ setup = [p \in Projects |-> NoFile]
  /\ pc = [p \in Projects |-> "idle"]
  /\ job = [p \in Projects |-> NoJob]
  /\ lost = {}
  /\ told = [p \in Projects |-> Quiet]

-----------------------------------------------------------------------------
(* The course of a command.                                                *)

Goto(p, next) == pc' = [pc EXCEPT ![p] = next] /\ UNCHANGED <<job, told>>

\* The command returns and the operator is told what came of it.
Return(p, what) ==
  /\ pc' = [pc EXCEPT ![p] = "idle"]
  /\ job' = [job EXCEPT ![p] = NoJob]
  /\ told' = [told EXCEPT ![p] = [what |-> what, name |-> job[p].name]]

Begin(p, next, memory) ==
  /\ pc[p] = "idle"
  /\ pc' = [pc EXCEPT ![p] = next]
  /\ job' = [job EXCEPT ![p] = memory]
  /\ told' = [told EXCEPT ![p] = Quiet]
  /\ lost' = lost \ {p}

\* The remote command may be refused: the server does not execute it, or the
\* connection was lost before it was sent.
Refusable(p) == p \in lost \/ Faults \intersect {"error", "drop"} # {}

\* RemoteSession::execute: the command runs; or it is refused and the whole
\* tunsmith command fails; or the connection goes and it counts as done,
\* whether or not it ran.
Execute(p, at, Effect, next) ==
  /\ pc[p] = at
  /\ \/ p \notin lost /\ Effect /\ Goto(p, next) /\ UNCHANGED lost
     \/ Refusable(p) /\ UNCHANGED <<hostVars, lost>> /\ Return(p, "failed")
     \/ /\ "drop" \in Faults /\ p \notin lost
        /\ Effect \/ UNCHANGED hostVars
        /\ Goto(p, next) /\ lost' = lost \union {p}
  /\ UNCHANGED localVars

\* RemoteSession::upload_bytes: the remote file is truncated and written; a
\* failure on the way leaves it as it was or cut.
Upload(p, at, Whole, Cut, next) ==
  /\ pc[p] = at
  /\ \/ p \notin lost /\ Whole /\ Goto(p, next) /\ UNCHANGED lost
     \/ Refusable(p) /\ UNCHANGED <<hostVars, lost>> /\ Return(p, "failed")
     \/ /\ "error" \in Faults /\ p \notin lost
        /\ Cut /\ Return(p, "failed") /\ UNCHANGED lost
     \/ /\ "drop" \in Faults /\ p \notin lost
        /\ \/ Cut /\ Return(p, "failed")
           \/ Whole /\ Goto(p, next)
        /\ lost' = lost \union {p}
     \/ /\ "silence" \in Faults /\ p \notin lost
        /\ Cut /\ Goto(p, "hung") /\ UNCHANGED lost
  /\ UNCHANGED localVars

\* The commands of clean: the result is ignored.
Try(p, at, Effect, next) ==
  /\ pc[p] = at
  /\ \/ p \notin lost /\ Effect /\ UNCHANGED lost
     \/ p \in lost /\ UNCHANGED <<hostVars, lost>>
     \/ {"clean", "error"} \subseteq Faults /\ UNCHANGED <<hostVars, lost>>
     \/ /\ {"clean", "drop"} \subseteq Faults /\ p \notin lost
        /\ Effect \/ UNCHANGED hostVars
        /\ lost' = lost \union {p}
  /\ Goto(p, next)
  /\ UNCHANGED localVars

-----------------------------------------------------------------------------
(* The project directory.                                                  *)

\* config set; init --force with another --name.
EditConfig(p, s) ==
  /\ pc[p] = "idle" \/ EditDuring
  /\ s \in SettingsOf[p] /\ s # cfg[p]
  /\ cfg' = [cfg EXCEPT ![p] = s]
  /\ UNCHANGED <<hostVars, dist, known, setup, pc, job, lost, told>>

BuildAlone(p) ==
  /\ pc[p] = "idle"
  /\ dist' = [dist EXCEPT ![p] = cfg[p]]
  /\ UNCHANGED <<hostVars, cfg, known, setup, pc, job, lost, told>>

CleanLocal(p) ==
  /\ pc[p] = "idle"
  /\ dist' = [dist EXCEPT ![p] = NoFile]
  /\ UNCHANGED <<hostVars, cfg, known, setup, pc, job, lost, told>>

-----------------------------------------------------------------------------
(* remote setup.                                                           *)

\* The configuration is read before the connection is made; connecting saves
\* the profile and keeps the setup in it.
SetupStart(p) ==
  /\ Begin(p, "build",
       [NoJob EXCEPT !.cmd = "setup", !.cfg = cfg[p], !.name = cfg[p].name])
  /\ known' = known \union {p}
  /\ UNCHANGED <<hostVars, cfg, dist, setup>>

\* build::run reads the configuration again.
SetupBuild(p) ==
  /\ pc[p] = "build"
  /\ dist' = [dist EXCEPT ![p] = cfg[p]]
  /\ Goto(p, IF job[p].cfg.gateway THEN "forward" ELSE "files")
  /\ UNCHANGED <<hostVars, cfg, known, setup, lost>>

\* OpenVPN cannot be installed, or the build fails: before it removed dist/,
\* with nothing of it, or with server.conf written.
SetupFails(p) ==
  /\ pc[p] = "build" /\ Refusable(p)
  /\ \E left \in {dist[p], NoFile, cfg[p]} : dist' = [dist EXCEPT ![p] = left]
  /\ Return(p, "failed")
  /\ UNCHANGED <<hostVars, cfg, known, setup, lost>>

\* check_ip_forwarding, then enable_ip_forwarding: the kernel, then the file.
ForwardingOn(p) ==
  /\ pc[p] = "forward" /\ forward /\ p \notin lost
  /\ Goto(p, "ask")
  /\ UNCHANGED <<hostVars, localVars, lost>>

\* Mutant: the kernel alone.
EnableForwardingForNow(p) ==
  /\ ~forward \/ Refusable(p)
  /\ Execute(p, "forward",
       forward' = TRUE /\ UNCHANGED <<vpnVars, natVars, sysctl>>, "ask")

EnableForwarding(p) ==
  /\ ~forward \/ Refusable(p)
  /\ Execute(p, "forward",
       forward' = TRUE /\ UNCHANGED <<vpnVars, natVars, sysctl>>, "sysctl")

PersistForwarding(p) ==
  Execute(p, "sysctl",
    sysctl' = TRUE /\ UNCHANGED <<vpnVars, natVars, forward>>, "ask")

\* confirm_gateway_nat: yes, on an interface of the host, or no.
Declined(p) ==
  /\ pc[p] = "ask"
  /\ IF job[p].cmd = "setup" THEN Goto(p, "files") ELSE Return(p, "updated")
  /\ UNCHANGED <<hostVars, localVars, lost>>

Confirmed(p, iface) ==
  /\ pc[p] = "ask"
  /\ pc' = [pc EXCEPT ![p] = IF job[p].cmd = "setup" THEN "files" ELSE "nat_up"]
  /\ job' = [job EXCEPT ![p].iface = iface]
  /\ UNCHANGED <<hostVars, localVars, lost, told>>

\* No usable interface, or a subnet that is not CIDR.
NatRefused(p) ==
  /\ pc[p] = "ask"
  /\ Return(p, "failed")
  /\ UNCHANGED <<hostVars, localVars, lost>>

\* setup_vpn.  The five files of <name>/ are one upload here; the
\* configuration among them is then copied to where the service reads it.
UploadFiles(p) ==
  LET Put(content) == /\ files' = [files EXCEPT ![job[p].name] = content]
                      /\ UNCHANGED <<conf, run, vpnOn, natVars, ipVars>>
  IN  Upload(p, "files", Put(dist[p]), Put(Torn), "main")

\* Mutant: the service is not enabled.
CopyConfAlone(p) ==
  LET n == job[p].name IN
  Execute(p, "main",
    /\ conf' = [conf EXCEPT ![n] = files[n]]
    /\ UNCHANGED <<files, run, vpnOn, natVars, ipVars>>, "restart")

CopyConf(p) ==
  LET n == job[p].name IN
  Execute(p, "main",
    /\ conf' = [conf EXCEPT ![n] = files[n]]
    /\ UNCHANGED <<files, run, vpnOn, natVars, ipVars>>, "enable")

EnableVpn(p) ==
  Execute(p, "enable",
    /\ vpnOn' = vpnOn \union {job[p].name}
    /\ UNCHANGED <<files, conf, run, natVars, ipVars>>, "restart")

\* Mutant: update applies NAT without asking.
AfterRestartUnasked(p) ==
  IF job[p].cmd = "setup" THEN "check"
  ELSE IF job[p].cfg.gateway THEN "nat_up" ELSE "report"

\* Restart the service; only setup then asks whether it is active, and goes
\* on to NAT if that was confirmed.
AfterRestart(p) ==
  IF job[p].cmd = "setup" THEN "check"
  ELSE IF job[p].cfg.gateway THEN "ask" ELSE "report"

Restart(p) == Execute(p, "restart", RestartVpn(job[p].name), AfterRestart(p))

RestartFails(p) ==
  /\ pc[p] = "restart" /\ p \notin lost
  /\ ~CanStart(job[p].name) \/ "error" \in Faults
  /\ RestartVpnFails(job[p].name)
  /\ Return(p, "failed")
  /\ UNCHANGED <<localVars, lost>>

\* Mutant: the answer of is-active is not looked at.
CheckActiveBlindly(p) ==
  /\ pc[p] = "check"
  /\ Goto(p, IF job[p].iface # NoFile THEN "nat_up" ELSE "record")
  /\ UNCHANGED <<hostVars, localVars, lost>>

CheckActive(p) ==
  /\ pc[p] = "check" /\ p \notin lost /\ run[job[p].name] # NoFile
  /\ Goto(p, IF job[p].iface # NoFile THEN "nat_up" ELSE "record")
  /\ UNCHANGED <<hostVars, localVars, lost>>

\* Mutant: restart until it is active.
CheckActiveRetries(p) ==
  /\ pc[p] = "check"
  /\ Refusable(p) \/ run[job[p].name] = NoFile
  /\ Goto(p, "restart")
  /\ UNCHANGED <<hostVars, localVars, lost>>

CheckActiveFails(p) ==
  /\ pc[p] = "check"
  /\ Refusable(p) \/ run[job[p].name] = NoFile
  /\ Return(p, "failed")
  /\ UNCHANGED <<hostVars, localVars, lost>>

\* apply_gateway_nat: both scripts are replaced, then the unit restarted.
JobNat(p) == [subnet |-> job[p].cfg.subnet, iface |-> job[p].iface]

\* Mutant: nat-down.sh is not uploaded.
UploadNatUpAlone(p) ==
  LET Put(content) ==
        /\ natUp' = [natUp EXCEPT ![job[p].name] = content]
        /\ UNCHANGED <<vpnVars, natDown, natUnit, natSet, ipVars>>
  IN  Upload(p, "nat_up", Put(JobNat(p)), Put(Torn), "nat_unit")

UploadNatUp(p) ==
  LET Put(content) ==
        /\ natUp' = [natUp EXCEPT ![job[p].name] = content]
        /\ UNCHANGED <<vpnVars, natDown, natUnit, natSet, ipVars>>
  IN  Upload(p, "nat_up", Put(JobNat(p)), Put(Torn), "nat_down")

UploadNatDown(p) ==
  LET Put(content) ==
        /\ natDown' = [natDown EXCEPT ![job[p].name] = content]
        /\ UNCHANGED <<vpnVars, natUp, natUnit, natSet, ipVars>>
  IN  Upload(p, "nat_down", Put(JobNat(p)), Put(Torn), "nat_unit")

UploadNatUnit(p) ==
  LET Put(there) ==
        /\ natUnit' = there
        /\ UNCHANGED <<vpnVars, natUp, natDown, natSet, ipVars>>
  IN  Upload(p, "nat_unit", Put(TRUE), Put(FALSE), "nat_enable")

EnableNat(p) ==
  Execute(p, "nat_enable",
    /\ natOn' = natOn \union {job[p].name}
    /\ UNCHANGED <<vpnVars, natFiles, natRun, masq, fwd, ipVars>>, "nat_restart")

ApplyNat(p) ==
  Execute(p, "nat_restart", RestartNat(job[p].name),
          IF job[p].cmd = "setup" THEN "record" ELSE "report")

\* Its ExecStop has run, its ExecStart fails.
ApplyNatFails(p) ==
  /\ pc[p] = "nat_restart" /\ p \notin lost /\ "error" \in Faults
  /\ StopNat(job[p].name)
  /\ Return(p, "failed")
  /\ UNCHANGED <<localVars, lost>>

\* The profile records what was deployed, and the interface if NAT was
\* confirmed.
RecordSetup(p) ==
  /\ pc[p] = "record"
  /\ setup' = [setup EXCEPT ![p] = [name |-> job[p].name, nat |-> job[p].iface]]
  /\ Return(p, "live")
  /\ UNCHANGED <<hostVars, cfg, dist, known, lost>>

-----------------------------------------------------------------------------
(* remote update: the configuration alone, from the dist/ there is.        *)

UpdateStart(p) ==
  /\ p \in known /\ dist[p] # NoFile
  /\ Begin(p, "upload",
       [NoJob EXCEPT !.cmd = "update", !.cfg = cfg[p], !.name = cfg[p].name])
  /\ UNCHANGED <<hostVars, localVars>>

\* Mutant: the service is not restarted.
UploadConfAlone(p) ==
  LET Put(content) == /\ conf' = [conf EXCEPT ![job[p].name] = content]
                      /\ UNCHANGED <<files, run, vpnOn, natVars, ipVars>>
  IN  Upload(p, "upload", Put(dist[p]), Put(Torn), "report")

UploadConf(p) ==
  LET Put(content) == /\ conf' = [conf EXCEPT ![job[p].name] = content]
                      /\ UNCHANGED <<files, run, vpnOn, natVars, ipVars>>
  IN  Upload(p, "upload", Put(dist[p]), Put(Torn), "restart")

\* With NAT applied, a setup that is on record gets the new interface.
ReportUpdate(p) ==
  /\ pc[p] = "report"
  /\ IF job[p].iface # NoFile /\ setup[p] # NoFile
       THEN setup' = [setup EXCEPT ![p].nat = job[p].iface]
       ELSE UNCHANGED setup
  /\ Return(p, "updated")
  /\ UNCHANGED <<hostVars, cfg, dist, known, lost>>

-----------------------------------------------------------------------------
(* remote clean ssh.                                                       *)

\* The instance is the one on record, or else the one of tunsmith.json.
CleanStart(p) ==
  /\ Begin(p, "c_nat_stop",
       [NoJob EXCEPT !.cmd = "clean",
                     !.name = IF setup[p] # NoFile THEN setup[p].name ELSE cfg[p].name])
  /\ known' = known \union {p}
  /\ UNCHANGED <<hostVars, cfg, dist, setup>>

CleanNatStop(p) == Try(p, "c_nat_stop", StopNat(job[p].name), "c_nat_disable")

CleanNatDisable(p) ==
  Try(p, "c_nat_disable",
    /\ natOn' = natOn \ {job[p].name}
    /\ UNCHANGED <<vpnVars, natFiles, natRun, masq, fwd, ipVars>>, "c_nat_down")

CleanNatDown(p) == Try(p, "c_nat_down", RunNatDown(job[p].name), "c_stop")

\* Mutant: the unit is stopped and not disabled.
CleanStopAlone(p) == Try(p, "c_stop", StopVpn(job[p].name), "c_conf")

CleanStop(p) == Try(p, "c_stop", StopVpn(job[p].name), "c_disable")

CleanDisable(p) ==
  Try(p, "c_disable",
    /\ vpnOn' = vpnOn \ {job[p].name}
    /\ UNCHANGED <<files, conf, run, natVars, ipVars>>, "c_conf")

CleanConf(p) ==
  Try(p, "c_conf",
    /\ conf' = [conf EXCEPT ![job[p].name] = NoFile]
    /\ UNCHANGED <<files, run, vpnOn, natVars, ipVars>>, "c_files")

\* Mutant: the instance's name is left out of the path.
CleanFilesOfAll(p) ==
  Try(p, "c_files",
    /\ files' = [n \in Names |-> NoFile]
    /\ natUp' = [natUp EXCEPT ![job[p].name] = NoFile]
    /\ natDown' = [natDown EXCEPT ![job[p].name] = NoFile]
    /\ UNCHANGED <<conf, run, vpnOn, natUnit, natSet, ipVars>>, "c_record")

\* rm -rf <name>/ takes the NAT scripts with it.
CleanFiles(p) ==
  Try(p, "c_files",
    /\ files' = [files EXCEPT ![job[p].name] = NoFile]
    /\ natUp' = [natUp EXCEPT ![job[p].name] = NoFile]
    /\ natDown' = [natDown EXCEPT ![job[p].name] = NoFile]
    /\ UNCHANGED <<conf, run, vpnOn, natUnit, natSet, ipVars>>, "c_record")

CleanRecord(p) ==
  /\ pc[p] = "c_record"
  /\ setup' = [setup EXCEPT ![p] = NoFile]
  /\ Return(p, "cleaned")
  /\ UNCHANGED <<hostVars, cfg, dist, known, lost>>

-----------------------------------------------------------------------------

\* The answer that the command waits for never comes.  What it waits for was
\* done, and the command is at its next position, or was not; an upload may
\* also stay cut.
Hang(p) ==
  /\ "silence" \in Faults /\ p \notin lost
  /\ pc[p] \notin {"idle", "hung"}
  /\ Goto(p, "hung")
  /\ UNCHANGED <<hostVars, localVars, lost>>

\* The operator stops a command that hangs.
Interrupt(p) ==
  /\ pc[p] = "hung"
  /\ Return(p, "failed")
  /\ UNCHANGED <<hostVars, localVars, lost>>

Reboot ==
  /\ "reboot" \in Faults
  /\ "clean" \in Faults \/ \A p \in Projects : job[p].cmd # "clean"
  /\ Boot
  /\ lost' = lost \union {p \in Projects : pc[p] # "idle"}
  /\ UNCHANGED <<localVars, pc, job, told>>

Operator(p) ==
  \/ \E s \in Settings : EditConfig(p, s)
  \/ BuildAlone(p) \/ CleanLocal(p)
  \/ SetupStart(p) \/ UpdateStart(p) \/ CleanStart(p)

SetupStep(p) ==
  \/ SetupBuild(p) \/ SetupFails(p)
  \/ ForwardingOn(p) \/ EnableForwarding(p) \/ PersistForwarding(p)
  \/ Declined(p) \/ \E iface \in Ifaces : Confirmed(p, iface)
  \/ NatRefused(p)
  \/ UploadFiles(p) \/ CopyConf(p) \/ EnableVpn(p)
  \/ Restart(p) \/ RestartFails(p) \/ CheckActive(p) \/ CheckActiveFails(p)
  \/ UploadNatUp(p) \/ UploadNatDown(p) \/ UploadNatUnit(p)
  \/ EnableNat(p) \/ ApplyNat(p) \/ ApplyNatFails(p) \/ RecordSetup(p)

UpdateStep(p) == UploadConf(p) \/ ReportUpdate(p)

CleanStep(p) ==
  \/ CleanNatStop(p) \/ CleanNatDisable(p) \/ CleanNatDown(p)
  \/ CleanStop(p) \/ CleanDisable(p)
  \/ CleanConf(p) \/ CleanFiles(p) \/ CleanRecord(p)

Step(p) == SetupStep(p) \/ UpdateStep(p) \/ CleanStep(p)

\* Nothing in the program brings either about.
Silence(p) == Hang(p) \/ Interrupt(p)

Next == Reboot \/ \E p \in Projects : Operator(p) \/ Step(p) \/ Silence(p)

Spec == Init /\ [][Next]_vars

\* A command goes on as long as the host answers it; prompts are answered, one
\* way or the other.  Nothing ends the wait of one that hangs: interrupting it
\* is up to the operator.
FairSpec == Spec /\ \A p \in Projects : WF_vars(Step(p))

-----------------------------------------------------------------------------
(* Properties.                                                             *)

Pcs == {"idle", "build", "forward", "sysctl", "ask", "files", "main", "enable",
        "restart", "check", "nat_up", "nat_down", "nat_unit", "nat_enable",
        "nat_restart", "record", "upload", "report", "c_nat_stop",
        "c_nat_disable", "c_nat_down", "c_stop", "c_disable", "c_conf",
        "c_files", "c_record", "hung"}

TypeOK ==
  /\ HostTypeOK
  /\ cfg \in [Projects -> Settings]
  /\ dist \in [Projects -> Settings \union {NoFile}]
  /\ known \subseteq Projects
  /\ setup \in [Projects -> Setups \union {NoFile}]
  /\ pc \in [Projects -> Pcs]
  /\ job \in [Projects -> Jobs]
  /\ lost \subseteq Projects
  /\ told \in [Projects -> Reports]

Told(p, what) == pc[p] = "idle" /\ told[p].what = what

\* Once setup has said that the server is live, and until the project's next
\* command, the service runs what was deployed, starts at boot, and runs the
\* same after a reboot; the profile records the instance.
LiveServes ==
  \A p \in Projects : Told(p, "live") =>
    LET n == told[p].name IN
    /\ run[n] # NoFile /\ run[n] = conf[n] /\ conf[n] = files[n]
    /\ n \in vpnOn
    /\ setup[p] # NoFile /\ setup[p].name = n

\* Once setup has said so with NAT confirmed, the subnet that the running
\* server hands out is masqueraded, and is so again after a reboot.  (NAT
\* takes the subnet from the configuration read before the build, server.conf
\* from the one the build reads.)
LiveMasquerades ==
  \A p \in Projects : Told(p, "live") /\ setup[p].nat # NoFile =>
    LET n == told[p].name IN
    /\ [name |-> n, subnet |-> run[n].subnet, iface |-> setup[p].nat] \in masq
    /\ n \in natRun /\ n \in natOn

\* Once setup has said so with NAT confirmed, the host forwards, and will after
\* a reboot, except while the setup of another project, from which this one
\* learned that the kernel forwards, is yet to write it down.
LiveForwards ==
  \A p \in Projects : Told(p, "live") /\ setup[p].nat # NoFile =>
    /\ forward
    /\ sysctl \/ \E q \in Projects : pc[q] = "sysctl"

\* Once update has reported success the service runs the configuration it
\* uploaded; an instance whose setup never came to enable it is off after a
\* reboot, and no instance runs another configuration than its file.
UpdatedRuns ==
  \A p \in Projects : Told(p, "updated") =>
    LET n == told[p].name IN
    \/ Intact(run[n]) /\ run[n] = conf[n]
    \/ run[n] = NoFile /\ n \notin vpnOn

\* After clean has said that the instance is gone no unit of it runs or is
\* enabled and no file of it is left.
CleanedIsGone ==
  \A p \in Projects : Told(p, "cleaned") =>
    LET n == told[p].name IN
    /\ run[n] = NoFile /\ n \notin vpnOn \union natOn \union natRun
    /\ conf[n] = NoFile /\ files[n] = NoFile
    /\ natUp[n] = NoFile /\ natDown[n] = NoFile

\* ... and no MASQUERADE rule that carries its comment.
CleanRemovesRules ==
  \A p \in Projects : Told(p, "cleaned") =>
    \A r \in masq : r.name # told[p].name

\* While the NAT unit of an instance is active, and no command is at work on
\* that instance, the FORWARD rules for its interface are there.
ForwardKept ==
  \A n \in natRun :
    /\ Intact(natUp[n])
    /\ \A p \in Projects : job[p].name # n
    => natUp[n].iface \in fwd

\* The instances that the tunsmith.json of a project may name; what the service
\* of each instance would start with; the instance that each command is for.
NamesOf(p) == {s.name : s \in SettingsOf[p]}
Startable == [n \in Names |-> IF CanStart(n) THEN conf[n] ELSE NoFile]
InWork == [p \in Projects |-> job[p].name]

\* The host and the operators, as Service sees them.
Promises == INSTANCE Service
  WITH Owners <- Projects, Owned <- [p \in Projects |-> NamesOf(p)],
       Configs <- Settings, Off <- NoFile,
       written <- Startable, enabled <- vpnOn, serving <- run,
       work <- InWork, said <- told

\* A command touches no instance but its own, and does one thing at a time to
\* it; a reboot starts what is enabled, as it is written; and every report is
\* true when it is made.
KeepsPromises == Promises!Spec

\* Whatever is refused or lost on the way, a command comes to its end; only a
\* host that stops answering keeps it waiting.
CommandEnds ==
  \A p \in Projects : (pc[p] # "idle") ~> (pc[p] \in {"idle", "hung"})
=============================================================================
