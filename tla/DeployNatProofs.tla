--------------------------- MODULE DeployNatProofs ---------------------------
(***************************************************************************)
(* Theorems about Deploy: the NAT and the IPv4 forwarding of an instance    *)
(* that is live, and the rules of an instance that is gone.  Each holds for *)
(* the faults and the settings its premise allows; the runs DeployEdited,   *)
(* DeployForwardLost and DeployRulesLeft show what happens beyond them.     *)
(***************************************************************************)
EXTENDS DeployProofs

-----------------------------------------------------------------------------
(* Masquerading.                                                           *)

\* The configuration stays as it is while a command runs, no command is lost
\* without a word, and where the host may restart no other project leaves the
\* NAT unit cut, which all instances share.
NatPremise ==
  /\ ~EditDuring /\ "drop" \notin Faults
  /\ "reboot" \in Faults /\ Faults \intersect {"error", "silence"} # {} =>
       \A p, q \in Projects : p = q

FilesPcs == {"main", "enable", "restart", "check", "record"} \union NatPcs
UpPcs == NatPcs \ {"nat_up"}
DownPcs == UpPcs \ {"nat_down"}
UnitPcs == DownPcs \ {"nat_unit"}

\* The NAT unit is there for the next boot, if there is one.
UnitThere == "reboot" \in Faults => natUnit

\* The script of n applies args, the unit is enabled and active, and the rule
\* is there.
Masqueraded(n, args) ==
  /\ natUp[n] = args /\ n \in natOn /\ n \in natRun
  /\ MasqRule(n, args) \in masq /\ UnitThere

\* What a setup has installed by the position it is at.
MasqInTime(p) ==
  LET n == job[p].name IN
  /\ job[p].cmd = "setup" =>
       /\ cfg[p] = job[p].cfg
       /\ pc[p] \notin {"build", "hung"} => dist[p] = job[p].cfg
       /\ pc[p] \in FilesPcs => files[n] = job[p].cfg
       /\ pc[p] \in UpPcs => natUp[n] = JobNat(p)
       /\ pc[p] \in UnitPcs => UnitThere
       /\ pc[p] = "nat_restart" => n \in natOn
       /\ (pc[p] = "record" /\ job[p].iface # NoFile) => Masqueraded(n, JobNat(p))
  /\ Told(p, "live") /\ setup[p].nat # NoFile =>
       LET m == told[p].name IN
       Masqueraded(m, [subnet |-> run[m].subnet, iface |-> setup[p].nat])

LEMMA MasqKept ==
  ASSUME HostTypeOK, NEW n \in Names, Kept(n), UnitThere', NEW args, Masqueraded(n, args)
  PROVE  Masqueraded(n, args)'
BY DEF Kept, Masqueraded, MasqRule, HostTypeOK, Rules

LEMMA MasqBoot ==
  ASSUME HostTypeOK, "reboot" \in Faults, Boot,
         NEW n \in Names, NEW args \in NatArgs, Masqueraded(n, args)
  PROVE  Masqueraded(n, args)'
<1>1. natUp[n] = args /\ n \in natOn /\ natUnit
  BY DEF Masqueraded, UnitThere
<1>2. Intact(natUp[n])
  BY <1>1, HostAssumption DEF Intact
<1>3. n \in {m \in natOn : CanStartNat(m)}
  BY <1>1, <1>2 DEF CanStartNat
<1>4. MasqRule(n, args) \in MasqOf(n, natUp[n])
  BY <1>1, <1>2 DEF MasqOf
<1>5. MasqRule(n, args) \in masq'
  BY <1>3, <1>4 DEF Boot
<1>6. n \in natRun' /\ UNCHANGED <<natUp, natOn, natUnit>>
  BY <1>3 DEF Boot
<1>7. MasqRule(n, args)' = MasqRule(n, args)
  BY DEF MasqRule
<1>8. QED
  BY <1>1, <1>5, <1>6, <1>7 DEF Masqueraded, UnitThere

\* dist/ is written by the build of a command alone.
LEMMA StepDist ==
  ASSUME NEW p \in Projects, Step(p), ~SetupBuild(p), ~SetupFails(p)
  PROVE  UNCHANGED dist
<1> USE DEF localVars
<1>1. CASE SetupStep(p)
  BY <1>1 DEF SetupStep, ForwardingOn, EnableForwarding,
     PersistForwarding, Declined, Confirmed, NatRefused, UploadFiles, CopyConf, EnableVpn,
     Restart, RestartFails, CheckActive, CheckActiveFails, UploadNatUp, UploadNatDown,
     UploadNatUnit, EnableNat, ApplyNat, ApplyNatFails, RecordSetup, Execute, Upload
<1>2. CASE UpdateStep(p)
  BY <1>2 DEF UpdateStep, UploadConf, ReportUpdate, Upload
<1>3. CASE CleanStep(p)
  BY <1>3 DEF CleanStep, CleanNatStop, CleanNatDisable, CleanNatDown, CleanStop,
     CleanDisable, CleanConf, CleanFiles, CleanRecord, Try
<1>4. QED
  BY <1>1, <1>2, <1>3 DEF Step

\* The NAT unit is removed by a failed upload alone.
LEMMA UnitKept ==
  ASSUME NEW p \in Projects, Step(p), Faults \intersect {"error", "drop", "silence"} = {}, natUnit
  PROVE  natUnit'
<1> USE DEF hostVars, vpnVars, natFiles, natSet, natVars, ipVars
<1>1. CASE SetupStep(p)
  BY <1>1 DEF SetupStep, SetupBuild, SetupFails, ForwardingOn, EnableForwarding,
     PersistForwarding, Declined, Confirmed, NatRefused, UploadFiles, CopyConf, EnableVpn,
     Restart, RestartFails, CheckActive, CheckActiveFails, UploadNatUp, UploadNatDown,
     UploadNatUnit, EnableNat, ApplyNat, ApplyNatFails, RecordSetup, Execute, Upload,
     RestartVpn, RestartVpnFails, RestartNat, StopNat
<1>2. CASE UpdateStep(p)
  BY <1>2 DEF UpdateStep, UploadConf, ReportUpdate, Upload
<1>3. CASE CleanStep(p)
  BY <1>3 DEF CleanStep, CleanNatStop, CleanNatDisable, CleanNatDown, CleanStop,
     CleanDisable, CleanConf, CleanFiles, CleanRecord, Try, StopNat, RunNatDown, StopVpn
<1>4. QED
  BY <1>1, <1>2, <1>3 DEF Step

LEMMA MasqOwn ==
  ASSUME "drop" \notin Faults, TypeInv, NEW p \in Projects,
         ServesInTime(p), MasqInTime(p), Step(p)
  PROVE  MasqInTime(p)'
<1>0. PICK n, args : n = job[p].name /\ args = JobNat(p)
  OBVIOUS
<1> USE <1>0
<1>1. /\ pc \in [Projects -> Pcs] /\ job \in [Projects -> Jobs] /\ told \in [Projects -> Reports]
      /\ dist \in [Projects -> Settings \union {NoFile}]
      /\ setup \in [Projects -> Setups \union {NoFile}] /\ HostTypeOK /\ InHand(p)
  BY DEF TypeInv, TypeOK
<1>2. pc[p] # "idle" => n \in Names
  BY <1>1, NamesOfType DEF InHand
<1>3. cfg' = cfg
  BY StepRecord
<1>4. ASSUME Return(p, "failed") \/ Return(p, "updated") \/ Return(p, "cleaned")
      PROVE  MasqInTime(p)'
  BY <1>1, <1>4 DEF MasqInTime, Told, NoJob, Return
<1>5. ASSUME NEW next \in Pcs \ {"idle"}, Goto(p, next),
             job[p].cmd = "setup" =>
               /\ next \notin {"build", "hung"} => dist'[p] = job[p].cfg
               /\ next \in FilesPcs => files'[n] = job[p].cfg
               /\ next \in UpPcs => natUp'[n] = args
               /\ next \in UnitPcs => UnitThere'
               /\ next = "nat_restart" => n \in natOn'
               /\ (next = "record" /\ job[p].iface # NoFile) => Masqueraded(n, args)'
      PROVE  MasqInTime(p)'
  <2>1. pc'[p] = next /\ job' = job
    BY <1>1, <1>5 DEF Goto
  <2>2. ~Told(p, "live")'
    BY <2>1 DEF Told
  <2>3. JobNat(p)' = args
    BY <2>1 DEF JobNat
  <2>4. PICK m : m = job'[p].name /\ m = n
    BY <2>1
  <2>5. Masqueraded(job[p].name, JobNat(p))' = Masqueraded(n, args)'
    BY <2>1, <2>3 DEF Masqueraded
  <2>6. QED
    BY <1>3, <1>5, <2>1, <2>2, <2>3, <2>5 DEF MasqInTime
<1>6. CASE SetupBuild(p)
  <2>1. /\ pc[p] = "build" /\ dist' = [dist EXCEPT ![p] = cfg[p]]
        /\ Goto(p, "forward") \/ Goto(p, "files")
    BY <1>6 DEF SetupBuild
  <2>2. job[p].cmd = "setup" => dist'[p] = job[p].cfg
    BY <1>1, <2>1 DEF MasqInTime
  <2>3. QED
    BY <1>5, <2>1, <2>2 DEF Pcs, FilesPcs, UpPcs, DownPcs, UnitPcs, NatPcs
<1>7. ASSUME ~SetupBuild(p), ~SetupFails(p)
      PROVE  pc[p] # "build" /\ job[p].cmd = "setup" => dist'[p] = job[p].cfg
  BY <1>7, StepDist, CourseOfStep DEF MasqInTime
<1>8. CASE \/ ForwardingOn(p) \/ EnableForwarding(p) \/ PersistForwarding(p) \/ Declined(p)
           \/ NatRefused(p) \/ UpdateStep(p)
  <2>1. /\ pc[p] # "build"
        /\ \/ Return(p, "failed") \/ Return(p, "updated")
           \/ Goto(p, "sysctl") \/ Goto(p, "ask") \/ Goto(p, "files") \/ Goto(p, "hung")
           \/ pc[p] \in UpdatePcs /\ Goto(p, "restart")
    BY <1>8 DEF ForwardingOn, EnableForwarding, PersistForwarding, Declined, NatRefused,
       UpdateStep, UploadConf, ReportUpdate, Execute, Upload, UpdatePcs
  <2>2. ~SetupBuild(p) /\ ~SetupFails(p)
    BY <2>1 DEF SetupBuild, SetupFails
  <2>3. pc[p] \in UpdatePcs => job[p].cmd # "setup"
    BY <1>1 DEF InHand
  <2>4. QED
    BY <1>4, <1>5, <1>7, <2>1, <2>2, <2>3 DEF Pcs, FilesPcs, UpPcs, DownPcs, UnitPcs, NatPcs
<1>9. ASSUME NEW iface \in Ifaces, Confirmed(p, iface) PROVE MasqInTime(p)'
  <2>1. /\ pc'[p] \in {"files", "nat_up"}
        /\ pc'[p] = "nat_up" => job[p].cmd # "setup"
        /\ job'[p].cmd = job[p].cmd /\ job'[p].cfg = job[p].cfg /\ pc[p] = "ask" /\ dist' = dist
    BY <1>1, <1>9, ConfirmedOwn DEF Confirmed, Jobs, localVars
  <2>2. QED
    BY <1>3, <2>1 DEF MasqInTime, Told, FilesPcs, UpPcs, DownPcs, UnitPcs, NatPcs
<1>10. CASE UploadFiles(p)
  <2>1. /\ pc[p] = "files"
        /\ \/ Return(p, "failed")
           \/ Goto(p, "hung")
           \/ Goto(p, "main") /\ files' = [files EXCEPT ![n] = dist[p]]
    BY <1>10 DEF UploadFiles, Upload
  <2>2. ~SetupBuild(p) /\ ~SetupFails(p)
    BY <2>1 DEF SetupBuild, SetupFails
  <2>3. job[p].cmd = "setup" => dist[p] = job[p].cfg
    BY <2>1 DEF MasqInTime
  <2>4. QED
    BY <1>1, <1>2, <1>4, <1>5, <1>7, <2>1, <2>2, <2>3
       DEF Pcs, FilesPcs, UpPcs, DownPcs, UnitPcs, NatPcs, HostTypeOK
<1>11. CASE CopyConf(p) \/ EnableVpn(p) \/ Restart(p) \/ RestartFails(p) \/ CheckActiveFails(p)
            \/ CheckActive(p)
  <2>1. /\ pc[p] \in {"main", "enable", "restart", "check"} /\ files' = files
        /\ \/ Return(p, "failed")
           \/ Goto(p, "enable") \/ Goto(p, "restart") \/ Goto(p, AfterRestart(p))
           \/ Goto(p, "nat_up")
           \/ job[p].iface = NoFile /\ Goto(p, "record")
    BY <1>11 DEF CopyConf, EnableVpn, Restart, RestartFails, CheckActive, CheckActiveFails,
       Execute, RestartVpn, RestartVpnFails, hostVars
  <2>2. ~SetupBuild(p) /\ ~SetupFails(p) /\ pc[p] # "build"
    BY <2>1 DEF SetupBuild, SetupFails
  <2>3. job[p].cmd = "setup" => files'[n] = job[p].cfg
    BY <2>1 DEF MasqInTime, FilesPcs
  <2>4. /\ AfterRestart(p) \in {"check", "ask", "report"}
    BY DEF AfterRestart
  <2>5. QED
    BY <1>4, <1>5, <1>7, <2>1, <2>2, <2>3, <2>4
       DEF Pcs, FilesPcs, UpPcs, DownPcs, UnitPcs, NatPcs
<1>12. CASE UploadNatUp(p)
  <2>1. /\ pc[p] = "nat_up"
        /\ \/ Return(p, "failed")
           \/ Goto(p, "hung")
           \/ /\ Goto(p, "nat_down") /\ natUp' = [natUp EXCEPT ![n] = args]
              /\ UNCHANGED <<vpnVars, natUnit>>
    BY <1>12 DEF UploadNatUp, Upload
  <2>2. ~SetupBuild(p) /\ ~SetupFails(p)
    BY <2>1 DEF SetupBuild, SetupFails
  <2>3. QED
    BY <1>1, <1>2, <1>4, <1>5, <1>7, <2>1, <2>2
       DEF MasqInTime, Pcs, FilesPcs, UpPcs, DownPcs, UnitPcs, NatPcs, HostTypeOK, vpnVars
<1>13. CASE UploadNatDown(p)
  <2>1. /\ pc[p] = "nat_down"
        /\ \/ Return(p, "failed")
           \/ Goto(p, "hung")
           \/ Goto(p, "nat_unit") /\ UNCHANGED <<vpnVars, natUp, natUnit>>
    BY <1>13 DEF UploadNatDown, Upload
  <2>2. ~SetupBuild(p) /\ ~SetupFails(p)
    BY <2>1 DEF SetupBuild, SetupFails
  <2>3. QED
    BY <1>1, <1>2, <1>4, <1>5, <1>7, <2>1, <2>2
       DEF MasqInTime, Pcs, FilesPcs, UpPcs, DownPcs, UnitPcs, NatPcs, vpnVars
<1>14. CASE UploadNatUnit(p)
  <2>1. /\ pc[p] = "nat_unit"
        /\ \/ Return(p, "failed")
           \/ Goto(p, "hung")
           \/ Goto(p, "nat_enable") /\ natUnit' = TRUE /\ UNCHANGED <<vpnVars, natUp>>
    BY <1>14 DEF UploadNatUnit, Upload
  <2>2. ~SetupBuild(p) /\ ~SetupFails(p)
    BY <2>1 DEF SetupBuild, SetupFails
  <2>3. QED
    BY <1>1, <1>2, <1>4, <1>5, <1>7, <2>1, <2>2
       DEF MasqInTime, UnitThere, Pcs, FilesPcs, UpPcs, DownPcs, UnitPcs, NatPcs, vpnVars
<1>15. CASE EnableNat(p)
  <2>1. /\ pc[p] = "nat_enable"
        /\ \/ Return(p, "failed")
           \/ /\ Goto(p, "nat_restart") /\ natOn' = natOn \union {n}
              /\ UNCHANGED <<vpnVars, natUp, natUnit>>
    BY <1>15 DEF EnableNat, Execute, natFiles
  <2>2. ~SetupBuild(p) /\ ~SetupFails(p)
    BY <2>1 DEF SetupBuild, SetupFails
  <2>3. QED
    BY <1>1, <1>2, <1>4, <1>5, <1>7, <2>1, <2>2
       DEF MasqInTime, UnitThere, Pcs, FilesPcs, UpPcs, DownPcs, UnitPcs, NatPcs, vpnVars
<1>16. CASE ApplyNat(p) \/ ApplyNatFails(p)
  <2>1. /\ pc[p] = "nat_restart"
        /\ \/ Return(p, "failed")
           \/ /\ Goto(p, IF job[p].cmd = "setup" THEN "record" ELSE "report")
              /\ RestartNat(n)
    BY <1>16 DEF ApplyNat, ApplyNatFails, Execute
  <2>2. ~SetupBuild(p) /\ ~SetupFails(p)
    BY <2>1 DEF SetupBuild, SetupFails
  <2>3. ASSUME RestartNat(n), job[p].cmd = "setup" PROVE Masqueraded(n, args)'
    <3>1. natUp[n] = args /\ UnitThere /\ n \in natOn
      BY <2>1, <2>3 DEF MasqInTime, UpPcs, DownPcs, UnitPcs, NatPcs
    <3>2. /\ Intact(natUp[n]) /\ n \in natRun' /\ UNCHANGED <<natUp, natOn, natUnit>>
          /\ MasqOf(n, natUp[n]) \subseteq masq'
      BY <2>3 DEF RestartNat, CanStartNat, AfterUp, natFiles
    <3>3. MasqRule(n, args) \in masq'
      BY <3>1, <3>2 DEF MasqOf
    <3>4. MasqRule(n, args)' = MasqRule(n, args)
      BY DEF MasqRule
    <3>5. QED
      BY <3>1, <3>2, <3>3, <3>4 DEF Masqueraded, UnitThere
  <2>4. RestartNat(n) => UNCHANGED vpnVars
    BY DEF RestartNat
  <2>5. QED
    BY <1>1, <1>2, <1>4, <1>5, <1>7, <2>1, <2>2, <2>3, <2>4
       DEF MasqInTime, Pcs, FilesPcs, UpPcs, DownPcs, UnitPcs, NatPcs, vpnVars
<1>17. CASE RecordSetup(p)
  <2>1. /\ pc[p] = "record" /\ Return(p, "live") /\ UNCHANGED hostVars
        /\ setup' = [setup EXCEPT ![p] = [name |-> n, nat |-> job[p].iface]]
    BY <1>17 DEF RecordSetup
  <2>2. pc'[p] = "idle" /\ job'[p] = NoJob /\ told'[p] = [what |-> "live", name |-> n]
    BY <2>1, ReturnOwn
  <2>3. job[p].cmd = "setup"
    BY <1>1, <2>1 DEF InHand, SetupPcs
  <2>4. setup'[p].nat = job[p].iface
    BY <1>1, <2>1
  <2>5. run[n] = job[p].cfg
    BY <2>1, <2>3 DEF ServesInTime, Serves, MasqInTime, FilesPcs
  <2>6. job[p].iface # NoFile => Masqueraded(n, args)
    BY <2>1, <2>3 DEF MasqInTime
  <2>7. Masqueraded(n, args) => Masqueraded(n, args)'
    BY <2>1 DEF Masqueraded, UnitThere, MasqRule, hostVars
  <2>8. [subnet |-> run'[n].subnet, iface |-> setup'[p].nat] = args
    BY <2>1, <2>4, <2>5 DEF JobNat, hostVars
  <2>9. QED
    BY <2>2, <2>4, <2>6, <2>7, <2>8 DEF MasqInTime, Told, NoJob
<1>18. CASE CleanStep(p)
  <2>1. \/ Return(p, "cleaned")
        \/ job[p].cmd # "setup" /\ \E next \in CleanPcs : Goto(p, next)
    BY <1>1, <1>18 DEF CleanStep, CleanNatStop, CleanNatDisable, CleanNatDown, CleanStop,
       CleanDisable, CleanConf, CleanFiles, CleanRecord, Try, InHand, CleanPcs
  <2>2. QED
    BY <1>4, <1>5, <2>1 DEF Pcs, CleanPcs
<1>19. CASE SetupFails(p)
  BY <1>4, <1>19 DEF SetupFails
<1>20. QED
  BY <1>6, <1>8, <1>9, <1>10, <1>11, <1>12, <1>13, <1>14, <1>15, <1>16, <1>17, <1>18, <1>19
     DEF Step, SetupStep

LEMMA MasqStep ==
  ASSUME DistinctNames, NatPremise, TypeInv, [Next]_vars,
         \A p \in Projects : ServesInTime(p) /\ MasqInTime(p)
  PROVE  \A p \in Projects : MasqInTime(p)'
<1> SUFFICES ASSUME NEW p \in Projects PROVE MasqInTime(p)'
  OBVIOUS
<1>1. ServesInTime(p) /\ MasqInTime(p) /\ HostTypeOK
  BY DEF TypeInv, TypeOK
<1>2. /\ pc[p] # "idle" => job[p].name \in NamesOf(p)
      /\ Told(p, "live") => told[p].name \in NamesOf(p)
      /\ job[p].cmd = "setup" => pc[p] # "idle"
      /\ NamesOf(p) \subseteq Names
  BY NamesOfType DEF TypeInv, InHand, OnRecord, Told, NoJob
<1>3. PICK n, m, args, past : /\ n = job[p].name /\ m = told[p].name
                             /\ args = JobNat(p)
                             /\ past = [subnet |-> run[m].subnet, iface |-> setup[p].nat]
  OBVIOUS
<1>4. CASE Step(p)
  BY <1>1, <1>4, MasqOwn DEF NatPremise
<1>5. CASE Operator(p)
  <2>1. UNCHANGED <<hostVars, setup>>
    BY <1>5, OperatorEffect
  <2>2. \A a, b : Masqueraded(a, b) => Masqueraded(a, b)'
    BY <2>1 DEF Masqueraded, UnitThere, MasqRule, hostVars
  <2>3. CASE UNCHANGED <<pc, job, told, lost>>
    <3>1. pc[p] # "idle" => UNCHANGED <<cfg, dist>>
      BY <1>5, OperatorEffect DEF NatPremise
    <3>2. JobNat(p)' = args
      BY <1>3, <2>3 DEF JobNat
    <3>3. [subnet |-> run[told[p].name].subnet, iface |-> setup[p].nat]' = past
      BY <1>3, <2>1, <2>3 DEF hostVars
    <3>4. QED
      BY <1>1, <1>2, <1>3, <2>1, <2>2, <2>3, <3>1, <3>2, <3>3
         DEF MasqInTime, Told, Masqueraded, UnitThere, MasqRule, hostVars
  <2>4. CASE pc'[p] \in {"build", "upload", "c_nat_stop"} /\ told'[p].what = "none"
    <3>1. ~Told(p, "live")' /\ pc'[p] \notin FilesPcs \union UpPcs \union UnitPcs
      BY <2>4 DEF Told, FilesPcs, UpPcs, DownPcs, UnitPcs, NatPcs
    <3>2. CASE UNCHANGED <<pc, job, told, lost>>
      BY <2>3, <3>2
    <3>3. CASE /\ UNCHANGED <<cfg, dist>>
               /\ job'[p].cmd # "clean" => job'[p].cfg = cfg[p]
               /\ job'[p].cmd = "setup" => pc'[p] = "build"
      BY <2>4, <3>1, <3>3 DEF MasqInTime, FilesPcs
    <3>4. QED
      BY <1>5, <3>2, <3>3, OperatorEffect
  <2>5. QED
    BY <1>5, <2>3, <2>4, OperatorEffect
<1>6. ASSUME NEW q \in Projects, q # p, Operator(q) \/ Step(q) \/ Silence(q) PROVE MasqInTime(p)'
  <2>1. Undisturbed(p)
    BY <1>6, OthersKeep
  <2>2. UnitThere => UnitThere'
    <3>1. CASE "reboot" \in Faults
      <4>1. Faults \intersect {"error", "drop", "silence"} = {}
        BY <1>6, <3>1 DEF NatPremise
      <4>2. Step(q) /\ natUnit => natUnit'
        BY <4>1, UnitKept
      <4>3. QED
        BY <1>6, <4>2, OperatorHost, SilenceOwn DEF UnitThere, hostVars
    <3>2. CASE "reboot" \notin Faults
      BY <3>2 DEF UnitThere
    <3>3. QED
      BY <3>1, <3>2
  <2>3. ASSUME NEW a \in NamesOf(p) PROVE Kept(a)
    BY <2>1 DEF Undisturbed
  <2>4. ASSUME NEW a \in NamesOf(p), NEW b, Masqueraded(a, b) PROVE Masqueraded(a, b)'
    BY <1>1, <1>2, <2>2, <2>3, <2>4, MasqKept DEF Masqueraded
  <2>5. /\ cfg'[p] = cfg[p] /\ dist'[p] = dist[p] /\ setup'[p] = setup[p]
        /\ pc'[p] = pc[p] /\ job'[p] = job[p] /\ told'[p] = told[p]
    BY <2>1 DEF Undisturbed
  <2>6. JobNat(p)' = args /\ Told(p, "live")' = Told(p, "live")
    BY <1>3, <2>5 DEF JobNat, Told
  <2>7. Told(p, "live") => [subnet |-> run[told[p].name].subnet, iface |-> setup[p].nat]' = past
    BY <1>2, <1>3, <2>3, <2>5 DEF Kept
  <2>8. Told(p, "live")' /\ setup'[p].nat # NoFile => Masqueraded(m, past)'
    BY <1>1, <1>2, <1>3, <2>4, <2>5, <2>6 DEF MasqInTime
  <2>9. (job[p].cmd = "setup" /\ pc[p] = "record" /\ job[p].iface # NoFile) => Masqueraded(n, args)'
    BY <1>1, <1>2, <1>3, <2>4 DEF MasqInTime
  <2>10. job[p].cmd = "setup" => Kept(n)
    BY <1>2, <1>3, <2>3
  <2>11. QED
    BY <1>1, <1>3, <2>2, <2>5, <2>6, <2>7, <2>8, <2>9, <2>10 DEF MasqInTime, Kept
<1>7. CASE Reboot
  <2>1. /\ UNCHANGED <<cfg, dist, setup, pc, job, told, files, natUp, natOn, natUnit>>
        /\ Boot /\ "reboot" \in Faults
    BY <1>7 DEF Reboot, localVars, Boot
  <2>2. Serves(m) /\ m \in Names => run'[m] = run[m]
    BY <2>1, ServesBoot DEF Serves, Boot, TypeInv, TypeOK
  <2>3. JobNat(p)' = args /\ Told(p, "live")' = Told(p, "live")
    BY <1>3, <2>1 DEF JobNat, Told
  <2>4. ASSUME Told(p, "live"), setup[p].nat # NoFile PROVE Masqueraded(m, past)'
    <3>1. Masqueraded(m, past) /\ Serves(m) /\ m \in Names /\ setup[p] # NoFile
      BY <1>1, <1>2, <1>3, <2>4 DEF MasqInTime, ServesInTime
    <3>2. past \in NatArgs
      <4>1. run[m] \in Settings /\ setup[p] \in Setups
        BY <1>1, <3>1 DEF HostTypeOK, Serves, TypeInv, TypeOK
      <4>2. QED
        BY <1>3, <2>4, <4>1 DEF NatArgs, Settings, Setups
    <3>3. QED
      BY <1>1, <2>1, <3>1, <3>2, MasqBoot
  <2>5. ASSUME job[p].cmd = "setup", pc[p] = "record", job[p].iface # NoFile
        PROVE  Masqueraded(n, args)'
    <3>1. Masqueraded(n, args) /\ n \in Names
      BY <1>1, <1>2, <1>3, <2>5 DEF MasqInTime
    <3>2. args \in NatArgs
      <4>1. job[p] \in Jobs /\ job[p].cfg \in Settings
        BY <2>5, NamesOfType DEF TypeInv, TypeOK, InHand
      <4>2. job[p].iface \in Ifaces
        BY <2>5, <4>1 DEF Jobs
      <4>3. QED
        BY <1>3, <4>1, <4>2 DEF JobNat, NatArgs, Settings
    <3>3. QED
      BY <1>1, <2>1, <3>1, <3>2, MasqBoot
  <2>6. Told(p, "live") => [subnet |-> run[told[p].name].subnet, iface |-> setup[p].nat]' = past
    BY <1>1, <1>2, <1>3, <2>1, <2>2 DEF ServesInTime
  <2>7. UnitThere => UnitThere'
    BY <2>1 DEF UnitThere
  <2>8. QED
    BY <1>1, <1>3, <2>1, <2>3, <2>4, <2>5, <2>6, <2>7 DEF MasqInTime
<1>8. CASE UNCHANGED vars
  <2>1. JobNat(p)' = args
    BY <1>3, <1>8 DEF JobNat, vars
  <2>2. QED
    BY <1>1, <1>3, <1>8, <2>1 DEF vars, hostVars, MasqInTime, Masqueraded, MasqRule, UnitThere, Told
<1>9. CASE Silence(p)
  <2>1. /\ UNCHANGED <<hostVars, cfg, setup>>
        /\ \/ pc'[p] = "hung" /\ UNCHANGED <<job, told>>
           \/ pc'[p] = "idle" /\ job'[p] = NoJob /\ told'[p].what = "failed"
    BY <1>9, SilenceOwn
  <2>2. ~Told(p, "live")' /\ (job'[p].cmd = "setup" => pc'[p] = "hung" /\ UNCHANGED job)
    BY <2>1 DEF Told, NoJob
  <2>3. QED
    BY <1>1, <2>1, <2>2 DEF MasqInTime, FilesPcs, UpPcs, DownPcs, UnitPcs, NatPcs
<1>10. QED
  BY <1>4, <1>5, <1>6, <1>7, <1>8, <1>9 DEF Next

\* Where the configuration stays as it is while setup runs: the subnet that an
\* instance hands out, once setup said it is live, is masqueraded, and is so
\* again after a restart of the host.
THEOREM LiveIsMasqueraded ==
  ASSUME DistinctNames, NatPremise PROVE Spec => []LiveMasquerades
<1> DEFINE Inv == TypeInv /\ \A p \in Projects : ServesInTime(p) /\ MasqInTime(p)
<1>1. Init => Inv
  BY InitType DEF Init, ServesInTime, MasqInTime, Told, NoJob, Quiet
<1>2. Inv /\ [Next]_vars => Inv'
  BY NextType, ServesStep, MasqStep
<1>3. Inv => LiveMasquerades
  BY DEF MasqInTime, LiveMasquerades, Masqueraded, MasqRule
<1> HIDE DEF Inv
<1>4. QED
  BY <1>1, <1>2, <1>3, PTL DEF Spec

-----------------------------------------------------------------------------
(* IPv4 forwarding.                                                        *)

\* No command fails, is lost or hangs by itself, and where the host may restart,
\* which loses every session, no other project learned from this one that
\* the kernel forwards.
ForwardPremise ==
  /\ Faults \intersect {"error", "drop", "silence"} = {}
  /\ "reboot" \in Faults => \A p, q \in Projects : p = q

\* What the kernel does is in the file, or a setup whose session holds is about
\* to write it.
Persisted == forward => sysctl \/ \E q \in Projects : pc[q] = "sysctl" /\ q \notin lost

\* No interface is confirmed before forwarding is on, and it stays on.
ForwardInTime(p) ==
  /\ pc[p] \in {"build", "forward", "sysctl"} => job[p].iface = NoFile
  /\ pc[p] = "sysctl" /\ p \notin lost => forward
  /\ job[p].cmd = "setup" /\ (pc[p] = "ask" \/ job[p].iface # NoFile) => forward
  /\ Told(p, "live") /\ setup[p].nat # NoFile => forward

\* Forwarding is touched by the two steps of setup that turn it on alone.
LEMMA StepForward ==
  ASSUME NEW p \in Projects, Step(p), ~EnableForwarding(p), ~PersistForwarding(p)
  PROVE  UNCHANGED <<forward, sysctl>> /\ pc[p] # "sysctl"
<1> USE DEF hostVars, vpnVars, natFiles, natSet, natVars, ipVars
<1>1. CASE SetupStep(p)
  BY <1>1 DEF SetupStep, SetupBuild, SetupFails, ForwardingOn, Declined, Confirmed,
     NatRefused, UploadFiles, CopyConf, EnableVpn, Restart, RestartFails, CheckActive,
     CheckActiveFails, UploadNatUp, UploadNatDown, UploadNatUnit, EnableNat, ApplyNat,
     ApplyNatFails, RecordSetup, Execute, Upload, RestartVpn, RestartVpnFails, RestartNat, StopNat
<1>2. CASE UpdateStep(p)
  BY <1>2 DEF UpdateStep, UploadConf, ReportUpdate, Upload
<1>3. CASE CleanStep(p)
  BY <1>3 DEF CleanStep, CleanNatStop, CleanNatDisable, CleanNatDown, CleanStop,
     CleanDisable, CleanConf, CleanFiles, CleanRecord, Try, StopNat, RunNatDown, StopVpn
<1>4. QED
  BY <1>1, <1>2, <1>3 DEF Step

\* A session is lost while a command runs by a dropped connection alone.
LEMMA StepLost ==
  ASSUME NEW p \in Projects, Step(p), "drop" \notin Faults
  PROVE  UNCHANGED lost
<1>1. CASE SetupStep(p)
  BY <1>1 DEF SetupStep, SetupBuild, SetupFails, ForwardingOn, EnableForwarding,
     PersistForwarding, Declined, Confirmed, NatRefused, UploadFiles, CopyConf, EnableVpn,
     Restart, RestartFails, CheckActive, CheckActiveFails, UploadNatUp, UploadNatDown,
     UploadNatUnit, EnableNat, ApplyNat, ApplyNatFails, RecordSetup, Execute, Upload
<1>2. CASE UpdateStep(p)
  BY <1>2 DEF UpdateStep, UploadConf, ReportUpdate, Upload
<1>3. CASE CleanStep(p)
  BY <1>3 DEF CleanStep, CleanNatStop, CleanNatDisable, CleanNatDown, CleanStop,
     CleanDisable, CleanConf, CleanFiles, CleanRecord, Try
<1>4. QED
  BY <1>1, <1>2, <1>3 DEF Step

\* What the two steps do where nothing fails by itself.
LEMMA EnableStep ==
  ASSUME ForwardPremise, NEW p \in Projects, EnableForwarding(p)
  PROVE  /\ pc[p] = "forward" /\ UNCHANGED sysctl
         /\ \/ Return(p, "failed") /\ UNCHANGED forward
            \/ Goto(p, "sysctl") /\ p \notin lost /\ forward' = TRUE
BY DEF ForwardPremise, EnableForwarding, Execute, hostVars

LEMMA PersistStep ==
  ASSUME ForwardPremise, NEW p \in Projects, PersistForwarding(p)
  PROVE  /\ pc[p] = "sysctl" /\ UNCHANGED forward
         /\ \/ p \in lost /\ Return(p, "failed") /\ UNCHANGED sysctl
            \/ Goto(p, "ask") /\ p \notin lost /\ sysctl' = TRUE
BY DEF ForwardPremise, PersistForwarding, Execute, Refusable, hostVars

\* Once on, forwarding is turned off by no step of a command.
LEMMA StaysForward ==
  ASSUME ForwardPremise, TypeInv, Persisted, NEW p \in Projects, Step(p)
  PROVE  (forward => forward') /\ (sysctl => sysctl') /\ Persisted'
<1>1. /\ forward => forward'
      /\ sysctl => sysctl'
  BY StepForward, EnableStep, PersistStep
<1>2. UNCHANGED lost
  BY StepLost DEF ForwardPremise
<1>3. /\ pc \in [Projects -> Pcs]
      /\ \A q \in Projects : q # p => pc'[q] = pc[q]
  BY LocalFrame DEF TypeInv, TypeOK
<1>4. CASE EnableForwarding(p)
  <2>1. pc[p] # "sysctl"
    BY <1>4, EnableStep
  <2>2. CASE Goto(p, "sysctl") /\ p \notin lost
    BY <1>1, <1>2, <1>3, <2>2 DEF Goto, Persisted
  <2>3. CASE UNCHANGED forward
    BY <1>1, <1>2, <1>3, <2>1, <2>3 DEF Persisted
  <2>4. QED
    BY <1>4, <2>2, <2>3, EnableStep
<1>5. CASE PersistForwarding(p)
  <2>1. CASE sysctl'
    BY <1>1, <2>1 DEF Persisted
  <2>2. CASE p \in lost /\ UNCHANGED <<forward, sysctl>>
    BY <1>2, <1>3, <2>2 DEF Persisted
  <2>3. QED
    BY <1>5, <2>1, <2>2, PersistStep
<1>6. CASE ~EnableForwarding(p) /\ ~PersistForwarding(p)
  <2>1. UNCHANGED <<forward, sysctl>> /\ pc[p] # "sysctl"
    BY <1>6, StepForward
  <2>2. QED
    BY <1>2, <1>3, <2>1 DEF Persisted
<1>7. QED
  BY <1>1, <1>4, <1>5, <1>6

LEMMA ForwardOwn ==
  ASSUME ForwardPremise, TypeInv, NEW p \in Projects, ForwardInTime(p), Step(p)
  PROVE  ForwardInTime(p)'
<1>1. /\ pc \in [Projects -> Pcs] /\ job \in [Projects -> Jobs] /\ told \in [Projects -> Reports]
      /\ setup \in [Projects -> Setups \union {NoFile}] /\ InHand(p)
  BY DEF TypeInv, TypeOK
<1>2. lost' = lost
  BY StepLost DEF ForwardPremise
<1>3. ASSUME Return(p, "failed") \/ Return(p, "updated") \/ Return(p, "cleaned")
      PROVE  ForwardInTime(p)'
  BY <1>1, <1>3 DEF ForwardInTime, Told, NoJob, Return
<1>4. ASSUME NEW next \in Pcs \ {"idle"}, Goto(p, next),
             next \in {"forward", "sysctl"} => job[p].iface = NoFile,
             next # "build",
             (next = "sysctl" /\ p \notin lost) => forward',
             (job[p].cmd = "setup" /\ (next = "ask" \/ job[p].iface # NoFile)) => forward'
      PROVE  ForwardInTime(p)'
  <2>1. pc'[p] = next /\ job' = job
    BY <1>1, <1>4 DEF Goto
  <2>2. ~Told(p, "live")'
    BY <2>1 DEF Told
  <2>3. QED
    BY <1>2, <1>4, <2>1, <2>2 DEF ForwardInTime
<1>5. CASE EnableForwarding(p)
  <2>1. /\ pc[p] = "forward"
        /\ \/ Return(p, "failed")
           \/ Goto(p, "sysctl") /\ forward' = TRUE
    BY <1>5, EnableStep
  <2>2. QED
    BY <1>3, <1>4, <2>1 DEF ForwardInTime, Pcs
<1>6. CASE PersistForwarding(p)
  <2>1. /\ pc[p] = "sysctl" /\ forward' = forward
        /\ \/ Return(p, "failed")
           \/ Goto(p, "ask") /\ p \notin lost
    BY <1>6, PersistStep
  <2>2. QED
    BY <1>3, <1>4, <2>1 DEF ForwardInTime, Pcs
<1>7. CASE ForwardingOn(p) \/ SetupBuild(p)
  <2>1. \/ Goto(p, "ask") /\ forward /\ UNCHANGED hostVars
        \/ /\ pc[p] = "build" /\ UNCHANGED hostVars
           /\ Goto(p, "forward") \/ Goto(p, "files")
    BY <1>7 DEF ForwardingOn, SetupBuild
  <2>2. QED
    BY <1>4, <2>1 DEF ForwardInTime, Pcs, hostVars
<1>8. CASE /\ ~EnableForwarding(p) /\ ~PersistForwarding(p)
           /\ ~ForwardingOn(p) /\ ~SetupBuild(p) /\ ~RecordSetup(p)
           /\ ~\E iface \in Ifaces : Confirmed(p, iface)
  <2>1. forward' = forward /\ pc[p] # "sysctl"
    BY <1>8, StepForward
  <2>2. \/ Return(p, "failed") \/ Return(p, "updated") \/ Return(p, "cleaned")
        \/ \E next \in Pcs \ {"idle", "build", "forward", "sysctl"} :
             Goto(p, next) /\ (next = "ask" => job[p].cmd = "update")
    <3>1. CASE SetupStep(p)
      BY <1>1, <1>8, <3>1 DEF SetupStep, SetupFails, Declined, NatRefused, UploadFiles,
         CopyConf, EnableVpn, Restart, AfterRestart, RestartFails, CheckActive, CheckActiveFails,
         UploadNatUp, UploadNatDown, UploadNatUnit, EnableNat, ApplyNat, ApplyNatFails,
         Execute, Upload, Pcs, InHand
    <3>2. CASE UpdateStep(p)
      BY <3>2 DEF UpdateStep, UploadConf, ReportUpdate, Upload, Pcs
    <3>3. CASE CleanStep(p)
      BY <3>3 DEF CleanStep, CleanNatStop, CleanNatDisable, CleanNatDown, CleanStop,
         CleanDisable, CleanConf, CleanFiles, CleanRecord, Try, Pcs
    <3>4. QED
      BY <3>1, <3>2, <3>3 DEF Step
  <2>3. CASE \E next \in Pcs \ {"idle", "build", "forward", "sysctl"} :
               Goto(p, next) /\ (next = "ask" => job[p].cmd = "update")
    <3>1. PICK next \in Pcs \ {"idle", "build", "forward", "sysctl"} :
            Goto(p, next) /\ (next = "ask" => job[p].cmd = "update")
      BY <2>3
    <3>2. QED
      BY <1>4, <2>1, <3>1 DEF ForwardInTime
  <2>4. QED
    BY <1>3, <2>2, <2>3
<1>9. ASSUME NEW iface \in Ifaces, Confirmed(p, iface) PROVE ForwardInTime(p)'
  <2>1. /\ pc[p] = "ask" /\ pc'[p] \in {"files", "nat_up"} /\ forward' = forward
        /\ job'[p].cmd = job[p].cmd
    BY <1>1, <1>9, ConfirmedOwn DEF Confirmed, Jobs, hostVars
  <2>2. QED
    BY <2>1 DEF ForwardInTime, Told
<1>10. CASE RecordSetup(p)
  <2>1. /\ pc[p] = "record" /\ Return(p, "live") /\ forward' = forward
        /\ setup' = [setup EXCEPT ![p] = [name |-> job[p].name, nat |-> job[p].iface]]
    BY <1>10 DEF RecordSetup, hostVars
  <2>2. /\ pc'[p] = "idle" /\ job'[p] = NoJob
    BY <2>1, ReturnOwn
  <2>3. setup'[p].nat = job[p].iface /\ job[p].cmd = "setup"
    BY <1>1, <2>1 DEF InHand, SetupPcs
  <2>4. QED
    BY <2>1, <2>2, <2>3 DEF ForwardInTime, Told, NoJob
<1>11. QED
  BY <1>5, <1>6, <1>7, <1>8, <1>9, <1>10

\* With one project, what is said to forward is in the file.
LEMMA ForwardStep ==
  ASSUME ForwardPremise, TypeInv, Persisted, \A p \in Projects : ForwardInTime(p), [Next]_vars
  PROVE  Persisted' /\ \A p \in Projects : ForwardInTime(p)'
<1>1. ASSUME NEW q \in Projects, Step(q)
      PROVE  Persisted' /\ \A p \in Projects : ForwardInTime(p)'
  <2>1. (forward => forward') /\ Persisted'
    BY <1>1, StaysForward
  <2>2. ASSUME NEW p \in Projects, p # q PROVE ForwardInTime(p)'
    BY <1>1, <2>1, <2>2, LocalFrame DEF ForwardInTime, Told
  <2>3. ForwardInTime(q)'
    BY <1>1, ForwardOwn
  <2>4. QED
    BY <2>1, <2>2, <2>3
<1>2. ASSUME NEW q \in Projects, Operator(q)
      PROVE  Persisted' /\ \A p \in Projects : ForwardInTime(p)'
  <2>1. UNCHANGED <<forward, sysctl, setup>>
    BY <1>2, OperatorEffect DEF hostVars
  <2>2. ASSUME NEW p \in Projects, p # q
        PROVE  /\ pc'[p] = pc[p] /\ job'[p] = job[p] /\ told'[p] = told[p]
               /\ p \in lost' <=> p \in lost
    BY <1>2, <2>2, LocalFrame
  <2>3. \/ UNCHANGED <<pc, job, told, lost>>
        \/ /\ pc[q] = "idle" /\ pc'[q] \in {"build", "upload", "c_nat_stop"}
           /\ job'[q].iface = NoFile
    BY <1>2, OperatorEffect
  <2>4. Persisted'
    BY <2>1, <2>2, <2>3 DEF Persisted
  <2>5. ForwardInTime(q)'
    BY <2>1, <2>3 DEF ForwardInTime, Told
  <2>6. ASSUME NEW p \in Projects, p # q PROVE ForwardInTime(p)'
    BY <2>1, <2>2, <2>6 DEF ForwardInTime, Told
  <2>7. QED
    BY <2>4, <2>5, <2>6
<1>3. CASE Reboot
  <2>1. /\ forward' = sysctl /\ sysctl' = sysctl /\ UNCHANGED <<setup, pc, job, told>>
        /\ lost' = lost \union {p \in Projects : pc[p] # "idle"}
        /\ \A p, q \in Projects : p = q
    BY <1>3 DEF Reboot, Boot, localVars, ForwardPremise
  <2>2. ASSUME NEW p \in Projects PROVE ForwardInTime(p)'
    <3>1. pc[p] # "sysctl" => (forward => sysctl)
      BY <2>1 DEF Persisted
    <3>2. pc[p] = "sysctl" => p \in lost' /\ job[p].iface = NoFile
      BY <2>1 DEF ForwardInTime
    <3>3. QED
      BY <2>1, <3>1, <3>2 DEF ForwardInTime, Told
  <2>3. QED
    BY <2>1, <2>2 DEF Persisted
<1>4. CASE UNCHANGED vars
  BY <1>4 DEF vars, hostVars, Persisted, ForwardInTime, Told
<1>5. ASSUME NEW q \in Projects, Silence(q)
      PROVE  Persisted' /\ \A p \in Projects : ForwardInTime(p)'
  <2>1. Interrupt(q)
    BY <1>5 DEF Silence, Hang, ForwardPremise
  <2>2. /\ UNCHANGED <<forward, sysctl, setup, lost>>
        /\ pc[q] = "hung" /\ Return(q, "failed")
    BY <2>1 DEF Interrupt, hostVars, localVars
  <2>3. pc'[q] = "idle" /\ job'[q] = NoJob /\ told'[q].what = "failed"
    <3>1. /\ pc'[q] = "idle" /\ job'[q] = NoJob
          /\ told'[q] = [what |-> "failed", name |-> job[q].name]
      BY <2>2, ReturnOwn
    <3>2. QED
      BY <3>1
  <2>4. ASSUME NEW p \in Projects, p # q
        PROVE  pc'[p] = pc[p] /\ job'[p] = job[p] /\ told'[p] = told[p]
    BY <1>5, <2>4, LocalFrame
  <2>5. Persisted'
    BY <2>2, <2>4 DEF Persisted
  <2>6. QED
    BY <2>2, <2>3, <2>4, <2>5 DEF ForwardInTime, Told, NoJob
<1>6. QED
  BY <1>1, <1>2, <1>3, <1>4, <1>5 DEF Next

\* Where no command fails, is lost or hangs by itself: once setup said it is live with
\* NAT, the host forwards, and goes on to after a restart, except while another
\* setup is about to see to that.
THEOREM LiveIsForwarded == ASSUME ForwardPremise PROVE Spec => []LiveForwards
<1> DEFINE Inv == TypeInv /\ Persisted /\ \A p \in Projects : ForwardInTime(p)
<1>1. Init => Inv
  BY InitType DEF Init, HostInit, Persisted, ForwardInTime, Told, NoJob, Quiet
<1>2. Inv /\ [Next]_vars => Inv'
  BY NextType, ForwardStep
<1>3. Inv => LiveForwards
  BY DEF Persisted, ForwardInTime, LiveForwards
<1> HIDE DEF Inv
<1>4. QED
  BY <1>1, <1>2, <1>3, PTL DEF Spec

-----------------------------------------------------------------------------
(* The rules of an instance that is gone.                                  *)

\* What the scripts of instance n may say, by the tunsmith.json of project p.
ArgsOf(p, n) ==
  {[subnet |-> s.subnet, iface |-> i] : s \in {t \in SettingsOf[p] : t.name = n}, i \in Ifaces}

\* No command fails, is lost or hangs, each instance has one subnet, and the
\* host has one interface to masquerade on, since any of its interfaces may be
\* confirmed; so that each nat-down.sh deletes what any earlier nat.sh of the
\* instance added.
RulesPremise ==
  /\ Faults \subseteq {"reboot"}
  /\ \A p \in Projects : \A n \in NamesOf(p) : \A a, b \in ArgsOf(p, n) : a = b

\* The scripts are whole; an enabled unit has its nat-down.sh, and every rule
\* of the instance is one that its nat-down.sh deletes.
RulesKnown(p, n) ==
  /\ natUp[n] \in ArgsOf(p, n) \union {NoFile}
  /\ natDown[n] \in ArgsOf(p, n) \union {NoFile}
  /\ n \in natOn => natDown[n] # NoFile
  /\ \A r \in masq : r.name = n => natDown[n] # NoFile /\ r = MasqRule(n, natDown[n])

NoRules(n) == \A r \in masq : r.name # n

RulesInTime(p) ==
  /\ pc[p] \in DownPcs => natDown[job[p].name] # NoFile
  /\ pc[p] \in PastNatDown => NoRules(job[p].name)
  /\ Told(p, "cleaned") => NoRules(told[p].name)
  /\ \A n \in NamesOf(p) : RulesKnown(p, n)

LEMMA ArgsType ==
  ASSUME NEW p \in Projects, NEW n \in NamesOf(p), NEW a \in ArgsOf(p, n)
  PROVE  a \in NatArgs /\ a # NoFile /\ Intact(a)
<1>1. a \in NatArgs
  BY NamesOfType DEF ArgsOf, NatArgs, Settings
<1>2. QED
  BY <1>1, HostAssumption DEF Missing, Intact

\* What the scripts of an instance name, by the arguments they are known by.
LEMMA KnownScripts ==
  ASSUME RulesPremise, NEW p \in Projects, NEW n \in NamesOf(p), RulesKnown(p, n)
  PROVE  /\ natDown[n] # NoFile => MasqOf(n, natDown[n]) = {MasqRule(n, natDown[n])}
         /\ natDown[n] # NoFile => \A r \in MasqOf(n, natUp[n]) : r = MasqRule(n, natDown[n])
<1>1. natDown[n] # NoFile => Intact(natDown[n])
  BY ArgsType DEF RulesKnown
<1>2. (natDown[n] # NoFile /\ Intact(natUp[n])) => natUp[n] = natDown[n]
  BY DEF RulesKnown, RulesPremise, Intact, Missing
<1>3. QED
  BY <1>1, <1>2 DEF MasqOf

\* RulesKnown through a step that leaves the instance's scripts and enabled
\* unit, and adds no rule but the one its nat-down.sh deletes.
LEMMA KnownKept ==
  ASSUME NEW p \in Projects, NEW n, RulesKnown(p, n),
         natUp'[n] = natUp[n], natDown'[n] = natDown[n],
         n \in natOn' => natDown[n] # NoFile,
         \A r \in masq' : r.name = n =>
           r \in masq \/ (natDown[n] # NoFile /\ r = MasqRule(n, natDown[n]))
  PROVE  RulesKnown(p, n)'
<1>1. PICK d : d = natDown[n] /\ d = natDown'[n]
  OBVIOUS
<1>2. MasqRule(n, natDown[n])' = MasqRule(n, natDown[n])
  BY <1>1 DEF MasqRule
<1>3. QED
  BY <1>1, <1>2 DEF RulesKnown, ArgsOf

\* systemctl and nat-down.sh add no other rule.
LEMMA SystemctlRules ==
  ASSUME RulesPremise, NEW p \in Projects, NEW n \in NamesOf(p), RulesKnown(p, n),
         \/ RestartVpn(n) \/ RestartVpnFails(n) \/ StopVpn(n)
         \/ RestartNat(n) /\ natDown[n] # NoFile
         \/ RunNatDown(n) \/ StopNat(n)
  PROVE  RulesKnown(p, n)' /\ UNCHANGED <<natUp, natDown, natOn>>
<1> USE DEF natFiles, natSet, natVars
<1>1. natDown[n] # NoFile => \A r \in MasqOf(n, natUp[n]) : r = MasqRule(n, natDown[n])
  BY KnownScripts
<1>2. n \in natOn => natDown[n] # NoFile
  BY DEF RulesKnown
<1>3. UNCHANGED <<natUp, natDown, natOn>>
  BY DEF RestartVpn, RestartVpnFails, StopVpn, RestartNat, RunNatDown, StopNat
<1>4. \A r \in masq' :
        r \in masq \/ (natDown[n] # NoFile /\ r = MasqRule(n, natDown[n]))
  <2>1. CASE RestartVpn(n)
    BY <1>1, <1>2, <2>1 DEF RestartVpn, AfterUp
  <2>2. CASE RestartNat(n) /\ natDown[n] # NoFile
    BY <1>1, <2>2 DEF RestartNat, AfterUp, AfterDown
  <2>3. CASE RestartVpnFails(n) \/ StopVpn(n) \/ RunNatDown(n) \/ StopNat(n)
    BY <2>3 DEF RestartVpnFails, StopVpn, RunNatDown, StopNat, AfterDown
  <2>4. QED
    BY <2>1, <2>2, <2>3
<1>5. QED
  BY <1>2, <1>3, <1>4, KnownKept

\* nat-down.sh leaves no rule of its instance.
LEMMA DownRemoves ==
  ASSUME RulesPremise, NEW p \in Projects, NEW n \in NamesOf(p), RulesKnown(p, n), RunNatDown(n)
  PROVE  NoRules(n)'
<1>1. natDown[n] # NoFile => MasqOf(n, natDown[n]) = {MasqRule(n, natDown[n])}
  BY KnownScripts
<1>2. masq' = masq \ MasqOf(n, natDown[n])
  BY DEF RunNatDown, AfterDown
<1>3. QED
  BY <1>1, <1>2 DEF RulesKnown, NoRules

\* A boot brings back the rules of the scripts alone.
LEMMA BootRules ==
  ASSUME RulesPremise, HostTypeOK, Boot, NEW p \in Projects, NEW n \in NamesOf(p), RulesKnown(p, n)
  PROVE  /\ RulesKnown(p, n)'
         /\ n \notin natOn => NoRules(n)'
<1>1. UNCHANGED <<natUp, natDown, natOn>>
      /\ masq' = UNION {MasqOf(m, natUp[m]) : m \in {k \in natOn : CanStartNat(k)}}
  BY DEF Boot
<1>2. \A m \in natOn : \A r \in MasqOf(m, natUp[m]) : r.name = m
  BY ScriptType DEF HostTypeOK
<1>3. \A r \in masq' : r.name = n => n \in natOn /\ r \in MasqOf(n, natUp[n])
  BY <1>1, <1>2
<1>4. n \in natOn => natDown[n] # NoFile
  BY DEF RulesKnown
<1>5. natDown[n] # NoFile => \A r \in MasqOf(n, natUp[n]) : r = MasqRule(n, natDown[n])
  BY KnownScripts
<1>6. \A r \in masq' : r.name = n =>
        r \in masq \/ (natDown[n] # NoFile /\ r = MasqRule(n, natDown[n]))
  BY <1>3, <1>4, <1>5
<1>7. RulesKnown(p, n)'
  BY <1>1, <1>4, <1>6, KnownKept
<1>8. QED
  BY <1>3, <1>7 DEF NoRules

LEMMA RulesOwn ==
  ASSUME RulesPremise, TypeInv, NEW p \in Projects, GoneInTime(p), RulesInTime(p), Step(p)
  PROVE  RulesInTime(p)'
<1>0. PICK n : n = job[p].name
  OBVIOUS
<1> USE <1>0
<1>1. /\ pc \in [Projects -> Pcs] /\ job \in [Projects -> Jobs] /\ told \in [Projects -> Reports]
      /\ HostTypeOK /\ InHand(p) /\ pc[p] # "idle"
  BY CourseOfStep DEF TypeInv, TypeOK
<1>2. n \in NamesOf(p) /\ n \in Names /\ RulesKnown(p, n)
  BY <1>1, NamesOfType DEF InHand, RulesInTime
<1>3. ASSUME NEW m \in NamesOf(p), m # n PROVE RulesKnown(p, m)'
  <2>1. m \in Names /\ masq' \subseteq Rules /\ RulesKnown(p, m)
    BY NamesOfType, HostStepType DEF HostTypeOK, RulesInTime
  <2>2. Kept(m)
    BY <1>3, <2>1, HostFrame
  <2>3. QED
    BY <2>1, <2>2, KnownKept DEF Kept, RulesKnown
<1>4. ASSUME RulesKnown(p, n)',
             Return(p, "failed") \/ Return(p, "live") \/ Return(p, "updated")
      PROVE  RulesInTime(p)'
  <2>1. pc'[p] = "idle" /\ told'[p].what # "cleaned"
    BY <1>1, <1>4 DEF Return
  <2>2. QED
    BY <1>3, <1>4, <2>1 DEF RulesInTime, Told, UpPcs, DownPcs, NatPcs, PastNatStop, PastNatDisable, PastNatDown, CleanPcs
<1>5. ASSUME RulesKnown(p, n)', NEW next \in Pcs \ {"idle"}, Goto(p, next),
             next \in DownPcs => natDown'[n] # NoFile,
             next \in PastNatDown => NoRules(n)'
      PROVE  RulesInTime(p)'
  <2>1. pc'[p] = next /\ job' = job
    BY <1>1, <1>5 DEF Goto
  <2>2. ~Told(p, "cleaned")'
    BY <2>1 DEF Told
  <2>3. PICK m : m = job'[p].name /\ m = n
    BY <2>1
  <2>4. NoRules(job[p].name)' = NoRules(n)'
    BY <2>1 DEF NoRules
  <2>5. QED
    BY <1>3, <1>5, <2>1, <2>2, <2>3, <2>4 DEF RulesInTime
<1>6. NatPcs \subseteq Pcs /\ CleanPcs \subseteq Pcs /\ DownPcs \subseteq NatPcs
      /\ PastNatDown \subseteq CleanPcs /\ DownPcs \intersect CleanPcs = {}
  BY DEF Pcs, NatPcs, UpPcs, DownPcs, CleanPcs, PastNatStop, PastNatDisable, PastNatDown
<1>7. ASSUME UNCHANGED <<natUp, natDown, natOn, masq>> PROVE RulesKnown(p, n)'
  BY <1>2, <1>7, KnownKept DEF RulesKnown
\* The steps of setup and update that leave NAT alone.
<1>8. CASE \/ SetupBuild(p) \/ SetupFails(p) \/ ForwardingOn(p) \/ EnableForwarding(p)
           \/ PersistForwarding(p) \/ Declined(p) \/ NatRefused(p) \/ UploadFiles(p)
           \/ CopyConf(p) \/ EnableVpn(p) \/ CheckActive(p) \/ CheckActiveFails(p)
           \/ RecordSetup(p) \/ UpdateStep(p)
  <2>1. UNCHANGED <<natUp, natDown, natOn, masq>>
    BY <1>8 DEF SetupBuild, SetupFails, ForwardingOn, EnableForwarding, PersistForwarding,
       Declined, NatRefused, UploadFiles, CopyConf, EnableVpn, CheckActive, CheckActiveFails,
       RecordSetup, UpdateStep, UploadConf, ReportUpdate, Execute, Upload, hostVars, natVars,
       natFiles, natSet
  <2>2. \/ Return(p, "failed") \/ Return(p, "live") \/ Return(p, "updated")
        \/ Goto(p, "forward") \/ Goto(p, "sysctl") \/ Goto(p, "ask") \/ Goto(p, "files")
        \/ Goto(p, "main") \/ Goto(p, "enable") \/ Goto(p, "restart") \/ Goto(p, "nat_up")
        \/ Goto(p, "record")
    BY <1>8 DEF SetupBuild, SetupFails, ForwardingOn, EnableForwarding, PersistForwarding,
       Declined, NatRefused, UploadFiles, CopyConf, EnableVpn, CheckActive, CheckActiveFails,
       RecordSetup, UpdateStep, UploadConf, ReportUpdate, Execute, Upload, RulesPremise
  <2>3. RulesKnown(p, n)'
    BY <1>7, <2>1
  <2>4. QED
    BY <1>4, <1>5, <2>2, <2>3
       DEF Pcs, NatPcs, UpPcs, DownPcs, CleanPcs, PastNatStop, PastNatDisable, PastNatDown
<1>9. ASSUME NEW iface \in Ifaces, Confirmed(p, iface) PROVE RulesInTime(p)'
  <2>1. pc'[p] \in {"files", "nat_up"} /\ UNCHANGED hostVars
    BY <1>9, ConfirmedOwn
  <2>2. RulesKnown(p, n)'
    BY <1>7, <2>1 DEF hostVars
  <2>3. QED
    BY <1>3, <2>1, <2>2 DEF RulesInTime, Told, NatPcs, UpPcs, DownPcs, CleanPcs,
       PastNatStop, PastNatDisable, PastNatDown
<1>10. CASE Restart(p) \/ RestartFails(p)
  <2>1. \/ Return(p, "failed") \/ Goto(p, AfterRestart(p))
    BY <1>10 DEF Restart, RestartFails, Execute
  <2>2. RulesKnown(p, n)'
    <3>1. UNCHANGED hostVars \/ RestartVpn(n) \/ RestartVpnFails(n)
      BY <1>10 DEF Restart, RestartFails, Execute
    <3>2. QED
      BY <1>2, <1>7, <3>1, SystemctlRules DEF hostVars
  <2>3. AfterRestart(p) \in {"check", "ask", "report"}
    BY DEF AfterRestart
  <2>4. QED
    BY <1>4, <1>5, <2>1, <2>2, <2>3 DEF Pcs, NatPcs, UpPcs, DownPcs, CleanPcs,
       PastNatStop, PastNatDisable, PastNatDown
\* The scripts are uploaded whole, with what the configuration says.
<1>11. ASSUME pc[p] \in NatPcs
       PROVE  /\ JobNat(p) \in ArgsOf(p, n) /\ JobNat(p) # NoFile
              /\ \A a \in ArgsOf(p, n) : a = JobNat(p)
  <2>1. /\ job[p].cfg \in SettingsOf[p] /\ n = job[p].cfg.name
        /\ job[p].iface \in Ifaces
    BY <1>1, <1>11 DEF InHand, Jobs
  <2>2. JobNat(p) \in ArgsOf(p, n)
    BY <2>1 DEF JobNat, ArgsOf
  <2>3. QED
    BY <1>2, <2>2, ArgsType DEF RulesPremise
<1>12. CASE UploadNatUp(p)
  <2>1. /\ pc[p] = "nat_up"
        /\ \/ Return(p, "failed") /\ UNCHANGED hostVars
           \/ /\ Goto(p, "nat_down") /\ natUp' = [natUp EXCEPT ![n] = JobNat(p)]
              /\ UNCHANGED <<natDown, natSet>>
    BY <1>12 DEF UploadNatUp, Upload, RulesPremise
  <2>2. CASE Return(p, "failed") /\ UNCHANGED hostVars
    BY <1>4, <1>7, <2>2 DEF hostVars
  <2>3. CASE /\ Goto(p, "nat_down") /\ natUp' = [natUp EXCEPT ![n] = JobNat(p)]
             /\ UNCHANGED <<natDown, natSet>>
    <3>1. natUp'[n] = JobNat(p)
      BY <1>1, <1>2, <2>3 DEF HostTypeOK
    <3>2. UNCHANGED <<natDown, natOn, masq>>
      BY <2>3 DEF natSet
    <3>3. RulesKnown(p, n)'
      BY <1>2, <1>11, <2>1, <3>1, <3>2 DEF RulesKnown, ArgsOf, NatPcs, MasqRule
    <3>4. QED
      BY <1>5, <2>3, <3>3 DEF Pcs, NatPcs, UpPcs, DownPcs, CleanPcs,
         PastNatStop, PastNatDisable, PastNatDown
  <2>4. QED
    BY <2>1, <2>2, <2>3
<1>13. CASE UploadNatDown(p)
  <2>1. /\ pc[p] = "nat_down"
        /\ \/ Return(p, "failed") /\ UNCHANGED hostVars
           \/ /\ Goto(p, "nat_unit") /\ natDown' = [natDown EXCEPT ![n] = JobNat(p)]
              /\ UNCHANGED <<natUp, natSet>>
    BY <1>13 DEF UploadNatDown, Upload, RulesPremise
  <2>2. CASE Return(p, "failed") /\ UNCHANGED hostVars
    BY <1>4, <1>7, <2>2 DEF hostVars
  <2>3. CASE /\ Goto(p, "nat_unit") /\ natDown' = [natDown EXCEPT ![n] = JobNat(p)]
             /\ UNCHANGED <<natUp, natSet>>
    <3>1. natDown'[n] = JobNat(p) /\ JobNat(p) # NoFile
      BY <1>1, <1>2, <1>11, <2>1, <2>3 DEF HostTypeOK, NatPcs
    <3>2. UNCHANGED <<natUp, natOn, masq>>
      BY <2>3 DEF natSet
    <3>3. natDown[n] # NoFile => natDown'[n] = natDown[n]
      BY <1>2, <1>11, <2>1, <3>1 DEF RulesKnown, NatPcs
    <3>4. RulesKnown(p, n)'
      BY <1>2, <1>11, <2>1, <3>1, <3>2, <3>3 DEF RulesKnown, ArgsOf, NatPcs, MasqRule
    <3>5. QED
      BY <1>5, <2>3, <3>1, <3>4 DEF Pcs, NatPcs, UpPcs, DownPcs, CleanPcs,
         PastNatStop, PastNatDisable, PastNatDown
  <2>4. QED
    BY <2>1, <2>2, <2>3
<1>14. ASSUME pc[p] \in DownPcs PROVE natDown[n] # NoFile
  BY <1>14 DEF RulesInTime
<1>15. CASE UploadNatUnit(p) \/ EnableNat(p)
  <2>1. /\ pc[p] \in DownPcs
        /\ \/ Return(p, "failed") \/ Goto(p, "nat_enable") \/ Goto(p, "nat_restart")
        /\ UNCHANGED <<natUp, natDown, masq>>
        /\ natOn' \subseteq natOn \union {n}
    BY <1>15 DEF UploadNatUnit, EnableNat, Upload, Execute, hostVars, natFiles, natSet,
       DownPcs, UpPcs, NatPcs, RulesPremise
  <2>2. RulesKnown(p, n)'
    BY <1>2, <1>14, <2>1, KnownKept
  <2>3. QED
    BY <1>4, <1>5, <1>14, <2>1, <2>2 DEF Pcs, CleanPcs, PastNatStop, PastNatDisable, PastNatDown
<1>16. CASE ApplyNat(p) \/ ApplyNatFails(p)
  <2>1. /\ pc[p] \in DownPcs
        /\ \/ Return(p, "failed") \/ Goto(p, "record") \/ Goto(p, "report")
        /\ UNCHANGED hostVars \/ RestartNat(n) \/ StopNat(n)
    BY <1>16 DEF ApplyNat, ApplyNatFails, Execute, DownPcs, UpPcs, NatPcs
  <2>2. RulesKnown(p, n)'
    BY <1>2, <1>7, <1>14, <2>1, SystemctlRules DEF hostVars
  <2>3. QED
    BY <1>4, <1>5, <2>1, <2>2 DEF Pcs, NatPcs, UpPcs, DownPcs, CleanPcs,
       PastNatStop, PastNatDisable, PastNatDown
\* The steps of clean: their session holds.
<1>17. ASSUME pc[p] \in CleanPcs
       PROVE  p \notin lost
  BY <1>1, <1>17 DEF InHand, GoneInTime
<1>18. ASSUME RulesKnown(p, n)', NEW next \in CleanPcs, Goto(p, next),
              next \in PastNatDown => NoRules(n)'
       PROVE  RulesInTime(p)'
  <2>1. next \in Pcs \ {"idle"} /\ next \notin DownPcs
    BY <1>18 DEF Pcs, CleanPcs, DownPcs, UpPcs, NatPcs
  <2>2. QED
    BY <1>5, <1>18, <2>1
<1> USE DEF CleanPcs
<1>19. CASE CleanNatStop(p)
  <2>1. Goto(p, "c_nat_disable") /\ StopNat(n)
    BY <1>17, <1>19 DEF CleanNatStop, Try, RulesPremise
  <2>2. RulesKnown(p, n)'
    BY <1>2, <2>1, SystemctlRules
  <2>3. QED
    BY <1>18, <2>1, <2>2 DEF PastNatDown, PastNatDisable
<1>20. CASE CleanNatDisable(p)
  <2>1. /\ Goto(p, "c_nat_down") /\ natOn' = natOn \ {n}
        /\ UNCHANGED <<natUp, natDown, masq>>
    BY <1>17, <1>20 DEF CleanNatDisable, Try, RulesPremise, natFiles
  <2>2. RulesKnown(p, n)'
    BY <1>2, <2>1, KnownKept
  <2>3. QED
    BY <1>18, <2>1, <2>2 DEF PastNatDown
<1>21. CASE CleanNatDown(p)
  <2>1. Goto(p, "c_stop") /\ RunNatDown(n)
    BY <1>17, <1>21 DEF CleanNatDown, Try, RulesPremise
  <2>2. RulesKnown(p, n)' /\ NoRules(n)'
    BY <1>2, <2>1, SystemctlRules, DownRemoves
  <2>3. QED
    BY <1>18, <2>1, <2>2
<1>22. CASE CleanStop(p) \/ CleanDisable(p) \/ CleanConf(p)
  <2>1. /\ pc[p] \in PastNatDown
        /\ Goto(p, "c_disable") \/ Goto(p, "c_conf") \/ Goto(p, "c_files")
        /\ UNCHANGED <<natUp, natDown, natOn, masq>>
    BY <1>22 DEF CleanStop, CleanDisable, CleanConf, Try, StopVpn, hostVars, natVars,
       natFiles, natSet, PastNatStop, PastNatDisable, PastNatDown
  <2>2. NoRules(n)'
    BY <2>1 DEF RulesInTime, NoRules
  <2>3. RulesKnown(p, n)'
    BY <1>7, <2>1
  <2>4. QED
    BY <1>18, <2>1, <2>2, <2>3
<1>23. CASE CleanFiles(p)
  <2>1. /\ pc[p] \in PastNatDown /\ pc[p] \in PastNatDisable /\ Goto(p, "c_record")
        /\ natUp' = [natUp EXCEPT ![n] = NoFile] /\ natDown' = [natDown EXCEPT ![n] = NoFile]
        /\ UNCHANGED <<natOn, masq>>
    BY <1>17, <1>23 DEF CleanFiles, Try, RulesPremise, natSet,
       PastNatStop, PastNatDisable, PastNatDown
  <2>2. n \notin natOn /\ NoRules(n) /\ NoRules(n)'
    BY <2>1 DEF GoneInTime, RulesInTime, NoRules
  <2>3. natUp'[n] = NoFile /\ natDown'[n] = NoFile
    BY <1>1, <1>2, <2>1 DEF HostTypeOK
  <2>4. RulesKnown(p, n)'
    BY <2>1, <2>2, <2>3 DEF RulesKnown, NoRules
  <2>5. QED
    BY <1>18, <2>1, <2>2, <2>4
<1>24. CASE CleanRecord(p)
  <2>1. pc[p] = "c_record" /\ Return(p, "cleaned") /\ UNCHANGED hostVars
    BY <1>24 DEF CleanRecord
  <2>2. pc'[p] = "idle" /\ told'[p] = [what |-> "cleaned", name |-> n]
    BY <2>1, ReturnOwn
  <2>3. NoRules(n)'
    BY <2>1 DEF RulesInTime, NoRules, hostVars, PastNatStop, PastNatDisable, PastNatDown
  <2>4. NoRules(told[p].name)'
    BY <2>2, <2>3 DEF NoRules
  <2>5. RulesKnown(p, n)'
    BY <1>7, <2>1 DEF hostVars
  <2>6. \A m \in NamesOf(p) : RulesKnown(p, m)'
    BY <1>3, <2>5
  <2>7. QED
    BY <2>2, <2>4, <2>6 DEF RulesInTime, NatPcs, UpPcs, DownPcs,
       PastNatStop, PastNatDisable, PastNatDown
<1>25. QED
  BY <1>8, <1>9, <1>10, <1>12, <1>13, <1>15, <1>16, <1>19, <1>20, <1>21, <1>22, <1>23, <1>24
     DEF Step, SetupStep, CleanStep

LEMMA RulesStep ==
  ASSUME DistinctNames, RulesPremise, TypeInv, [Next]_vars,
         \A p \in Projects : GoneInTime(p) /\ RulesInTime(p)
  PROVE  \A p \in Projects : RulesInTime(p)'
<1> SUFFICES ASSUME NEW p \in Projects PROVE RulesInTime(p)'
  OBVIOUS
<1>1. GoneInTime(p) /\ RulesInTime(p) /\ HostTypeOK /\ \A n \in NamesOf(p) : RulesKnown(p, n)
  BY DEF TypeInv, TypeOK, RulesInTime
<1>2. /\ pc[p] # "idle" => job[p].name \in NamesOf(p)
      /\ Told(p, "cleaned") => told[p].name \in NamesOf(p)
      /\ NamesOf(p) \subseteq Names
  BY NamesOfType DEF TypeInv, InHand, OnRecord, Told
<1>3. "idle" \notin DownPcs \union PastNatDown
  BY DEF DownPcs, UpPcs, NatPcs, PastNatStop, PastNatDisable, PastNatDown, CleanPcs
<1>4. ASSUME UNCHANGED <<natUp, natDown, natOn, masq>>, NEW n \in NamesOf(p)
      PROVE  RulesKnown(p, n)'
  BY <1>1, <1>4, KnownKept DEF RulesKnown
<1>5. CASE Step(p)
  BY <1>1, <1>5, RulesOwn
<1>6. CASE Operator(p)
  <2>1. UNCHANGED hostVars
    BY <1>6, OperatorEffect
  <2>2. \A n \in NamesOf(p) : RulesKnown(p, n)'
    BY <1>4, <2>1 DEF hostVars
  <2>3. CASE UNCHANGED <<pc, job, told, lost>>
    BY <1>1, <2>1, <2>2, <2>3 DEF RulesInTime, NoRules, Told, hostVars
  <2>4. CASE pc'[p] \in {"build", "upload", "c_nat_stop"} /\ told'[p].what = "none"
    BY <2>2, <2>4 DEF RulesInTime, Told, DownPcs, UpPcs, NatPcs, PastNatStop,
       PastNatDisable, PastNatDown, CleanPcs
  <2>5. QED
    BY <1>6, <2>3, <2>4, OperatorEffect
<1>7. ASSUME NEW q \in Projects, q # p, Operator(q) \/ Step(q) \/ Silence(q) PROVE RulesInTime(p)'
  <2>1. Undisturbed(p) /\ masq' \subseteq Rules
    BY <1>1, <1>7, OthersKeep, HostStepType DEF HostTypeOK
  <2>2. ASSUME NEW n \in NamesOf(p)
        PROVE  /\ natUp'[n] = natUp[n] /\ natDown'[n] = natDown[n]
               /\ n \in natOn' <=> n \in natOn
               /\ \A r \in masq' : r.name = n => r \in masq
    BY <2>1 DEF Undisturbed, Kept
  <2>3. \A n \in NamesOf(p) : RulesKnown(p, n)'
    BY <1>1, <2>2, KnownKept DEF RulesKnown
  <2>4. \A n \in NamesOf(p) : NoRules(n) => NoRules(n)'
    BY <2>2 DEF NoRules
  <2>5. pc'[p] = pc[p] /\ job'[p] = job[p] /\ told'[p] = told[p]
    BY <2>1 DEF Undisturbed
  <2>6. PICK n, m : n = job[p].name /\ m = told[p].name
    OBVIOUS
  <2>7. /\ NoRules(job[p].name)' = NoRules(n)'
        /\ NoRules(told[p].name)' = NoRules(m)'
    BY <2>5, <2>6 DEF NoRules
  <2>8. QED
    BY <1>1, <1>2, <1>3, <2>2, <2>3, <2>4, <2>5, <2>6, <2>7 DEF RulesInTime, Told
<1>8. CASE Reboot
  <2>1. Boot /\ UNCHANGED <<pc, job, told, natUp, natDown, natOn>> /\ job[p].cmd # "clean"
    BY <1>8 DEF Reboot, Boot, RulesPremise
  <2>2. \A n \in NamesOf(p) : RulesKnown(p, n)'
    BY <1>1, <2>1, BootRules
  <2>3. pc[p] \notin PastNatDown
    BY <2>1 DEF TypeInv, InHand, PastNatStop, PastNatDisable, PastNatDown
  <2>4. ASSUME Told(p, "cleaned") PROVE NoRules(told[p].name)'
    <3>1. PICK m : m = told[p].name /\ m = told'[p].name
      BY <2>1
    <3>2. m \in NamesOf(p) /\ m \notin natOn
      BY <1>1, <1>2, <2>4, <3>1 DEF GoneInTime, Gone
    <3>3. NoRules(m)'
      BY <1>1, <2>1, <3>2, BootRules
    <3>4. QED
      BY <3>1, <3>3 DEF NoRules
  <2>5. QED
    BY <1>1, <2>1, <2>2, <2>3, <2>4 DEF RulesInTime, Told
<1>9. CASE UNCHANGED vars
  BY <1>1, <1>4, <1>9 DEF vars, hostVars, RulesInTime, NoRules, Told
<1>10. CASE Silence(p)
  <2>1. /\ UNCHANGED hostVars
        /\ \/ pc'[p] = "hung" /\ UNCHANGED <<job, told>>
           \/ pc'[p] = "idle" /\ told'[p].what = "failed"
    BY <1>10, SilenceOwn
  <2>2. \A n \in NamesOf(p) : RulesKnown(p, n)'
    BY <1>4, <2>1 DEF hostVars
  <2>3. QED
    BY <2>1, <2>2 DEF RulesInTime, Told, DownPcs, UpPcs, NatPcs, PastNatStop,
       PastNatDisable, PastNatDown, CleanPcs
<1>11. QED
  BY <1>5, <1>6, <1>7, <1>8, <1>9, <1>10 DEF Next

\* Where no command fails, is lost or hangs, an instance keeps its subnet and
\* the host has one interface: an instance that clean said is gone has left no MASQUERADE rule
\* behind, and a restart of the host brings none back.
THEOREM CleanedLeavesNoRules ==
  ASSUME DistinctNames, RulesPremise PROVE Spec => []CleanRemovesRules
<1> DEFINE Inv == TypeInv /\ \A p \in Projects : GoneInTime(p) /\ RulesInTime(p)
<1>1. Init => Inv
  <2> SUFFICES ASSUME Init, NEW p \in Projects PROVE GoneInTime(p) /\ RulesInTime(p)
    BY InitType
  <2>1. pc[p] = "idle" /\ job[p] = NoJob /\ told[p] = Quiet
    BY DEF Init
  <2>2. GoneInTime(p)
    BY <2>1 DEF GoneInTime, Told, NoJob, Quiet, PastNatStop, PastNatDisable, PastNatDown,
       PastStop, PastDisable, PastConf, PastFiles, CleanPcs
  <2>3. \A n \in NamesOf(p) : RulesKnown(p, n)
    BY NamesOfType DEF Init, HostInit, RulesKnown
  <2>4. RulesInTime(p)
    BY <2>1, <2>3 DEF RulesInTime, Told, Quiet, DownPcs, UpPcs, NatPcs, PastNatStop,
       PastNatDisable, PastNatDown, CleanPcs
  <2>5. QED
    BY <2>2, <2>4
<1>2. Inv /\ [Next]_vars => Inv'
  BY NextType, GoneStep, RulesStep DEF RulesPremise
<1>3. Inv => CleanRemovesRules
  BY DEF RulesInTime, NoRules, CleanRemovesRules
<1> HIDE DEF Inv
<1>4. QED
  BY <1>1, <1>2, <1>3, PTL DEF Spec

=============================================================================
