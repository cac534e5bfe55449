---------------------------- MODULE DeployProofs ----------------------------
(***************************************************************************)
(* Theorems about Deploy, for any projects, settings and interfaces: what a *)
(* setup that said "live", an update that said "updated" and a clean that   *)
(* said "cleaned" have left on the host, whatever other projects do there.  *)
(* Each holds for the faults its premise allows; the runs DeployDropped and *)
(* DeploySound show why.                                                    *)
(***************************************************************************)
EXTENDS Deploy, TLAPS

-----------------------------------------------------------------------------
(* Types.                                                                  *)

NatPcs == {"nat_up", "nat_down", "nat_unit", "nat_enable", "nat_restart"}
SetupPcs == {"build", "forward", "sysctl", "files", "main", "enable", "check", "record"}
UpdatePcs == {"upload", "report"}
CleanPcs == {"c_nat_stop", "c_nat_disable", "c_nat_down", "c_stop", "c_disable",
             "c_conf", "c_files", "c_record"}

\* A running command is at a position of its own course; it holds an instance
\* of its project, the settings that name it, and an interface for NAT.
InHand(p) ==
  /\ pc[p] = "idle" => job[p] = NoJob
  /\ pc[p] \in SetupPcs => job[p].cmd = "setup"
  /\ pc[p] \in UpdatePcs => job[p].cmd = "update"
  /\ pc[p] \in {"ask", "restart"} \union NatPcs => job[p].cmd \in {"setup", "update"}
  /\ pc[p] \in CleanPcs => job[p].cmd = "clean"
  /\ pc[p] # "idle" => job[p].name \in NamesOf(p)
  /\ job[p].cmd \in {"setup", "update"} =>
       job[p].cfg \in SettingsOf[p] /\ job[p].name = job[p].cfg.name
  /\ pc[p] \in NatPcs => job[p].iface # NoFile

\* What a project has on record, and what its operator was told, is about
\* instances of its own.
OnRecord(p) ==
  /\ cfg[p] \in SettingsOf[p] /\ dist[p] \in SettingsOf[p] \union {NoFile}
  /\ setup[p] # NoFile => setup[p].name \in NamesOf(p)
  /\ told[p].what # "none" => told[p].name \in NamesOf(p)

LocalTypeOK ==
  /\ cfg \in [Projects -> Settings]
  /\ dist \in [Projects -> Settings \union {NoFile}]
  /\ known \subseteq Projects
  /\ setup \in [Projects -> Setups \union {NoFile}]
  /\ pc \in [Projects -> Pcs]
  /\ job \in [Projects -> Jobs]
  /\ lost \subseteq Projects
  /\ told \in [Projects -> Reports]

TypeInv == TypeOK /\ \A p \in Projects : InHand(p) /\ OnRecord(p)

LEMMA NamesOfType ==
  ASSUME NEW p \in Projects
  PROVE  /\ SettingsOf[p] \subseteq Settings /\ NamesOf(p) \subseteq Names
         /\ \A s \in SettingsOf[p] : s.name \in NamesOf(p)
BY DeployAssumption DEF NamesOf, Settings

\* What a script adds and deletes are rules of its instance.
LEMMA ScriptType ==
  ASSUME NEW n \in Names, NEW script \in NatArgs \union Missing
  PROVE  /\ MasqOf(n, script) \subseteq Rules /\ FwdOf(script) \subseteq Ifaces
         /\ \A r \in MasqOf(n, script) : r.name = n
BY DEF MasqOf, FwdOf, MasqRule, Rules, NatArgs, Intact

LEMMA HostInitType == HostInit => HostTypeOK
BY DEF HostInit, HostTypeOK, Missing

\* systemctl and a boot keep the host typed.
LEMMA SystemctlType ==
  ASSUME HostTypeOK, NEW n \in Names,
         \/ RestartVpn(n) \/ RestartVpnFails(n) \/ StopVpn(n)
         \/ RestartNat(n) \/ RunNatDown(n) \/ StopNat(n)
  PROVE  HostTypeOK'
<1> USE DEF HostTypeOK, vpnVars, natFiles, natSet, natVars, ipVars
<1>1. /\ MasqOf(n, natUp[n]) \subseteq Rules /\ FwdOf(natUp[n]) \subseteq Ifaces
      /\ MasqOf(n, natDown[n]) \subseteq Rules /\ FwdOf(natDown[n]) \subseteq Ifaces
  BY ScriptType
<1>2. CASE RestartVpn(n)
  <2>1. conf[n] \in Settings
    BY <1>2 DEF RestartVpn, CanStart, Intact, Missing
  <2>2. QED
    BY <1>1, <1>2, <2>1 DEF RestartVpn, AfterUp
<1>3. CASE RestartVpnFails(n) \/ StopVpn(n)
  BY <1>3 DEF RestartVpnFails, StopVpn
<1>4. CASE RestartNat(n)
  BY <1>1, <1>4 DEF RestartNat, AfterUp, AfterDown
<1>5. CASE RunNatDown(n) \/ StopNat(n)
  BY <1>1, <1>5 DEF RunNatDown, StopNat, AfterDown
<1>6. QED
  BY <1>2, <1>3, <1>4, <1>5

LEMMA BootType == HostTypeOK /\ Boot => HostTypeOK'
<1> SUFFICES ASSUME HostTypeOK, Boot PROVE HostTypeOK'
  OBVIOUS
<1> DEFINE started == {n \in natOn : CanStartNat(n)}
<1>1. started \subseteq Names
  BY DEF HostTypeOK
<1>2. \A n \in Names : MasqOf(n, natUp[n]) \subseteq Rules /\ FwdOf(natUp[n]) \subseteq Ifaces
  BY ScriptType DEF HostTypeOK
<1>3. UNION {MasqOf(n, natUp[n]) : n \in started} \subseteq Rules
  BY <1>1, <1>2
<1>4. UNION {FwdOf(natUp[n]) : n \in started} \subseteq Ifaces
  BY <1>1, <1>2
<1>5. run' \in [Names -> Settings \union {NoFile}]
  <2>1. \A n \in Names : CanStart(n) => conf[n] \in Settings
    BY DEF HostTypeOK, CanStart, Intact, Missing
  <2>2. QED
    BY <2>1 DEF Boot
<1>6. QED
  BY <1>1, <1>3, <1>4, <1>5 DEF Boot, HostTypeOK

\* Every command of a project keeps the host typed.
LEMMA HostStepType ==
  ASSUME TypeInv, NEW p \in Projects, Operator(p) \/ Step(p) \/ Silence(p)
  PROVE  HostTypeOK'
<1> USE DEF TypeInv, TypeOK, hostVars
<1>1. UNCHANGED hostVars => HostTypeOK'
  BY DEF HostTypeOK
<1>2. pc[p] # "idle" => job[p].name \in Names
  BY NamesOfType DEF InHand
<1>3. CASE Operator(p)
  BY <1>1, <1>3 DEF Operator, EditConfig, BuildAlone, CleanLocal, SetupStart, UpdateStart, CleanStart
<1>4. CASE \/ SetupBuild(p) \/ SetupFails(p) \/ ForwardingOn(p) \/ Declined(p)
           \/ \E iface \in Ifaces : Confirmed(p, iface)
           \/ NatRefused(p) \/ CheckActive(p) \/ CheckActiveFails(p) \/ RecordSetup(p)
           \/ ReportUpdate(p) \/ CleanRecord(p)
  BY <1>1, <1>4 DEF SetupBuild, SetupFails, ForwardingOn, Declined, Confirmed, NatRefused,
     CheckActive, CheckActiveFails, RecordSetup, ReportUpdate, CleanRecord
<1>5. CASE Restart(p) \/ RestartFails(p) \/ ApplyNat(p) \/ ApplyNatFails(p)
           \/ CleanNatStop(p) \/ CleanNatDown(p) \/ CleanStop(p)
  <2>1. \/ UNCHANGED hostVars
        \/ /\ pc[p] # "idle"
           /\ \/ RestartVpn(job[p].name) \/ RestartVpnFails(job[p].name) \/ StopVpn(job[p].name)
              \/ RestartNat(job[p].name) \/ RunNatDown(job[p].name) \/ StopNat(job[p].name)
    BY <1>5 DEF Restart, RestartFails, ApplyNat, ApplyNatFails, CleanNatStop, CleanNatDown,
       CleanStop, Execute, Try
  <2>2. QED
    BY <1>1, <1>2, <2>1, SystemctlType
<1>6. CASE EnableForwarding(p) \/ PersistForwarding(p)
  BY <1>1, <1>6 DEF EnableForwarding, PersistForwarding, Execute, HostTypeOK,
     vpnVars, natFiles, natSet, natVars
<1>7. CASE UploadFiles(p) \/ UploadConf(p)
  BY <1>1, <1>2, <1>7 DEF UploadFiles, UploadConf, Upload, HostTypeOK,
     natFiles, natSet, natVars, ipVars, Missing
<1>8. CASE CopyConf(p) \/ EnableVpn(p)
  BY <1>1, <1>2, <1>8 DEF CopyConf, EnableVpn, Execute, HostTypeOK,
     natFiles, natSet, natVars, ipVars
<1>9. CASE UploadNatUp(p) \/ UploadNatDown(p)
  <2>1. pc[p] \in NatPcs
    BY <1>9 DEF UploadNatUp, UploadNatDown, Upload, NatPcs
  <2>2. JobNat(p) \in NatArgs
    <3>1. job[p].cfg \in Settings
      BY <2>1, NamesOfType DEF InHand
    <3>2. job[p].iface \in Ifaces
      BY <2>1 DEF InHand, Jobs
    <3>3. QED
      BY <3>1, <3>2 DEF JobNat, NatArgs, Settings
  <2>3. \/ UNCHANGED hostVars
        \/ \E content \in {JobNat(p), Torn} :
             /\ \/ natUp' = [natUp EXCEPT ![job[p].name] = content] /\ UNCHANGED natDown
                \/ natDown' = [natDown EXCEPT ![job[p].name] = content] /\ UNCHANGED natUp
             /\ UNCHANGED <<vpnVars, natUnit, natSet, ipVars>>
    BY <1>9 DEF UploadNatUp, UploadNatDown, Upload
  <2>4. {JobNat(p), Torn} \subseteq NatArgs \union Missing
    BY <2>2 DEF Missing
  <2> HIDE DEF TypeInv
  <2>5. HostTypeOK
    BY DEF TypeInv
  <2>6. QED
    BY <1>1, <2>3, <2>4, <2>5 DEF HostTypeOK, vpnVars, natSet, ipVars
<1>10. CASE UploadNatUnit(p) \/ EnableNat(p)
  BY <1>1, <1>2, <1>10 DEF UploadNatUnit, EnableNat, Upload, Execute, HostTypeOK,
     vpnVars, natFiles, natSet, natVars, ipVars
<1>11. CASE CleanNatDisable(p) \/ CleanDisable(p)
  BY <1>1, <1>11 DEF CleanNatDisable, CleanDisable, Try, HostTypeOK,
     vpnVars, natFiles, natSet, natVars, ipVars
<1>12. CASE CleanConf(p) \/ CleanFiles(p)
  BY <1>1, <1>2, <1>12 DEF CleanConf, CleanFiles, Try, HostTypeOK, Missing,
     vpnVars, natFiles, natSet, natVars, ipVars
<1>13. CASE Silence(p)
  BY <1>1, <1>13 DEF Silence, Hang, Interrupt
<1>14. QED
  BY <1>3, <1>4, <1>5, <1>6, <1>7, <1>8, <1>9, <1>10, <1>11, <1>12, <1>13
     DEF Step, SetupStep, UpdateStep, CleanStep

-----------------------------------------------------------------------------
(* What a command does to its own project, and to the others.               *)

\* A command leaves the other projects as they are.
LEMMA LocalFrame ==
  ASSUME TypeInv, NEW p \in Projects, NEW q \in Projects, q # p, Operator(p) \/ Step(p) \/ Silence(p)
  PROVE  /\ cfg'[q] = cfg[q] /\ dist'[q] = dist[q] /\ setup'[q] = setup[q]
         /\ pc'[q] = pc[q] /\ job'[q] = job[q] /\ told'[q] = told[q]
         /\ q \in lost' <=> q \in lost
<1> USE DEF TypeInv, TypeOK, localVars, Goto, Return
<1>1. CASE Operator(p)
  BY <1>1 DEF Operator, EditConfig, BuildAlone, CleanLocal, SetupStart, UpdateStart,
     CleanStart, Begin
<1>2. CASE SetupStep(p)
  BY <1>2 DEF SetupStep, SetupBuild, SetupFails, ForwardingOn, EnableForwarding,
     PersistForwarding, Declined, Confirmed, NatRefused, UploadFiles, CopyConf, EnableVpn,
     Restart, RestartFails, CheckActive, CheckActiveFails, UploadNatUp, UploadNatDown,
     UploadNatUnit, EnableNat, ApplyNat, ApplyNatFails, RecordSetup, Execute, Upload
<1>3. CASE UpdateStep(p)
  BY <1>3 DEF UpdateStep, UploadConf, ReportUpdate, Upload
<1>4. CASE CleanStep(p)
  BY <1>4 DEF CleanStep, CleanNatStop, CleanNatDisable, CleanNatDown, CleanStop,
     CleanDisable, CleanConf, CleanFiles, CleanRecord, Try
<1>5. CASE Silence(p)
  BY <1>5 DEF Silence, Hang, Interrupt
<1>6. QED
  BY <1>1, <1>2, <1>3, <1>4, <1>5 DEF Step

\* A command that returns tells what became of its instance.
LEMMA ReturnOwn ==
  ASSUME TypeInv, NEW p \in Projects, pc[p] # "idle",
         NEW what \in {"live", "updated", "cleaned", "failed"}, Return(p, what)
  PROVE  /\ pc' \in [Projects -> Pcs] /\ pc'[p] = "idle"
         /\ job'[p] = NoJob /\ told'[p] = [what |-> what, name |-> job[p].name]
         /\ InHand(p)' /\ told'[p].name \in NamesOf(p)
         /\ job' \in [Projects -> Jobs]
         /\ told' \in [Projects -> Reports]
<1>1. job[p].name \in NamesOf(p) /\ NamesOf(p) \subseteq Names
  BY NamesOfType DEF TypeInv, InHand
<1>2. QED
  BY <1>1 DEF Return, TypeInv, TypeOK, InHand, NoJob, Jobs, Reports, Pcs, SetupPcs, UpdatePcs, CleanPcs, NatPcs

\* A command that goes on has a position of the same course before it.
Course(p, next) ==
  /\ next \in Pcs \ {"idle"}
  /\ next \in SetupPcs => job[p].cmd = "setup"
  /\ next \in UpdatePcs => job[p].cmd = "update"
  /\ next \in {"ask", "restart"} \union NatPcs => job[p].cmd \in {"setup", "update"}
  /\ next \in CleanPcs => job[p].cmd = "clean"
  /\ next \in NatPcs => job[p].iface # NoFile

LEMMA GotoOwn ==
  ASSUME TypeInv, NEW p \in Projects, pc[p] # "idle", NEW next, Course(p, next), Goto(p, next)
  PROVE  /\ pc' \in [Projects -> Pcs] /\ pc'[p] = next /\ InHand(p)'
         /\ UNCHANGED <<job, told>>
BY DEF Course, Goto, TypeInv, TypeOK, InHand

\* How each position of a command is left.
LEMMA CourseOfStep ==
  ASSUME TypeInv, NEW p \in Projects, Step(p)
  PROVE  /\ pc[p] # "idle" /\ pc[p] # "hung"
         /\ \/ \E next : Course(p, next) /\ Goto(p, next)
            \/ \E what \in {"live", "updated", "cleaned", "failed"} :
                 /\ Return(p, what)
                 /\ what = "live" => pc[p] = "record"
                 /\ what = "updated" => pc[p] \in {"ask", "report"} /\ job[p].cmd = "update"
                 /\ what = "cleaned" => pc[p] = "c_record"
            \/ \E iface \in Ifaces : Confirmed(p, iface)
<1> USE DEF TypeInv, InHand, Course, Pcs, SetupPcs, UpdatePcs, CleanPcs, NatPcs
<1>1. CASE \/ SetupBuild(p) \/ SetupFails(p) \/ ForwardingOn(p) \/ Declined(p) \/ NatRefused(p)
           \/ RestartFails(p) \/ CheckActive(p) \/ CheckActiveFails(p)
           \/ ApplyNatFails(p) \/ RecordSetup(p)
  BY <1>1 DEF SetupBuild, SetupFails, ForwardingOn, Declined, NatRefused, RestartFails,
     CheckActive, CheckActiveFails, ApplyNatFails, RecordSetup
<1>2. CASE EnableForwarding(p) \/ PersistForwarding(p) \/ CopyConf(p) \/ EnableVpn(p)
  BY <1>2 DEF EnableForwarding, PersistForwarding, CopyConf, EnableVpn, Execute
<1>3. CASE Restart(p) \/ EnableNat(p) \/ ApplyNat(p)
  BY <1>3 DEF Restart, AfterRestart, EnableNat, ApplyNat, Execute
<1>4. CASE UploadFiles(p) \/ UploadConf(p) \/ UploadNatUp(p) \/ UploadNatDown(p) \/ UploadNatUnit(p)
  BY <1>4 DEF UploadFiles, UploadConf, UploadNatUp, UploadNatDown, UploadNatUnit, Upload
<1>5. CASE \E iface \in Ifaces : Confirmed(p, iface)
  BY <1>5 DEF Confirmed
<1>6. CASE ReportUpdate(p) \/ CleanRecord(p)
  BY <1>6 DEF ReportUpdate, CleanRecord
<1>7. CASE \/ CleanNatStop(p) \/ CleanNatDisable(p) \/ CleanNatDown(p) \/ CleanStop(p)
           \/ CleanDisable(p) \/ CleanConf(p) \/ CleanFiles(p)
  BY <1>7 DEF CleanNatStop, CleanNatDisable, CleanNatDown, CleanStop, CleanDisable,
     CleanConf, CleanFiles, Try
<1>8. QED
  BY <1>1, <1>2, <1>3, <1>4, <1>5, <1>6, <1>7 DEF Step, SetupStep, UpdateStep, CleanStep

\* Confirming an interface puts it in the memory of the command.
LEMMA ConfirmedOwn ==
  ASSUME TypeInv, NEW p \in Projects, NEW iface \in Ifaces, Confirmed(p, iface)
  PROVE  /\ pc' \in [Projects -> Pcs] /\ pc'[p] \in {"files", "nat_up"}
         /\ InHand(p)' /\ UNCHANGED <<hostVars, localVars, lost, told>>
         /\ job'[p] = [job[p] EXCEPT !.iface = iface]
         /\ job' \in [Projects -> Jobs]
<1>1. iface # NoFile
  BY HostAssumption DEF Missing
<1>2. /\ job' = [job EXCEPT ![p] = [job[p] EXCEPT !.iface = iface]]
      /\ pc[p] = "ask" /\ pc' = [pc EXCEPT ![p] = IF job[p].cmd = "setup" THEN "files" ELSE "nat_up"]
  BY DEF Confirmed
<1>3. job[p] \in Jobs
  BY DEF TypeInv, TypeOK
<1>4. /\ [job[p] EXCEPT !.iface = iface] \in
            Jobs
      /\ [job[p] EXCEPT !.iface = iface].cmd = job[p].cmd
      /\ [job[p] EXCEPT !.iface = iface].cfg = job[p].cfg
      /\ [job[p] EXCEPT !.iface = iface].name = job[p].name
      /\ [job[p] EXCEPT !.iface = iface].iface = iface
  BY <1>3 DEF Jobs
<1>5. job'[p] = [job[p] EXCEPT !.iface = iface] /\ pc'[p] = IF job[p].cmd = "setup" THEN "files" ELSE "nat_up"
  BY <1>2 DEF TypeInv, TypeOK
<1>6. job[p].cmd \in {"setup", "update"}
  BY <1>2 DEF TypeInv, InHand
<1>7. /\ job'[p].cmd = job[p].cmd /\ job'[p].cfg = job[p].cfg
      /\ job'[p].name = job[p].name /\ job'[p].iface = iface
  BY <1>4, <1>5
<1>8. /\ job[p].name \in NamesOf(p)
      /\ job[p].cfg \in SettingsOf[p] /\ job[p].name = job[p].cfg.name
  BY <1>2, <1>6 DEF TypeInv, InHand
<1>9. /\ pc'[p] = "files" => job[p].cmd = "setup"
      /\ pc'[p] \in {"files", "nat_up"}
  BY <1>5
<1>10. InHand(p)'
  BY <1>1, <1>6, <1>7, <1>8, <1>9 DEF InHand, SetupPcs, UpdatePcs, CleanPcs, NatPcs
<1>11. QED
  BY <1>2, <1>4, <1>5, <1>10 DEF Confirmed, TypeInv, TypeOK, Pcs

\* A step of a command keeps the types of the positions and the memories.
LEMMA StepOwn ==
  ASSUME TypeInv, NEW p \in Projects, Step(p)
  PROVE  /\ pc' \in [Projects -> Pcs] /\ InHand(p)'
         /\ job' \in [Projects -> Jobs]
         /\ told' \in [Projects -> Reports]
         /\ told'[p] = told[p] \/ told'[p].name \in NamesOf(p)
<1>1. pc[p] # "idle"
  BY CourseOfStep
<1>2. CASE \E next : Course(p, next) /\ Goto(p, next)
  BY <1>1, <1>2, GotoOwn DEF TypeInv, TypeOK
<1>3. CASE \E what \in {"live", "updated", "cleaned", "failed"} : Return(p, what)
  BY <1>1, <1>3, ReturnOwn
<1>4. CASE \E iface \in Ifaces : Confirmed(p, iface)
  BY <1>1, <1>4, ConfirmedOwn DEF TypeInv, TypeOK
<1>5. QED
  BY <1>2, <1>3, <1>4, CourseOfStep

\* A step of a command keeps what the project has on record typed.
LEMMA StepRecord ==
  ASSUME TypeInv, NEW p \in Projects, Step(p)
  PROVE  /\ UNCHANGED <<cfg, known>>
         /\ dist' \in [Projects -> Settings \union {NoFile}]
         /\ dist'[p] \in SettingsOf[p] \union {NoFile}
         /\ setup' \in [Projects -> Setups \union {NoFile}]
         /\ setup'[p] # NoFile => setup'[p].name \in NamesOf(p)
         /\ lost' \subseteq Projects
<1> USE DEF TypeInv, TypeOK, OnRecord, localVars
<1>1. CASE SetupBuild(p) \/ SetupFails(p)
  BY <1>1, DeployAssumption DEF SetupBuild, SetupFails
<1>2. CASE RecordSetup(p)
  <2>1. job[p].name \in NamesOf(p) /\ NamesOf(p) \subseteq Names
    BY <1>2, NamesOfType DEF RecordSetup, InHand
  <2>2. [name |-> job[p].name, nat |-> job[p].iface] \in Setups
    BY <2>1 DEF Setups, Jobs
  <2>3. QED
    BY <1>2, <2>1, <2>2 DEF RecordSetup
<1>3. CASE ReportUpdate(p)
  <2>1. CASE job[p].iface # NoFile /\ setup[p] # NoFile
    <3>1. setup[p] \in Setups /\ job[p].iface \in Ifaces
      BY <2>1 DEF Jobs
    <3>2. [setup[p] EXCEPT !.nat = job[p].iface] \in Setups
          /\ [setup[p] EXCEPT !.nat = job[p].iface].name = setup[p].name
      BY <3>1 DEF Setups
    <3>3. setup' = [setup EXCEPT ![p] = [setup[p] EXCEPT !.nat = job[p].iface]]
      BY <1>3, <2>1 DEF ReportUpdate
    <3>4. setup'[p].name = setup[p].name /\ setup' \in [Projects -> Setups \union {NoFile}]
      BY <3>2, <3>3
    <3>5. QED
      BY <1>3, <2>1, <3>4 DEF ReportUpdate
  <2>2. QED
    BY <1>3, <2>1 DEF ReportUpdate
<1>4. CASE CleanRecord(p)
  BY <1>4 DEF CleanRecord
<1>5. CASE SetupStep(p) /\ ~(SetupBuild(p) \/ SetupFails(p) \/ RecordSetup(p))
  BY <1>5 DEF SetupStep, ForwardingOn, EnableForwarding,
     PersistForwarding, Declined, Confirmed, NatRefused, UploadFiles, CopyConf, EnableVpn,
     Restart, RestartFails, CheckActive, CheckActiveFails, UploadNatUp, UploadNatDown,
     UploadNatUnit, EnableNat, ApplyNat, ApplyNatFails, Execute, Upload
<1>6. CASE UploadConf(p)
  BY <1>6 DEF UploadConf, Upload
<1>7. CASE CleanStep(p) /\ ~CleanRecord(p)
  BY <1>7 DEF CleanStep, CleanNatStop, CleanNatDisable, CleanNatDown, CleanStop,
     CleanDisable, CleanConf, CleanFiles, Try
<1>8. QED
  BY <1>1, <1>2, <1>3, <1>4, <1>5, <1>6, <1>7 DEF Step, UpdateStep

LEMMA NoJobType == NoJob \in Jobs
BY DEF NoJob, Jobs

\* What an operator does, a command begun or a file edited, is typed.
LEMMA OperatorOwn ==
  ASSUME TypeInv, NEW p \in Projects, Operator(p)
  PROVE  LocalTypeOK' /\ InHand(p)' /\ OnRecord(p)'
<1> USE DEF TypeInv, TypeOK, LocalTypeOK, InHand, OnRecord, localVars
<1>1. SettingsOf[p] \subseteq Settings /\ NamesOf(p) \subseteq Names
      /\ \A s \in SettingsOf[p] : s.name \in NamesOf(p)
  BY NamesOfType
<1>2. CASE (\E s \in Settings : EditConfig(p, s)) \/ BuildAlone(p) \/ CleanLocal(p)
  BY <1>1, <1>2 DEF EditConfig, BuildAlone, CleanLocal
<1>3. ASSUME NEW next \in {"build", "upload", "c_nat_stop"}, NEW memory, Begin(p, next, memory),
             UNCHANGED <<cfg, dist, setup>>, known' \in {known, known \union {p}},
             memory.cmd = IF next = "build" THEN "setup" ELSE IF next = "upload" THEN "update" ELSE "clean",
             memory.cmd \in {"setup", "update"} => memory.cfg = cfg[p] /\ memory.name = cfg[p].name,
             memory.name \in NamesOf(p),
             memory \in Jobs
      PROVE  LocalTypeOK' /\ InHand(p)' /\ OnRecord(p)'
  <2>1. /\ pc' = [pc EXCEPT ![p] = next] /\ job' = [job EXCEPT ![p] = memory]
        /\ told' = [told EXCEPT ![p] = Quiet] /\ lost' = lost \ {p}
    BY <1>3 DEF Begin
  <2>2. pc'[p] = next /\ job'[p] = memory /\ told'[p].what = "none"
    BY <2>1 DEF Quiet
  <2>3. LocalTypeOK'
    BY <1>3, <2>1 DEF Quiet, Pcs, Reports
  <2>4. InHand(p)'
    BY <1>1, <1>3, <2>2 DEF SetupPcs, UpdatePcs, CleanPcs, NatPcs
  <2>5. QED
    BY <1>3, <2>2, <2>3, <2>4
<1>4. CASE SetupStart(p)
  <2> DEFINE memory == [NoJob EXCEPT !.cmd = "setup", !.cfg = cfg[p], !.name = cfg[p].name]
  <2>1. memory \in Jobs /\ memory.cmd = "setup" /\ memory.cfg = cfg[p] /\ memory.name = cfg[p].name
    BY <1>1, NoJobType DEF Jobs
  <2>2. Begin(p, "build", memory) /\ known' = known \union {p} /\ UNCHANGED <<cfg, dist, setup>>
    BY <1>4 DEF SetupStart
  <2> HIDE DEF memory
  <2>3. QED
    BY <1>1, <1>3, <2>1, <2>2
<1>5. CASE UpdateStart(p)
  <2> DEFINE memory == [NoJob EXCEPT !.cmd = "update", !.cfg = cfg[p], !.name = cfg[p].name]
  <2>1. memory \in Jobs /\ memory.cmd = "update" /\ memory.cfg = cfg[p] /\ memory.name = cfg[p].name
    BY <1>1, NoJobType DEF Jobs
  <2>2. Begin(p, "upload", memory) /\ UNCHANGED <<cfg, dist, known, setup>>
    BY <1>5 DEF UpdateStart
  <2> HIDE DEF memory
  <2>3. QED
    BY <1>1, <1>3, <2>1, <2>2
<1>6. CASE CleanStart(p)
  <2> DEFINE name == IF setup[p] # NoFile THEN setup[p].name ELSE cfg[p].name
             memory == [NoJob EXCEPT !.cmd = "clean", !.name = name]
  <2>1. name \in NamesOf(p)
    BY <1>1
  <2>2. Begin(p, "c_nat_stop", memory) /\ known' = known \union {p} /\ UNCHANGED <<cfg, dist, setup>>
    BY <1>6 DEF CleanStart
  <2> HIDE DEF name
  <2>3. memory \in Jobs /\ memory.cmd = "clean" /\ memory.name = name
    BY <1>1, <2>1, NoJobType DEF Jobs
  <2> HIDE DEF memory
  <2>4. QED
    BY <1>3, <2>1, <2>2, <2>3
<1>7. QED
  BY <1>2, <1>4, <1>5, <1>6 DEF Operator

\* A command whose answer does not come waits; interrupted, it has failed.
LEMMA SilenceOwn ==
  ASSUME TypeInv, NEW p \in Projects, Silence(p)
  PROVE  /\ UNCHANGED <<hostVars, cfg, dist, known, setup, lost>>
         /\ \/ pc'[p] = "hung" /\ UNCHANGED <<job, told>>
            \/ /\ pc[p] = "hung" /\ pc'[p] = "idle" /\ Return(p, "failed")
               /\ job'[p] = NoJob /\ told'[p].what = "failed"
         /\ pc[p] # "idle"
         /\ LocalTypeOK' /\ InHand(p)' /\ OnRecord(p)'
<1>1. CASE Hang(p)
  <2>1. Goto(p, "hung") /\ pc[p] # "idle" /\ UNCHANGED <<hostVars, localVars, lost>>
    BY <1>1 DEF Hang
  <2>2. Course(p, "hung")
    BY DEF Course, Pcs, SetupPcs, UpdatePcs, CleanPcs, NatPcs
  <2>3. /\ pc' \in [Projects -> Pcs] /\ pc'[p] = "hung" /\ InHand(p)'
        /\ UNCHANGED <<job, told>>
    BY <2>1, <2>2, GotoOwn
  <2>4. QED
    BY <2>1, <2>3 DEF TypeInv, TypeOK, LocalTypeOK, OnRecord, localVars
<1>2. CASE Interrupt(p)
  <2>1. Return(p, "failed") /\ pc[p] = "hung" /\ UNCHANGED <<hostVars, localVars, lost>>
    BY <1>2 DEF Interrupt
  <2>2. /\ pc' \in [Projects -> Pcs] /\ pc'[p] = "idle"
        /\ job'[p] = NoJob /\ told'[p] = [what |-> "failed", name |-> job[p].name]
        /\ InHand(p)' /\ told'[p].name \in NamesOf(p)
        /\ job' \in [Projects -> Jobs] /\ told' \in [Projects -> Reports]
    BY <2>1, ReturnOwn
  <2>3. QED
    BY <2>1, <2>2 DEF TypeInv, TypeOK, LocalTypeOK, OnRecord, localVars
<1>3. QED
  BY <1>1, <1>2 DEF Silence

LEMMA NextType == TypeInv /\ [Next]_vars => TypeInv'
<1> SUFFICES ASSUME TypeInv, [Next]_vars PROVE TypeInv'
  OBVIOUS
<1>1. ASSUME NEW p \in Projects, Operator(p) \/ Step(p) \/ Silence(p) PROVE TypeInv'
  <2>1. HostTypeOK'
    BY <1>1, HostStepType
  <2>2. LocalTypeOK' /\ InHand(p)' /\ OnRecord(p)'
    <3>1. CASE Step(p)
      BY <3>1, StepOwn, StepRecord DEF TypeInv, TypeOK, LocalTypeOK, OnRecord
    <3>2. QED
      BY <1>1, <3>1, OperatorOwn, SilenceOwn
  <2>3. ASSUME NEW q \in Projects, q # p PROVE InHand(q)' /\ OnRecord(q)'
    BY <1>1, <2>3, LocalFrame DEF TypeInv, InHand, OnRecord
  <2>4. QED
    BY <2>1, <2>2, <2>3 DEF TypeInv, TypeOK, LocalTypeOK
<1>2. CASE Reboot
  <2>1. HostTypeOK'
    BY <1>2, BootType DEF Reboot, TypeInv, TypeOK
  <2>2. QED
    BY <1>2, <2>1 DEF Reboot, TypeInv, TypeOK, InHand, OnRecord, localVars
<1>3. CASE UNCHANGED vars
  BY <1>3 DEF vars, hostVars, TypeInv, TypeOK, HostTypeOK, InHand, OnRecord
<1>4. QED
  BY <1>1, <1>2, <1>3 DEF Next

LEMMA InitType == Init => TypeInv
<1> SUFFICES ASSUME Init PROVE TypeInv
  OBVIOUS
<1>1. HostTypeOK
  BY HostInitType DEF Init
<1>2. QED
  BY <1>1, NamesOfType DEF Init, TypeInv, TypeOK, InHand, OnRecord, NoJob, Quiet, Jobs, Reports, Pcs,
     SetupPcs, UpdatePcs, CleanPcs, NatPcs

LEMMA TypeInvariant == Spec => []TypeInv
BY InitType, NextType, PTL DEF Spec

\* Every variable keeps its type, whatever fails and whoever interferes.
THEOREM TypeCorrect == Spec => []TypeOK
<1>1. TypeInv => TypeOK
  BY DEF TypeInv
<1>2. QED
  BY <1>1, TypeInvariant, PTL

-----------------------------------------------------------------------------
(* What a command does to other instances than its own.                     *)

\* The projects name different instances.
DistinctNames ==
  \A p, q \in Projects : p # q => NamesOf(p) \intersect NamesOf(q) = {}

\* A step leaves the files, units and rules of instance n as they are.
Kept(n) ==
  /\ files'[n] = files[n] /\ conf'[n] = conf[n] /\ run'[n] = run[n]
  /\ natUp'[n] = natUp[n] /\ natDown'[n] = natDown[n]
  /\ n \in vpnOn' <=> n \in vpnOn
  /\ n \in natOn' <=> n \in natOn
  /\ n \in natRun' <=> n \in natRun
  /\ \A r \in Rules : r.name = n => (r \in masq' <=> r \in masq)

LEMMA SystemctlFrame ==
  ASSUME HostTypeOK, NEW m \in Names, NEW n \in Names, n # m,
         \/ RestartVpn(m) \/ RestartVpnFails(m) \/ StopVpn(m)
         \/ RestartNat(m) \/ RunNatDown(m) \/ StopNat(m)
  PROVE  Kept(n)
<1> USE DEF HostTypeOK, vpnVars, natFiles, natSet, natVars, ipVars, Kept
<1>1. /\ \A r \in MasqOf(m, natUp[m]) : r.name = m
      /\ \A r \in MasqOf(m, natDown[m]) : r.name = m
  BY ScriptType
<1>2. CASE RestartVpn(m)
  BY <1>1, <1>2 DEF RestartVpn, AfterUp
<1>3. CASE RestartVpnFails(m) \/ StopVpn(m)
  BY <1>3 DEF RestartVpnFails, StopVpn
<1>4. CASE RestartNat(m)
  BY <1>1, <1>4 DEF RestartNat, AfterUp, AfterDown
<1>5. CASE RunNatDown(m) \/ StopNat(m)
  BY <1>1, <1>5 DEF RunNatDown, StopNat, AfterDown
<1>6. QED
  BY <1>2, <1>3, <1>4, <1>5

\* What a step does to the host: a command of systemctl or a script, or a
\* write, for the instance that the command is for; or IPv4 forwarding.
LEMMA HostEffect ==
  ASSUME TypeInv, NEW p \in Projects, Step(p)
  PROVE  LET m == job[p].name IN
         \/ UNCHANGED hostVars
         \/ \/ RestartVpn(m) \/ RestartVpnFails(m) \/ StopVpn(m)
            \/ RestartNat(m) \/ RunNatDown(m) \/ StopNat(m)
         \/ /\ \/ files' = files \/ \E x : files' = [files EXCEPT ![m] = x]
            /\ \/ conf' = conf \/ \E x : conf' = [conf EXCEPT ![m] = x]
            /\ \/ natUp' = natUp \/ \E x : natUp' = [natUp EXCEPT ![m] = x]
            /\ \/ natDown' = natDown \/ \E x : natDown' = [natDown EXCEPT ![m] = x]
            /\ vpnOn' \in {vpnOn, vpnOn \union {m}, vpnOn \ {m}}
            /\ natOn' \in {natOn, natOn \union {m}, natOn \ {m}}
            /\ UNCHANGED <<run, natRun, masq, fwd>>
<1> USE DEF hostVars, vpnVars, natFiles, natSet, natVars, ipVars
<1>1. CASE \/ SetupBuild(p) \/ SetupFails(p) \/ ForwardingOn(p) \/ Declined(p)
           \/ \E iface \in Ifaces : Confirmed(p, iface)
           \/ NatRefused(p) \/ CheckActive(p) \/ CheckActiveFails(p) \/ RecordSetup(p)
           \/ ReportUpdate(p) \/ CleanRecord(p)
  BY <1>1 DEF SetupBuild, SetupFails, ForwardingOn, Declined, Confirmed, NatRefused,
     CheckActive, CheckActiveFails, RecordSetup, ReportUpdate, CleanRecord
<1>2. CASE Restart(p) \/ RestartFails(p) \/ ApplyNat(p) \/ ApplyNatFails(p)
           \/ CleanNatStop(p) \/ CleanNatDown(p) \/ CleanStop(p)
  BY <1>2 DEF Restart, RestartFails, ApplyNat, ApplyNatFails, CleanNatStop, CleanNatDown,
       CleanStop, Execute, Try
<1>3. CASE EnableForwarding(p) \/ PersistForwarding(p)
  BY <1>3 DEF EnableForwarding, PersistForwarding, Execute
<1>4. CASE UploadFiles(p) \/ UploadConf(p)
  BY <1>4 DEF UploadFiles, UploadConf, Upload
<1>5. CASE UploadNatUp(p) \/ UploadNatDown(p) \/ UploadNatUnit(p)
  BY <1>5 DEF UploadNatUp, UploadNatDown, UploadNatUnit, Upload
<1>6. CASE CopyConf(p) \/ EnableVpn(p) \/ EnableNat(p)
  BY <1>6 DEF CopyConf, EnableVpn, EnableNat, Execute
<1>7. CASE CleanNatDisable(p) \/ CleanDisable(p)
  BY <1>7 DEF CleanNatDisable, CleanDisable, Try
<1>8. CASE CleanConf(p) \/ CleanFiles(p)
  BY <1>8 DEF CleanConf, CleanFiles, Try
<1>9. QED
  BY <1>1, <1>2, <1>3, <1>4, <1>5, <1>6, <1>7, <1>8 DEF Step, SetupStep, UpdateStep, CleanStep

\* An operator does not reach the host by himself.
LEMMA OperatorHost ==
  ASSUME NEW p \in Projects, Operator(p)
  PROVE  UNCHANGED hostVars
BY DEF Operator, EditConfig, BuildAlone, CleanLocal, SetupStart, UpdateStart, CleanStart

\* A command changes nothing of an instance it does not name.
LEMMA HostFrame ==
  ASSUME TypeInv, NEW q \in Projects, Operator(q) \/ Step(q) \/ Silence(q),
         NEW n \in Names, n # job[q].name
  PROVE  Kept(n)
<1>1. UNCHANGED hostVars => Kept(n)
  BY DEF hostVars, Kept
<1>2. HostTypeOK
  BY DEF TypeInv, TypeOK
<1>3. CASE Step(q)
  <2>1. job[q].name \in Names
    BY <1>3, CourseOfStep, NamesOfType DEF TypeInv, InHand
  <2>2. \/ UNCHANGED hostVars
        \/ \/ RestartVpn(job[q].name) \/ RestartVpnFails(job[q].name) \/ StopVpn(job[q].name)
           \/ RestartNat(job[q].name) \/ RunNatDown(job[q].name) \/ StopNat(job[q].name)
        \/ Kept(n)
    BY <1>2, <1>3, <2>1, HostEffect DEF Kept, HostTypeOK
  <2>3. QED
    BY <1>1, <1>2, <2>1, <2>2, SystemctlFrame
<1>4. QED
  BY <1>1, <1>3, OperatorHost, SilenceOwn

\* What is left of the state that a project's promises are about, by a step
\* of another project.
Undisturbed(p) ==
  /\ cfg'[p] = cfg[p] /\ dist'[p] = dist[p] /\ setup'[p] = setup[p]
  /\ pc'[p] = pc[p] /\ job'[p] = job[p] /\ told'[p] = told[p]
  /\ p \in lost' <=> p \in lost
  /\ \A n \in NamesOf(p) : Kept(n)

LEMMA OthersKeep ==
  ASSUME DistinctNames, TypeInv, NEW p \in Projects, NEW q \in Projects, q # p,
         Operator(q) \/ Step(q) \/ Silence(q)
  PROVE  Undisturbed(p)
<1>1. ASSUME NEW n \in NamesOf(p) PROVE Kept(n)
  <2>1. n \in Names
    BY NamesOfType
  <2>2. CASE Step(q)
    <3>1. job[q].name \in NamesOf(q)
      BY <2>2, CourseOfStep DEF TypeInv, InHand
    <3>2. n # job[q].name
      BY <1>1, <3>1 DEF DistinctNames
    <3>3. QED
      BY <2>1, <2>2, <3>2, HostFrame
  <2>3. CASE Operator(q)
    BY <2>3, OperatorHost DEF Kept, hostVars
  <2>4. CASE Silence(q)
    BY <2>4, SilenceOwn DEF Kept, hostVars
  <2>5. QED
    BY <2>2, <2>3, <2>4
<1>2. QED
  BY <1>1, LocalFrame DEF Undisturbed

\* What an operator does to the project: he edits or builds, which changes
\* neither a command nor a report; or he begins a command.
LEMMA OperatorEffect ==
  ASSUME TypeInv, NEW p \in Projects, Operator(p)
  PROVE  /\ UNCHANGED <<hostVars, setup>>
         /\ \/ /\ UNCHANGED <<pc, job, told, lost>>
               /\ pc[p] # "idle" => /\ UNCHANGED dist
                                    /\ EditDuring \/ UNCHANGED cfg
            \/ /\ pc[p] = "idle" /\ pc'[p] \in {"build", "upload", "c_nat_stop"}
               /\ told'[p].what = "none" /\ p \notin lost' /\ UNCHANGED <<cfg, dist>>
               /\ job'[p].cmd # "clean" => job'[p].cfg = cfg[p]
               /\ job'[p].cmd = "setup" => pc'[p] = "build"
               /\ job'[p].cmd = "clean" => pc'[p] = "c_nat_stop"
               /\ job'[p].iface = NoFile
<1> USE DEF TypeInv, TypeOK, localVars, Begin, Quiet
<1>1. CASE (\E s \in Settings : EditConfig(p, s)) \/ BuildAlone(p) \/ CleanLocal(p)
  BY <1>1 DEF EditConfig, BuildAlone, CleanLocal
<1>2. NoJob \in Jobs /\ NoJob.iface = NoFile
  BY NoJobType DEF NoJob
<1>3. CASE SetupStart(p)
  <2> DEFINE memory == [NoJob EXCEPT !.cmd = "setup", !.cfg = cfg[p], !.name = cfg[p].name]
  <2>1. memory.cmd = "setup" /\ memory.cfg = cfg[p] /\ memory.iface = NoFile
    BY <1>2 DEF Jobs
  <2>2. Begin(p, "build", memory) /\ UNCHANGED <<hostVars, cfg, dist, setup>>
    BY <1>3 DEF SetupStart
  <2> HIDE DEF memory
  <2>3. QED
    BY <2>1, <2>2
<1>4. CASE UpdateStart(p)
  <2> DEFINE memory == [NoJob EXCEPT !.cmd = "update", !.cfg = cfg[p], !.name = cfg[p].name]
  <2>1. memory.cmd = "update" /\ memory.cfg = cfg[p] /\ memory.iface = NoFile
    BY <1>2 DEF Jobs
  <2>2. Begin(p, "upload", memory) /\ UNCHANGED <<hostVars, cfg, dist, setup>>
    BY <1>4 DEF UpdateStart
  <2> HIDE DEF memory
  <2>3. QED
    BY <2>1, <2>2
<1>5. CASE CleanStart(p)
  <2> DEFINE name == IF setup[p] # NoFile THEN setup[p].name ELSE cfg[p].name
             memory == [NoJob EXCEPT !.cmd = "clean", !.name = name]
  <2>1. Begin(p, "c_nat_stop", memory) /\ UNCHANGED <<hostVars, cfg, dist, setup>>
    BY <1>5 DEF CleanStart
  <2> HIDE DEF name
  <2>2. memory.cmd = "clean" /\ memory.iface = NoFile
    BY <1>2 DEF Jobs
  <2> HIDE DEF memory
  <2>3. QED
    BY <2>1, <2>2
<1>6. QED
  BY <1>1, <1>3, <1>4, <1>5, OperatorHost DEF Operator

-----------------------------------------------------------------------------
(* Setup: the server that is said to be live.                               *)

\* The service runs its configuration, starts at boot, and will run the same.
Serves(n) ==
  /\ run[n] # NoFile /\ run[n] = conf[n] /\ conf[n] = files[n]
  /\ n \in vpnOn

\* What a setup whose session holds has established by the position it is at;
\* past the check, it no longer depends on the session.
ServesInTime(p) ==
  LET n == job[p].name IN
  /\ (job[p].cmd = "setup" /\ p \notin lost) =>
       /\ pc[p] \in {"enable", "restart"} => conf[n] = files[n]
       /\ pc[p] = "restart" => n \in vpnOn
       /\ pc[p] = "check" => Serves(n)
  /\ (job[p].cmd = "setup" /\ pc[p] \in NatPcs \union {"record"}) => Serves(n)
  /\ Told(p, "live") => /\ Serves(told[p].name)
                        /\ setup[p] # NoFile /\ setup[p].name = told[p].name

\* A restart of the host brings back what serves.
LEMMA ServesBoot == ASSUME HostTypeOK, Boot, NEW n \in Names, Serves(n) PROVE Serves(n)'
<1>1. conf[n] \in Settings /\ files[n] = conf[n] /\ n \in vpnOn
  BY DEF Serves, HostTypeOK
<1>2. CanStart(n)
  BY <1>1, HostAssumption DEF CanStart, Intact
<1>3. QED
  BY <1>1, <1>2 DEF Boot, Serves

LEMMA ServesKept == ASSUME NEW n, Kept(n), Serves(n) PROVE Serves(n)'
BY DEF Kept, Serves

\* The NAT steps leave the service alone.
LEMMA NatLeavesVpn ==
  ASSUME NEW p \in Projects,
         \/ UploadNatUp(p) \/ UploadNatDown(p) \/ UploadNatUnit(p) \/ EnableNat(p)
         \/ ApplyNat(p) \/ ApplyNatFails(p)
  PROVE  UNCHANGED vpnVars
BY DEF UploadNatUp, UploadNatDown, UploadNatUnit, EnableNat, ApplyNat, ApplyNatFails,
   Upload, Execute, RestartNat, StopNat, hostVars, vpnVars

\* The steps that establish it.
LEMMA ServesOwn ==
  ASSUME TypeInv, NEW p \in Projects, ServesInTime(p), Step(p)
  PROVE  ServesInTime(p)'
<1>0. PICK n : n = job[p].name
  OBVIOUS
<1> USE <1>0
<1>1. /\ pc \in [Projects -> Pcs] /\ job \in [Projects -> Jobs] /\ told \in [Projects -> Reports]
      /\ setup \in [Projects -> Setups \union {NoFile}] /\ HostTypeOK /\ InHand(p) /\ lost \subseteq Projects
  BY DEF TypeInv, TypeOK
<1>2. pc[p] # "idle" => n \in Names
  BY <1>1, NamesOfType DEF InHand
<1> USE DEF Goto, Return, NatPcs
<1>3. ASSUME Return(p, "failed") \/ Return(p, "updated") \/ Return(p, "cleaned")
      PROVE  ServesInTime(p)'
  BY <1>1, <1>3 DEF ServesInTime, Told, NoJob
<1>4. ASSUME NEW next \in Pcs \ {"idle"}, Goto(p, next),
             job[p].cmd = "setup" =>
               /\ (p \notin lost' /\ next \in {"enable", "restart"}) => conf'[n] = files'[n]
               /\ (p \notin lost' /\ next = "restart") => n \in vpnOn'
               /\ (p \notin lost' /\ next = "check") => Serves(n)'
               /\ next \in NatPcs \union {"record"} => Serves(n)'
      PROVE  ServesInTime(p)'
  <2>1. pc'[p] = next /\ job' = job
    BY <1>1, <1>4 DEF Goto
  <2>2. ~Told(p, "live")'
    BY <2>1 DEF Told
  <2> HIDE DEF NatPcs
  <2>3. QED
    BY <1>4, <2>1, <2>2 DEF ServesInTime
<1> HIDE DEF Return, Goto
<1>5. CASE CopyConf(p)
  <2>1. /\ pc[p] # "idle"
        /\ \/ Return(p, "failed")
           \/ /\ Goto(p, "enable")
              /\ p \notin lost' => conf' = [conf EXCEPT ![n] = files[n]] /\ files' = files
    BY <1>5 DEF CopyConf, Execute
  <2>2. QED
    BY <1>1, <1>2, <1>3, <1>4, <2>1 DEF Pcs, HostTypeOK
<1>6. CASE EnableVpn(p)
  <2>1. /\ pc[p] = "enable"
        /\ \/ Return(p, "failed")
           \/ /\ Goto(p, "restart")
              /\ p \in lost => p \in lost'
              /\ p \notin lost' => vpnOn' = vpnOn \union {n} /\ UNCHANGED <<files, conf>>
    BY <1>6 DEF EnableVpn, Execute
  <2>2. QED
    BY <1>1, <1>2, <1>3, <1>4, <2>1 DEF Pcs, HostTypeOK, ServesInTime
<1>7. CASE Restart(p)
  <2>1. /\ pc[p] = "restart"
        /\ \/ Return(p, "failed")
           \/ /\ Goto(p, AfterRestart(p))
              /\ p \in lost => p \in lost'
              /\ p \notin lost' => RestartVpn(n)
    BY <1>7 DEF Restart, Execute
  <2>2. RestartVpn(n) =>
          /\ run' = [run EXCEPT ![n] = conf[n]] /\ conf[n] \in Settings
          /\ UNCHANGED <<files, conf, vpnOn>>
    BY <1>1, <1>2, <2>1 DEF RestartVpn, CanStart, Intact, HostTypeOK, Missing
  <2>3. RestartVpn(n) /\ conf[n] = files[n] /\ n \in vpnOn => Serves(n)'
    BY <1>1, <1>2, <2>1, <2>2, HostAssumption DEF Serves, HostTypeOK, Missing
  <2>4. /\ AfterRestart(p) \in {"check", "ask", "report"}
        /\ job[p].cmd = "setup" => AfterRestart(p) = "check"
    BY DEF AfterRestart
  <2>5. QED
    BY <1>1, <1>2, <1>3, <1>4, <2>1, <2>3, <2>4 DEF Pcs, ServesInTime
<1>8. CASE CheckActive(p)
  <2>1. /\ pc[p] = "check" /\ p \notin lost /\ UNCHANGED <<hostVars, lost>>
        /\ Goto(p, "nat_up") \/ Goto(p, "record")
    BY <1>8 DEF CheckActive
  <2>2. job[p].cmd = "setup" => Serves(n)'
    BY <2>1 DEF ServesInTime, Serves, hostVars
  <2>3. QED
    BY <1>3, <1>4, <2>1, <2>2 DEF Pcs
<1>9. CASE \/ UploadNatUp(p) \/ UploadNatDown(p) \/ UploadNatUnit(p) \/ EnableNat(p)
           \/ ApplyNat(p) \/ ApplyNatFails(p)
  <2>1. /\ pc[p] \in NatPcs
        /\ \/ Return(p, "failed")
           \/ Goto(p, "nat_down") \/ Goto(p, "nat_unit") \/ Goto(p, "nat_enable")
           \/ Goto(p, "nat_restart") \/ Goto(p, "record") \/ Goto(p, "hung")
           \/ job[p].cmd # "setup" /\ Goto(p, "report")
    BY <1>9 DEF NatPcs, UploadNatUp, UploadNatDown, UploadNatUnit, EnableNat, ApplyNat, ApplyNatFails, Upload, Execute
  <2>2. UNCHANGED vpnVars
    BY <1>9, NatLeavesVpn
  <2>3. job[p].cmd = "setup" => Serves(n)'
    BY <2>1, <2>2 DEF ServesInTime, Serves, vpnVars
  <2>4. QED
    BY <1>3, <1>4, <2>1, <2>3 DEF Pcs
<1>10. CASE RecordSetup(p)
  <2>1. /\ pc[p] = "record" /\ Return(p, "live") /\ UNCHANGED hostVars
        /\ setup' = [setup EXCEPT ![p] = [name |-> n, nat |-> job[p].iface]]
    BY <1>10 DEF RecordSetup
  <2>2. /\ pc'[p] = "idle" /\ job'[p] = NoJob /\ told'[p] = [what |-> "live", name |-> n]
    BY <2>1, ReturnOwn
  <2>3. job[p].cmd = "setup"
    BY <1>1, <2>1 DEF InHand, SetupPcs
  <2>4. [name |-> n, nat |-> job[p].iface] \in Setups
    BY <1>1, <1>2, <2>1 DEF Setups, Jobs
  <2>5. setup'[p] # NoFile /\ setup'[p].name = n
    BY <1>1, <2>1, <2>4, SetupAssumption
  <2>6. Serves(n)'
    BY <2>1, <2>3 DEF ServesInTime, Serves, hostVars
  <2>7. QED
    BY <2>2, <2>5, <2>6 DEF ServesInTime, Told, NoJob
<1>11. CASE \/ SetupBuild(p) \/ SetupFails(p) \/ ForwardingOn(p) \/ EnableForwarding(p)
            \/ PersistForwarding(p) \/ Declined(p) \/ NatRefused(p) \/ UploadFiles(p)
            \/ RestartFails(p) \/ CheckActiveFails(p) \/ UpdateStep(p)
  <2>1. \/ Return(p, "failed") \/ Return(p, "updated")
        \/ Goto(p, "forward") \/ Goto(p, "files") \/ Goto(p, "ask") \/ Goto(p, "sysctl")
        \/ Goto(p, "main") \/ Goto(p, "hung")
        \/ pc[p] = "upload" /\ Goto(p, "restart")
    BY <1>11 DEF SetupBuild, SetupFails, ForwardingOn, EnableForwarding, PersistForwarding,
       Declined, NatRefused, UploadFiles, RestartFails, CheckActiveFails, UpdateStep, UploadConf,
       ReportUpdate, Execute, Upload
  <2>2. pc[p] = "upload" => job[p].cmd # "setup"
    BY <1>1 DEF InHand, UpdatePcs
  <2>3. QED
    BY <1>3, <1>4, <2>1, <2>2 DEF Pcs
<1>12. ASSUME NEW iface \in Ifaces, Confirmed(p, iface) PROVE ServesInTime(p)'
  <2>1. pc'[p] \in {"files", "nat_up"}
    BY <1>12, ConfirmedOwn
  <2>2. pc'[p] = "nat_up" => job'[p].cmd # "setup"
    BY <1>1, <1>12 DEF Confirmed, Jobs
  <2>3. QED
    BY <2>1, <2>2 DEF ServesInTime, Told
<1>13. CASE CleanStep(p)
  <2>1. \/ Return(p, "cleaned")
        \/ job[p].cmd # "setup" /\ \E next \in CleanPcs : Goto(p, next)
    BY <1>1, <1>13 DEF CleanStep, CleanNatStop, CleanNatDisable, CleanNatDown, CleanStop,
       CleanDisable, CleanConf, CleanFiles, CleanRecord, Try, InHand, CleanPcs
  <2>2. QED
    BY <1>3, <1>4, <2>1 DEF Pcs, CleanPcs
<1>14. QED
  BY <1>5, <1>6, <1>7, <1>8, <1>9, <1>10, <1>11, <1>12, <1>13 DEF Step, SetupStep

LEMMA ServesStep ==
  ASSUME DistinctNames, TypeInv, \A p \in Projects : ServesInTime(p), [Next]_vars
  PROVE  \A p \in Projects : ServesInTime(p)'
<1> SUFFICES ASSUME NEW p \in Projects PROVE ServesInTime(p)'
  OBVIOUS
<1>1. ServesInTime(p)
  OBVIOUS
<1>2. /\ pc[p] # "idle" => job[p].name \in NamesOf(p)
      /\ Told(p, "live") => told[p].name \in NamesOf(p)
      /\ job[p].cmd = "setup" => pc[p] # "idle"
  BY DEF TypeInv, InHand, OnRecord, Told, NoJob
<1>3. CASE Step(p)
  BY <1>1, <1>3, ServesOwn
<1>4. CASE Operator(p)
  <2>1. UNCHANGED <<hostVars, setup>>
    BY <1>4, OperatorEffect
  <2>2. CASE UNCHANGED <<pc, job, told, lost>>
    BY <1>1, <2>1, <2>2 DEF ServesInTime, Serves, Told, hostVars
  <2>3. CASE pc'[p] \in {"build", "upload", "c_nat_stop"} /\ told'[p].what = "none"
    BY <2>3 DEF ServesInTime, Told, NatPcs
  <2>4. QED
    BY <1>4, <2>2, <2>3, OperatorEffect
<1>5. ASSUME NEW q \in Projects, q # p, Operator(q) \/ Step(q) \/ Silence(q) PROVE ServesInTime(p)'
  <2>1. Undisturbed(p)
    BY <1>5, OthersKeep
  <2>2. \A n \in NamesOf(p) : Kept(n)
    BY <2>1 DEF Undisturbed
  <2>3. \A n \in NamesOf(p) : Serves(n) => Serves(n)'
    BY <2>2, ServesKept
  <2>4. /\ pc'[p] = pc[p] /\ job'[p] = job[p] /\ told'[p] = told[p] /\ setup'[p] = setup[p]
        /\ p \in lost' <=> p \in lost
    BY <2>1 DEF Undisturbed
  <2>5. PICK n, m : n = job[p].name /\ m = told[p].name
    OBVIOUS
  <2>6. ~Told(p, "live") => ~Told(p, "live")'
    BY <2>4 DEF Told
  <2>7. pc[p] # "idle" => Kept(n) /\ (Serves(n) => Serves(n)')
    BY <1>2, <2>2, <2>3, <2>5
  <2>8. Told(p, "live") => Kept(m) /\ (Serves(m) => Serves(m)')
    BY <1>2, <2>2, <2>3, <2>5
  <2>9. QED
    BY <1>1, <1>2, <2>4, <2>5, <2>6, <2>7, <2>8 DEF ServesInTime, Kept, NatPcs
<1>6. CASE Reboot
  <2>1. /\ UNCHANGED <<setup, pc, job, told, files, conf, vpnOn>> /\ Boot
        /\ p \notin lost' => p \notin lost /\ pc[p] = "idle"
    BY <1>6 DEF Reboot, localVars, Boot
  <2>2. \A n \in Names : Serves(n) => Serves(n)'
    BY <2>1, ServesBoot DEF TypeInv, TypeOK
  <2>3. PICK n, m : n = job[p].name /\ m = told[p].name
    OBVIOUS
  <2>4. /\ pc[p] # "idle" => n \in Names
        /\ Told(p, "live") => m \in Names
    BY <1>2, <2>3, NamesOfType
  <2>5. QED
    BY <1>1, <1>2, <2>1, <2>2, <2>3, <2>4 DEF ServesInTime, Told, NatPcs
<1>7. CASE UNCHANGED vars
  BY <1>1, <1>7 DEF vars, hostVars, ServesInTime, Serves, Told
<1>8. CASE Silence(p)
  BY <1>1, <1>8, SilenceOwn DEF ServesInTime, Serves, Told, NoJob, NatPcs, hostVars
<1>9. QED
  BY <1>3, <1>4, <1>5, <1>6, <1>7, <1>8 DEF Next

\* Whatever fails, is lost, hangs, is edited or restarts, and whatever other
\* projects do to instances of theirs: an instance that setup said is live
\* serves.
THEOREM LiveIsServed == ASSUME DistinctNames PROVE Spec => []LiveServes
<1>1. Init => \A p \in Projects : ServesInTime(p)
  BY DEF Init, ServesInTime, Told, NoJob, Quiet
<1>2. TypeInv /\ (\A p \in Projects : ServesInTime(p)) /\ [Next]_vars
        => (\A p \in Projects : ServesInTime(p))'
  BY ServesStep
<1>3. (\A p \in Projects : ServesInTime(p)) => LiveServes
  BY DEF ServesInTime, LiveServes, Serves
<1>4. QED
  BY <1>1, <1>2, <1>3, TypeInvariant, PTL DEF Spec

-----------------------------------------------------------------------------
(* Update.                                                                 *)

\* The files of the instance are whole; the service runs what they say, or is
\* off and will stay off until somebody starts it.
Ready(n) ==
  /\ Intact(files[n]) /\ Intact(conf[n])
  /\ \/ run[n] = conf[n]
     \/ run[n] = NoFile /\ n \notin vpnOn

\* From its restart on, an update has left the instance so.
ReadyInTime(p) ==
  /\ (job[p].cmd = "update" /\ pc[p] \in NatPcs \union {"ask", "report"})
       => Ready(job[p].name)
  /\ Told(p, "updated") => Ready(told[p].name)

LEMMA ReadyBoot == ASSUME HostTypeOK, Boot, NEW n \in Names, Ready(n) PROVE Ready(n)'
BY DEF Ready, Boot, CanStart, Intact, HostTypeOK

LEMMA ReadyKept == ASSUME NEW n, Kept(n), Ready(n) PROVE Ready(n)'
BY DEF Kept, Ready

LEMMA ReadyOwn ==
  ASSUME "drop" \notin Faults, TypeInv, NEW p \in Projects, ReadyInTime(p), Step(p)
  PROVE  ReadyInTime(p)'
<1>0. PICK n : n = job[p].name
  OBVIOUS
<1> USE <1>0
<1>1. /\ pc \in [Projects -> Pcs] /\ job \in [Projects -> Jobs] /\ told \in [Projects -> Reports]
      /\ HostTypeOK /\ InHand(p)
  BY DEF TypeInv, TypeOK
<1>2. pc[p] # "idle" => n \in Names
  BY <1>1, NamesOfType DEF InHand
<1>3. ASSUME Return(p, "failed") \/ Return(p, "live") \/ Return(p, "cleaned")
      PROVE  ReadyInTime(p)'
  BY <1>1, <1>3 DEF ReadyInTime, Told, NoJob, Return
<1>4. ASSUME NEW next \in Pcs \ {"idle"}, Goto(p, next),
             (job[p].cmd = "update" /\ next \in NatPcs \union {"ask", "report"}) => Ready(n)'
      PROVE  ReadyInTime(p)'
  <2>1. pc'[p] = next /\ job' = job
    BY <1>1, <1>4 DEF Goto
  <2>2. ~Told(p, "updated")'
    BY <2>1 DEF Told
  <2>3. QED
    BY <1>4, <2>1, <2>2 DEF ReadyInTime
<1>5. ASSUME pc[p] # "idle", Return(p, "updated"), Ready(n)' PROVE ReadyInTime(p)'
  <2>1. pc'[p] = "idle" /\ told'[p] = [what |-> "updated", name |-> n] /\ job'[p] = NoJob
    BY <1>5, ReturnOwn
  <2>2. QED
    BY <1>5, <2>1 DEF ReadyInTime, Told, NoJob
<1>6. CASE Restart(p)
  <2>1. /\ pc[p] = "restart"
        /\ \/ Return(p, "failed")
           \/ Goto(p, AfterRestart(p)) /\ RestartVpn(n)
    BY <1>6 DEF Restart, Execute
  <2>2. RestartVpn(n) => Ready(n)'
    BY <1>1, <1>2, <2>1 DEF RestartVpn, CanStart, Ready, HostTypeOK
  <2>3. AfterRestart(p) \in Pcs \ {"idle"}
    BY DEF AfterRestart, Pcs
  <2>4. QED
    BY <1>3, <1>4, <2>1, <2>2, <2>3
<1>7. CASE \/ UploadNatUp(p) \/ UploadNatDown(p) \/ UploadNatUnit(p) \/ EnableNat(p)
           \/ ApplyNat(p) \/ ApplyNatFails(p)
  <2>1. /\ pc[p] \in NatPcs
        /\ \/ Return(p, "failed")
           \/ Goto(p, "nat_down") \/ Goto(p, "nat_unit") \/ Goto(p, "nat_enable")
           \/ Goto(p, "nat_restart") \/ Goto(p, "record") \/ Goto(p, "report")
           \/ Goto(p, "hung")
    BY <1>7 DEF UploadNatUp, UploadNatDown, UploadNatUnit, EnableNat, ApplyNat, ApplyNatFails,
       Upload, Execute, NatPcs
  <2>2. UNCHANGED vpnVars
    BY <1>7, NatLeavesVpn
  <2>3. job[p].cmd = "update" => Ready(n)'
    BY <2>1, <2>2 DEF ReadyInTime, Ready, vpnVars
  <2>4. QED
    BY <1>3, <1>4, <2>1, <2>3 DEF Pcs
<1>8. CASE Declined(p) \/ ReportUpdate(p)
  <2>1. /\ pc[p] \in {"ask", "report"} /\ UNCHANGED hostVars
        /\ \/ Goto(p, "files")
           \/ job[p].cmd # "setup" /\ Return(p, "updated")
    BY <1>1, <1>8 DEF Declined, ReportUpdate, InHand, UpdatePcs
  <2>2. job[p].cmd # "setup" => Ready(n)'
    BY <1>1, <2>1 DEF ReadyInTime, Ready, hostVars, InHand, UpdatePcs
  <2>3. QED
    BY <1>4, <1>5, <2>1, <2>2 DEF Pcs, NatPcs
<1>9. ASSUME NEW iface \in Ifaces, Confirmed(p, iface) PROVE ReadyInTime(p)'
  <2>1. /\ pc'[p] \in {"files", "nat_up"} /\ job'[p].cmd = job[p].cmd /\ job'[p].name = n
        /\ UNCHANGED hostVars /\ pc[p] = "ask"
    BY <1>1, <1>9, ConfirmedOwn DEF Confirmed, Jobs
  <2>2. QED
    BY <2>1 DEF ReadyInTime, Ready, Told, hostVars
<1>10. CASE \/ SetupBuild(p) \/ SetupFails(p) \/ ForwardingOn(p) \/ EnableForwarding(p)
            \/ PersistForwarding(p) \/ NatRefused(p) \/ UploadFiles(p) \/ CopyConf(p) \/ EnableVpn(p)
            \/ RestartFails(p) \/ CheckActive(p) \/ CheckActiveFails(p) \/ RecordSetup(p) \/ UploadConf(p)
  <2>1. \/ Return(p, "failed") \/ Return(p, "live")
        \/ Goto(p, "forward") \/ Goto(p, "files") \/ Goto(p, "sysctl")
        \/ Goto(p, "main") \/ Goto(p, "enable") \/ Goto(p, "restart") \/ Goto(p, "record")
        \/ Goto(p, "hung")
        \/ pc[p] \in SetupPcs /\ (Goto(p, "ask") \/ Goto(p, "nat_up"))
    BY <1>10 DEF SetupBuild, SetupFails, ForwardingOn, EnableForwarding, PersistForwarding,
       NatRefused, UploadFiles, CopyConf, EnableVpn, RestartFails, CheckActive, CheckActiveFails,
       RecordSetup, UploadConf, Execute, Upload, SetupPcs
  <2>2. pc[p] \in SetupPcs => job[p].cmd # "update"
    BY <1>1 DEF InHand
  <2>3. QED
    BY <1>3, <1>4, <2>1, <2>2 DEF Pcs, NatPcs
<1>11. CASE CleanStep(p)
  <2>1. \/ Return(p, "cleaned")
        \/ \E next \in CleanPcs : Goto(p, next)
    BY <1>11 DEF CleanStep, CleanNatStop, CleanNatDisable, CleanNatDown, CleanStop,
       CleanDisable, CleanConf, CleanFiles, CleanRecord, Try, CleanPcs
  <2>2. QED
    BY <1>3, <1>4, <2>1 DEF Pcs, CleanPcs, NatPcs
<1>12. QED
  BY <1>6, <1>7, <1>8, <1>9, <1>10, <1>11 DEF Step, SetupStep, UpdateStep

LEMMA ReadyStep ==
  ASSUME DistinctNames, "drop" \notin Faults,
         TypeInv, \A p \in Projects : ReadyInTime(p), [Next]_vars
  PROVE  \A p \in Projects : ReadyInTime(p)'
<1> SUFFICES ASSUME NEW p \in Projects PROVE ReadyInTime(p)'
  OBVIOUS
<1>1. ReadyInTime(p)
  OBVIOUS
<1>2. /\ pc[p] # "idle" => job[p].name \in NamesOf(p)
      /\ Told(p, "updated") => told[p].name \in NamesOf(p)
  BY DEF TypeInv, InHand, OnRecord, Told
<1>3. CASE Step(p)
  BY <1>1, <1>3, ReadyOwn
<1>4. CASE Operator(p)
  <2>1. UNCHANGED hostVars
    BY <1>4, OperatorEffect
  <2>2. CASE UNCHANGED <<pc, job, told, lost>>
    BY <1>1, <2>1, <2>2 DEF ReadyInTime, Ready, Told, hostVars
  <2>3. CASE pc'[p] \in {"build", "upload", "c_nat_stop"} /\ told'[p].what = "none"
    BY <2>3 DEF ReadyInTime, Told, NatPcs
  <2>4. QED
    BY <1>4, <2>2, <2>3, OperatorEffect
<1>5. ASSUME NEW q \in Projects, q # p, Operator(q) \/ Step(q) \/ Silence(q) PROVE ReadyInTime(p)'
  <2>1. Undisturbed(p)
    BY <1>5, OthersKeep
  <2>2. \A n \in NamesOf(p) : Ready(n) => Ready(n)'
    BY <2>1, ReadyKept DEF Undisturbed
  <2>3. pc'[p] = pc[p] /\ job'[p] = job[p] /\ told'[p] = told[p]
    BY <2>1 DEF Undisturbed
  <2>4. PICK n, m : n = job[p].name /\ m = told[p].name
    OBVIOUS
  <2>5. QED
    BY <1>1, <1>2, <2>2, <2>3, <2>4 DEF ReadyInTime, Told, NatPcs
<1>6. CASE Reboot
  <2>1. UNCHANGED <<pc, job, told>> /\ Boot
    BY <1>6 DEF Reboot
  <2>2. \A n \in Names : Ready(n) => Ready(n)'
    BY <2>1, ReadyBoot DEF TypeInv, TypeOK
  <2>3. PICK n, m : n = job[p].name /\ m = told[p].name
    OBVIOUS
  <2>4. QED
    BY <1>1, <1>2, <2>1, <2>2, <2>3, NamesOfType DEF ReadyInTime, Told, NatPcs
<1>7. CASE UNCHANGED vars
  BY <1>1, <1>7 DEF vars, hostVars, ReadyInTime, Ready, Told
<1>8. CASE Silence(p)
  BY <1>1, <1>8, SilenceOwn DEF ReadyInTime, Ready, Told, NoJob, NatPcs, hostVars
<1>9. QED
  BY <1>3, <1>4, <1>5, <1>6, <1>7, <1>8 DEF Next

\* Where no command is lost without a word, an update that reported success
\* left the service running the configuration it uploaded, or off.
THEOREM UpdateIsRun == ASSUME DistinctNames, "drop" \notin Faults PROVE Spec => []UpdatedRuns
<1>1. Init => \A p \in Projects : ReadyInTime(p)
  BY DEF Init, ReadyInTime, Told, NoJob, Quiet
<1>2. TypeInv /\ (\A p \in Projects : ReadyInTime(p)) /\ [Next]_vars
        => (\A p \in Projects : ReadyInTime(p))'
  BY ReadyStep
<1>3. (\A p \in Projects : ReadyInTime(p)) => UpdatedRuns
  BY DEF ReadyInTime, UpdatedRuns, Ready
<1>4. QED
  BY <1>1, <1>2, <1>3, TypeInvariant, PTL DEF Spec

-----------------------------------------------------------------------------
(* Clean.                                                                  *)

\* The positions of a clean after each of its commands.
PastNatStop == CleanPcs \ {"c_nat_stop"}
PastNatDisable == PastNatStop \ {"c_nat_disable"}
PastNatDown == PastNatDisable \ {"c_nat_down"}
PastStop == PastNatDown \ {"c_stop"}
PastDisable == PastStop \ {"c_disable"}
PastConf == PastDisable \ {"c_conf"}
PastFiles == PastConf \ {"c_files"}

NoFiles(n) == files[n] = NoFile /\ natUp[n] = NoFile /\ natDown[n] = NoFile

Gone(n) ==
  /\ run[n] = NoFile /\ conf[n] = NoFile /\ NoFiles(n)
  /\ n \notin vpnOn /\ n \notin natOn /\ n \notin natRun

\* What each command of a clean removes stays removed: its session holds.
GoneInTime(p) ==
  LET n == job[p].name IN
  /\ job[p].cmd = "clean" => p \notin lost
  /\ pc[p] \in PastNatStop => n \notin natRun
  /\ pc[p] \in PastNatDisable => n \notin natOn
  /\ pc[p] \in PastStop => run[n] = NoFile
  /\ pc[p] \in PastDisable => n \notin vpnOn
  /\ pc[p] \in PastConf => conf[n] = NoFile
  /\ pc[p] \in PastFiles => NoFiles(n)
  /\ Told(p, "cleaned") => Gone(told[p].name)

LEMMA GoneOwn ==
  ASSUME "clean" \notin Faults, TypeInv, NEW p \in Projects, GoneInTime(p), Step(p)
  PROVE  GoneInTime(p)'
<1>0. PICK n : n = job[p].name
  OBVIOUS
<1> USE <1>0
<1>1. /\ pc \in [Projects -> Pcs] /\ job \in [Projects -> Jobs] /\ told \in [Projects -> Reports]
      /\ HostTypeOK /\ InHand(p) /\ lost \subseteq Projects
  BY DEF TypeInv, TypeOK
<1>2. pc[p] # "idle" => n \in Names
  BY <1>1, NamesOfType DEF InHand
<1>3. ASSUME Return(p, "failed") \/ Return(p, "live") \/ Return(p, "updated")
      PROVE  GoneInTime(p)'
  <2>1. pc'[p] = "idle" /\ told'[p].what # "cleaned" /\ job'[p] = NoJob
    BY <1>1, <1>3 DEF Return
  <2>2. QED
    BY <2>1 DEF GoneInTime, Told, NoJob, PastNatStop, PastNatDisable, PastNatDown, PastStop,
       PastDisable, PastConf, PastFiles, CleanPcs
<1>4. CASE pc[p] \notin CleanPcs
  <2>1. CASE \E next : Course(p, next) /\ Goto(p, next)
    <3>1. PICK next : Course(p, next) /\ Goto(p, next)
      BY <2>1
    <3>2. pc'[p] = next /\ next # "idle" /\ job' = job
      BY <1>1, <3>1 DEF Goto, Course
    <3>3. job[p].cmd # "clean"
      BY <1>1, <1>4, CourseOfStep DEF InHand, SetupPcs, UpdatePcs, CleanPcs, NatPcs, Pcs
    <3>4. next \notin CleanPcs
      BY <3>1, <3>3 DEF Course
    <3>5. QED
      BY <3>2, <3>3, <3>4 DEF GoneInTime, Told, PastNatStop, PastNatDisable, PastNatDown,
         PastStop, PastDisable, PastConf, PastFiles
  <2>2. CASE \E iface \in Ifaces : Confirmed(p, iface)
    <3>1. pc'[p] \in {"files", "nat_up"} /\ job'[p].cmd # "clean"
      BY <1>1, <2>2, ConfirmedOwn DEF Confirmed, InHand, Jobs
    <3>2. QED
      BY <3>1 DEF GoneInTime, Told, PastNatStop, PastNatDisable, PastNatDown,
         PastStop, PastDisable, PastConf, PastFiles, CleanPcs
  <2>3. QED
    BY <1>3, <1>4, <2>1, <2>2, CourseOfStep DEF CleanPcs
<1>5. ASSUME pc[p] \in CleanPcs
      PROVE  p \notin lost /\ job[p].cmd = "clean"
  BY <1>1, <1>5 DEF InHand, GoneInTime
<1> DEFINE Went(next) == pc'[p] = next /\ job'[p] = job[p] /\ lost' = lost
<1>6. ASSUME NEW next, Goto(p, next), lost' = lost PROVE Went(next)
  BY <1>1, <1>6 DEF Goto
<1> USE DEF Try, GoneInTime, Told, HostTypeOK, vpnVars, natFiles, natSet, natVars, ipVars, NoFiles
<1> USE DEF PastNatStop, PastNatDisable, PastNatDown, PastStop, PastDisable, PastConf, PastFiles, CleanPcs
<1>7. CASE CleanNatStop(p)
  <2>1. pc[p] = "c_nat_stop" /\ Went("c_nat_disable") /\ StopNat(n)
    BY <1>5, <1>6, <1>7 DEF CleanNatStop
  <2>2. QED
    BY <1>1, <1>5, <2>1 DEF StopNat
<1>8. CASE CleanNatDisable(p)
  <2>1. /\ pc[p] = "c_nat_disable" /\ Went("c_nat_down")
        /\ natOn' = natOn \ {n} /\ UNCHANGED natRun
    BY <1>5, <1>6, <1>8 DEF CleanNatDisable
  <2>2. QED
    BY <1>1, <1>5, <2>1
<1>9. CASE CleanNatDown(p)
  <2>1. pc[p] = "c_nat_down" /\ Went("c_stop") /\ RunNatDown(n)
    BY <1>5, <1>6, <1>9 DEF CleanNatDown
  <2>2. QED
    BY <1>1, <1>5, <2>1 DEF RunNatDown
<1>10. CASE CleanStop(p)
  <2>1. pc[p] = "c_stop" /\ Went("c_disable") /\ StopVpn(n)
    BY <1>5, <1>6, <1>10 DEF CleanStop
  <2>2. QED
    BY <1>1, <1>2, <1>5, <2>1 DEF StopVpn
<1>11. CASE CleanDisable(p)
  <2>1. /\ pc[p] = "c_disable" /\ Went("c_conf")
        /\ vpnOn' = vpnOn \ {n} /\ UNCHANGED <<run, natVars>>
    BY <1>5, <1>6, <1>11 DEF CleanDisable
  <2>2. QED
    BY <1>1, <1>5, <2>1
<1>12. CASE CleanConf(p)
  <2>1. /\ pc[p] = "c_conf" /\ Went("c_files")
        /\ conf' = [conf EXCEPT ![n] = NoFile] /\ UNCHANGED <<run, vpnOn, natVars>>
    BY <1>5, <1>6, <1>12 DEF CleanConf
  <2>2. QED
    BY <1>1, <1>2, <1>5, <2>1
<1>13. CASE CleanFiles(p)
  <2>1. /\ pc[p] = "c_files" /\ Went("c_record")
        /\ files' = [files EXCEPT ![n] = NoFile] /\ natUp' = [natUp EXCEPT ![n] = NoFile]
        /\ natDown' = [natDown EXCEPT ![n] = NoFile] /\ UNCHANGED <<conf, run, vpnOn, natSet>>
    BY <1>5, <1>6, <1>13 DEF CleanFiles
  <2>2. QED
    BY <1>1, <1>2, <1>5, <2>1
<1>14. CASE CleanRecord(p)
  <2>1. pc[p] = "c_record" /\ Return(p, "cleaned") /\ UNCHANGED <<hostVars, lost>>
    BY <1>14 DEF CleanRecord
  <2>2. /\ pc'[p] = "idle" /\ job'[p] = NoJob
        /\ told'[p] = [what |-> "cleaned", name |-> n]
    BY <2>1, ReturnOwn
  <2>3. Gone(n)'
    BY <2>1 DEF Gone, hostVars
  <2>4. QED
    BY <2>2, <2>3 DEF NoJob
<1>15. CASE CleanStep(p)
  BY <1>7, <1>8, <1>9, <1>10, <1>11, <1>12, <1>13, <1>14, <1>15 DEF CleanStep
<1>16. pc[p] \in CleanPcs => CleanStep(p)
  BY DEF Step, SetupStep, SetupBuild, SetupFails, ForwardingOn, EnableForwarding,
     PersistForwarding, Declined, Confirmed, NatRefused, UploadFiles, CopyConf, EnableVpn,
     Restart, RestartFails, CheckActive, CheckActiveFails, UploadNatUp, UploadNatDown,
     UploadNatUnit, EnableNat, ApplyNat, ApplyNatFails, RecordSetup, Execute, Upload,
     UpdateStep, UploadConf, ReportUpdate
<1>17. QED
  BY <1>4, <1>15, <1>16

LEMMA GoneStep ==
  ASSUME DistinctNames, "clean" \notin Faults,
         TypeInv, \A p \in Projects : GoneInTime(p), [Next]_vars
  PROVE  \A p \in Projects : GoneInTime(p)'
<1> SUFFICES ASSUME NEW p \in Projects PROVE GoneInTime(p)'
  OBVIOUS
<1>1. GoneInTime(p)
  OBVIOUS
<1>2. /\ pc[p] # "idle" => job[p].name \in NamesOf(p)
      /\ Told(p, "cleaned") => told[p].name \in NamesOf(p)
      /\ job[p].cmd = "clean" => pc[p] # "idle"
  BY DEF TypeInv, InHand, OnRecord, Told, NoJob
<1> USE DEF PastNatStop, PastNatDisable, PastNatDown, PastStop, PastDisable, PastConf,
        PastFiles, CleanPcs
<1>3. CASE Step(p)
  BY <1>1, <1>3, GoneOwn
<1>4. CASE Operator(p)
  <2>1. UNCHANGED hostVars
    BY <1>4, OperatorEffect
  <2>2. CASE UNCHANGED <<pc, job, told, lost>>
    BY <1>1, <2>1, <2>2 DEF GoneInTime, Gone, NoFiles, Told, hostVars
  <2>3. CASE pc'[p] \in {"build", "upload", "c_nat_stop"} /\ told'[p].what = "none" /\ p \notin lost'
    BY <2>3 DEF GoneInTime, Told
  <2>4. QED
    BY <1>4, <2>2, <2>3, OperatorEffect
<1>5. ASSUME NEW q \in Projects, q # p, Operator(q) \/ Step(q) \/ Silence(q) PROVE GoneInTime(p)'
  <2>1. Undisturbed(p)
    BY <1>5, OthersKeep
  <2>2. \A n \in NamesOf(p) : Kept(n)
    BY <2>1 DEF Undisturbed
  <2>3. \A n \in NamesOf(p) : Gone(n) => Gone(n)'
    BY <2>2 DEF Kept, Gone, NoFiles
  <2>4. /\ pc'[p] = pc[p] /\ job'[p] = job[p] /\ told'[p] = told[p]
        /\ p \in lost' <=> p \in lost
    BY <2>1 DEF Undisturbed
  <2>5. PICK n, m : n = job[p].name /\ m = told[p].name
    OBVIOUS
  <2>6. Told(p, "cleaned")' => Gone(m)'
    BY <1>1, <1>2, <2>3, <2>4, <2>5 DEF GoneInTime, Told
  <2>7. pc[p] # "idle" => Kept(n)
    BY <1>2, <2>2, <2>5
  <2>8. QED
    BY <1>1, <2>4, <2>5, <2>6, <2>7 DEF GoneInTime, Kept, NoFiles
<1>6. CASE Reboot
  <2>1. /\ UNCHANGED <<pc, job, told, files, conf, vpnOn, natUp, natDown, natOn>>
        /\ run' = [n \in Names |-> IF n \in vpnOn /\ CanStart(n) THEN conf[n] ELSE NoFile]
        /\ natRun' \subseteq natOn /\ job[p].cmd # "clean"
    BY <1>6 DEF Reboot, Boot
  <2>2. lost' = lost \union {q \in Projects : pc[q] # "idle"}
    BY <1>6 DEF Reboot
  <2>3. pc[p] \notin CleanPcs
    BY <2>1 DEF TypeInv, InHand
  <2>4. PICK m : m = told[p].name
    OBVIOUS
  <2>5. Told(p, "cleaned") => m \in Names /\ Gone(m)
    BY <1>1, <1>2, <2>4, NamesOfType DEF GoneInTime
  <2>6. Told(p, "cleaned") => Gone(m)'
    BY <2>1, <2>5 DEF Gone, NoFiles
  <2>7. QED
    BY <2>1, <2>3, <2>4, <2>6 DEF GoneInTime, Told
<1>7. CASE UNCHANGED vars
  BY <1>1, <1>7 DEF vars, hostVars, GoneInTime, Gone, NoFiles, Told
<1>8. CASE Silence(p)
  BY <1>1, <1>8, SilenceOwn DEF GoneInTime, Gone, NoFiles, Told, NoJob, hostVars
<1>9. QED
  BY <1>3, <1>4, <1>5, <1>6, <1>7, <1>8 DEF Next

\* Where no command of clean itself fails or is lost, an instance that clean
\* said is gone has no unit that runs or starts and no file.
THEOREM CleanedLeavesNothing ==
  ASSUME DistinctNames, "clean" \notin Faults PROVE Spec => []CleanedIsGone
<1>1. Init => \A p \in Projects : GoneInTime(p)
  BY DEF Init, GoneInTime, Told, NoJob, Quiet, PastNatStop, PastNatDisable, PastNatDown,
     PastStop, PastDisable, PastConf, PastFiles, CleanPcs
<1>2. TypeInv /\ (\A p \in Projects : GoneInTime(p)) /\ [Next]_vars
        => (\A p \in Projects : GoneInTime(p))'
  BY GoneStep
<1>3. (\A p \in Projects : GoneInTime(p)) => CleanedIsGone
  BY DEF GoneInTime, CleanedIsGone, Gone, NoFiles
<1>4. QED
  BY <1>1, <1>2, <1>3, TypeInvariant, PTL DEF Spec

-----------------------------------------------------------------------------
(* Deploy implements Service.                                              *)

\* What the service of an instance starts with depends on two files.
LEMMA StartableOf ==
  ASSUME HostTypeOK
  PROVE  /\ Startable \in [Names -> Settings \union {NoFile}]
         /\ \A n \in Names : /\ CanStart(n) => Startable[n] = conf[n] /\ conf[n] \in Settings
                             /\ ~CanStart(n) => Startable[n] = NoFile
BY DEF Startable, CanStart, Intact, HostTypeOK

LEMMA StartableStays == UNCHANGED <<files, conf>> => UNCHANGED Startable
BY DEF Startable, CanStart

\* A command writes a file of its instance, switches its service, starts or
\* stops it, or leaves the service alone; never two of them in a step.
LEMMA ServiceEffect ==
  ASSUME TypeInv, NEW p \in Projects, Step(p)
  PROVE  LET m == job[p].name IN
         \/ UNCHANGED vpnVars
         \/ RestartVpn(m) \/ RestartVpnFails(m) \/ StopVpn(m)
         \/ /\ UNCHANGED <<run, vpnOn>>
            /\ files' = files \/ \E x : files' = [files EXCEPT ![m] = x]
            /\ conf' = conf \/ \E x : conf' = [conf EXCEPT ![m] = x]
         \/ /\ UNCHANGED <<files, conf, run>>
            /\ vpnOn' \in {vpnOn \union {m}, vpnOn \ {m}}
<1> USE DEF hostVars, vpnVars
<1>1. CASE \/ SetupBuild(p) \/ SetupFails(p) \/ ForwardingOn(p) \/ Declined(p)
           \/ \E iface \in Ifaces : Confirmed(p, iface)
           \/ NatRefused(p) \/ CheckActive(p) \/ CheckActiveFails(p) \/ RecordSetup(p)
           \/ ReportUpdate(p) \/ CleanRecord(p)
  BY <1>1 DEF SetupBuild, SetupFails, ForwardingOn, Declined, Confirmed, NatRefused,
     CheckActive, CheckActiveFails, RecordSetup, ReportUpdate, CleanRecord
<1>2. CASE Restart(p) \/ RestartFails(p) \/ CleanStop(p)
  BY <1>2 DEF Restart, RestartFails, CleanStop, Execute, Try
<1>3. CASE ApplyNat(p) \/ ApplyNatFails(p) \/ CleanNatStop(p) \/ CleanNatDown(p)
  BY <1>3 DEF ApplyNat, ApplyNatFails, CleanNatStop, CleanNatDown, Execute, Try,
     RestartNat, StopNat, RunNatDown
<1>4. CASE EnableForwarding(p) \/ PersistForwarding(p) \/ EnableNat(p) \/ CleanNatDisable(p)
           \/ UploadNatUp(p) \/ UploadNatDown(p) \/ UploadNatUnit(p)
  BY <1>4 DEF EnableForwarding, PersistForwarding, EnableNat, CleanNatDisable, UploadNatUp,
     UploadNatDown, UploadNatUnit, Execute, Try, Upload
<1>5. CASE UploadFiles(p) \/ UploadConf(p) \/ CopyConf(p) \/ CleanConf(p) \/ CleanFiles(p)
  BY <1>5 DEF UploadFiles, UploadConf, CopyConf, CleanConf, CleanFiles, Execute, Try, Upload
<1>6. CASE EnableVpn(p) \/ CleanDisable(p)
  BY <1>6 DEF EnableVpn, CleanDisable, Execute, Try
<1>7. QED
  BY <1>1, <1>2, <1>3, <1>4, <1>5, <1>6 DEF Step, SetupStep, UpdateStep, CleanStep

LEMMA WriteImplements ==
  ASSUME HostTypeOK, HostTypeOK', NEW m \in Names, UNCHANGED <<run, vpnOn>>,
         files' = files \/ \E x : files' = [files EXCEPT ![m] = x],
         conf' = conf \/ \E x : conf' = [conf EXCEPT ![m] = x]
  PROVE  Promises!Write(m)
<1>1. Startable' \in [Names -> Settings \union {NoFile}]
  BY DEF Startable, CanStart, Intact, HostTypeOK
<1>2. \A n \in Names \ {m} : Startable'[n] = Startable[n]
  BY DEF Startable, CanStart, HostTypeOK
<1>3. Startable' = [Startable EXCEPT ![m] = Startable'[m]]
  <2>1. Startable \in [Names -> Settings \union {NoFile}]
    BY StartableOf
  <2> HIDE DEF Startable
  <2>2. QED
    BY <1>1, <1>2, <2>1
<1>4. QED
  BY <1>1, <1>3 DEF Promises!Write

LEMMA TouchImplements ==
  ASSUME TypeInv, HostTypeOK', NEW p \in Projects, Step(p)
  PROVE  Promises!Touch(job[p].name) \/ UNCHANGED <<Startable, vpnOn, run>>
<1> DEFINE m == job[p].name
<1>1. m \in Names
  BY CourseOfStep, NamesOfType DEF TypeInv, InHand
<1>2. HostTypeOK
  BY DEF TypeInv, TypeOK
<1> HIDE DEF m
<1>3. CASE UNCHANGED vpnVars
  BY <1>3, StartableStays DEF vpnVars
<1>4. CASE RestartVpn(m)
  <2>1. CanStart(m) /\ run' = [run EXCEPT ![m] = conf[m]] /\ UNCHANGED <<files, conf, vpnOn>>
    BY <1>4 DEF RestartVpn
  <2>2. Startable[m] = conf[m] /\ Startable[m] # NoFile
    BY <1>1, <1>2, <2>1, StartableOf DEF CanStart, Intact, Missing
  <2>3. Promises!Start(m)
    BY <2>1, <2>2, StartableStays DEF Promises!Start
  <2>4. QED
    BY <2>3 DEF Promises!Touch, m
<1>5. CASE RestartVpnFails(m) \/ StopVpn(m)
  <2>1. run' = [run EXCEPT ![m] = NoFile] /\ UNCHANGED <<files, conf, vpnOn>>
    BY <1>5 DEF RestartVpnFails, StopVpn
  <2>2. Promises!Stop(m)
    BY <2>1, StartableStays DEF Promises!Stop
  <2>3. QED
    BY <2>2 DEF Promises!Touch, m
<1>6. CASE /\ UNCHANGED <<run, vpnOn>>
           /\ files' = files \/ \E x : files' = [files EXCEPT ![m] = x]
           /\ conf' = conf \/ \E x : conf' = [conf EXCEPT ![m] = x]
  <2>1. Promises!Write(m)
    BY <1>1, <1>2, <1>6, WriteImplements
  <2>2. QED
    BY <2>1 DEF Promises!Touch, m
<1>7. CASE UNCHANGED <<files, conf, run>> /\ vpnOn' \in {vpnOn \union {m}, vpnOn \ {m}}
  <2>1. Promises!Switch(m)
    BY <1>7, StartableStays DEF Promises!Switch
  <2>2. QED
    BY <2>1 DEF Promises!Touch, m
<1>8. QED
  BY <1>3, <1>4, <1>5, <1>6, <1>7, ServiceEffect DEF m

\* A command that reports anything but a failure does nothing else.
LEMMA ReportsAlone ==
  ASSUME NEW p \in Projects, Step(p), pc[p] \in {"ask", "record", "report", "c_record"}
  PROVE  UNCHANGED hostVars
<1>1. CASE SetupStep(p)
  BY <1>1 DEF SetupStep, SetupBuild, SetupFails, ForwardingOn, EnableForwarding,
     PersistForwarding, Declined, Confirmed, NatRefused, UploadFiles, CopyConf, EnableVpn,
     Restart, RestartFails, CheckActive, CheckActiveFails, UploadNatUp, UploadNatDown,
     UploadNatUnit, EnableNat, ApplyNat, ApplyNatFails, RecordSetup, Execute, Upload
<1>2. CASE UpdateStep(p)
  BY <1>2 DEF UpdateStep, UploadConf, ReportUpdate, Upload
<1>3. CASE CleanStep(p)
  BY <1>3 DEF CleanStep, CleanNatStop, CleanNatDisable, CleanNatDown, CleanStop,
     CleanDisable, CleanConf, CleanFiles, CleanRecord, Try
<1>4. QED
  BY <1>1, <1>2, <1>3 DEF Step

LEMMA InWorkType ==
  ASSUME TypeInv
  PROVE  /\ InWork \in [Projects -> Names \union {NoFile}]
         /\ \A p \in Projects : /\ InWork[p] = job[p].name
                                /\ pc[p] = "idle" => InWork[p] = NoFile
                                /\ pc[p] # "idle" => InWork[p] # NoFile
<1>1. \A p \in Projects : InWork[p] = job[p].name
  BY DEF InWork
<1>2. \A p \in Projects : job[p].name \in Names \union {NoFile}
  BY DEF TypeInv, TypeOK, Jobs
<1>3. \A p \in Projects : pc[p] = "idle" => job[p].name = NoFile
  BY DEF TypeInv, InHand, NoJob
<1>4. \A p \in Projects : pc[p] # "idle" => job[p].name # NoFile
  BY NamesOfType, HostAssumption DEF TypeInv, InHand
<1>5. InWork \in [Projects -> Names \union {NoFile}]
  BY <1>1, <1>2 DEF InWork
<1>6. QED
  BY <1>1, <1>3, <1>4, <1>5

\* The memory of one command changes, and with it what it is for.
LEMMA InWorkStep ==
  ASSUME TypeInv, NEW p \in Projects, NEW memory, job' = [job EXCEPT ![p] = memory]
  PROVE  InWork' = [InWork EXCEPT ![p] = memory.name]
BY DEF InWork, TypeInv, TypeOK

\* A report that is no failure is true.
LEMMA ReportIsTrue ==
  ASSUME TypeInv, NEW p \in Projects, ServesInTime(p), ReadyInTime(p), GoneInTime(p),
         NEW what \in {"live", "updated", "cleaned"},
         what = "live" => pc[p] = "record",
         what = "updated" => pc[p] \in {"ask", "report"} /\ job[p].cmd = "update",
         what = "cleaned" => pc[p] = "c_record"
  PROVE  Promises!Promised(what, job[p].name)
<1> DEFINE m == job[p].name
<1>1. pc[p] # "idle" /\ m \in Names
  BY NamesOfType DEF TypeInv, InHand
<1>2. HostTypeOK
  BY DEF TypeInv, TypeOK
<1>3. ASSUME what = "live" PROVE Promises!IsLive(m)
  <2>1. job[p].cmd = "setup"
    BY <1>3 DEF TypeInv, InHand, SetupPcs
  <2>2. Serves(m)
    BY <1>3, <2>1 DEF ServesInTime
  <2>3. CanStart(m)
    BY <1>1, <1>2, <2>2, HostAssumption DEF Serves, CanStart, Intact, HostTypeOK, Missing
  <2>4. QED
    BY <1>1, <1>2, <2>2, <2>3, StartableOf DEF Serves, Promises!IsLive
<1>4. ASSUME what = "updated" PROVE Promises!IsUpdated(m)
  <2>1. Ready(m)
    BY <1>4 DEF ReadyInTime
  <2>2. CanStart(m) /\ conf[m] # NoFile
    BY <2>1 DEF Ready, CanStart, Intact, Missing
  <2>3. QED
    BY <1>1, <1>2, <2>1, <2>2, StartableOf DEF Ready, Promises!IsUpdated
<1>5. ASSUME what = "cleaned" PROVE Promises!IsGone(m)
  <2>1. pc[p] = "c_record"
    BY <1>5
  <2>2. run[m] = NoFile /\ m \notin vpnOn /\ conf[m] = NoFile
    BY <2>1 DEF GoneInTime, PastNatStop, PastNatDisable, PastNatDown, PastStop, PastDisable,
       PastConf, PastFiles, CleanPcs
  <2>3. ~CanStart(m)
    BY <2>2 DEF CanStart, Intact, Missing
  <2>4. QED
    BY <1>1, <1>2, <2>2, <2>3, StartableOf DEF Promises!IsGone
<1>6. QED
  BY <1>3, <1>4, <1>5 DEF Promises!Promised

LEMMA StepImplements ==
  ASSUME TypeInv, HostTypeOK', NEW p \in Projects, ServesInTime(p), ReadyInTime(p),
         GoneInTime(p), Step(p)
  PROVE  Promises!Step(p) \/ UNCHANGED Promises!serviceVars
<1>1. pc[p] # "idle" /\ InWork[p] = job[p].name /\ InWork[p] # NoFile
  BY CourseOfStep, InWorkType
<1>2. Promises!Touch(job[p].name) \/ UNCHANGED <<Startable, vpnOn, run>>
  BY TouchImplements
<1>3. UNCHANGED job => UNCHANGED InWork
  BY DEF InWork
<1>4. CASE \E next : Course(p, next) /\ Goto(p, next)
  <2>1. UNCHANGED <<InWork, told>>
    BY <1>3, <1>4 DEF Goto
  <2>2. QED
    BY <1>1, <1>2, <2>1 DEF Promises!Step, Promises!Proceed, Promises!serviceVars
<1>5. ASSUME NEW what \in {"live", "updated", "cleaned", "failed"}, Return(p, what),
             what = "live" => pc[p] = "record",
             what = "updated" => pc[p] \in {"ask", "report"} /\ job[p].cmd = "update",
             what = "cleaned" => pc[p] = "c_record"
      PROVE  Promises!Step(p)
  <2>1. InWork' = [InWork EXCEPT ![p] = NoJob.name] /\ NoJob.name = NoFile
    BY <1>5, InWorkStep DEF Return, NoJob
  <2>2. Promises!Report(p, what)
    BY <1>1, <1>5, <2>1 DEF Return, Promises!Report
  <2>3. CASE what = "failed"
    <3>1. Promises!Fail(p)
      BY <1>1, <1>2, <2>2, <2>3 DEF Promises!Fail, Promises!host
    <3>2. QED
      BY <3>1 DEF Promises!Step
  <2>4. CASE what # "failed"
    <3>1. UNCHANGED hostVars
      BY <1>5, <2>4, ReportsAlone
    <3>2. UNCHANGED <<Startable, vpnOn, run>>
      BY <3>1, StartableStays DEF hostVars
    <3>3. Promises!Promised(what, InWork[p])
      BY <1>1, <1>5, <2>4, ReportIsTrue
    <3>4. Promises!Finish(p, what)
      BY <1>1, <2>2, <3>2, <3>3 DEF Promises!Finish, Promises!host
    <3>5. QED
      BY <1>5, <2>4, <3>4 DEF Promises!Step
  <2>5. QED
    BY <2>3, <2>4
<1>6. ASSUME NEW iface \in Ifaces, Confirmed(p, iface)
      PROVE  UNCHANGED Promises!serviceVars
  <2>1. job' = [job EXCEPT ![p] = [job[p] EXCEPT !.iface = iface]] /\ UNCHANGED <<hostVars, told>>
    BY <1>6 DEF Confirmed
  <2>2. [job[p] EXCEPT !.iface = iface].name = job[p].name
    BY DEF TypeInv, TypeOK, Jobs
  <2>3. InWork' = [InWork EXCEPT ![p] = InWork[p]]
    BY <1>1, <2>1, <2>2, InWorkStep
  <2>4. UNCHANGED InWork
    BY <2>3, InWorkType
  <2>5. QED
    BY <2>1, <2>4, StartableStays DEF hostVars, Promises!serviceVars
<1>7. QED
  BY <1>4, <1>5, <1>6, CourseOfStep

LEMMA OperatorImplements ==
  ASSUME TypeInv, TypeInv', NEW p \in Projects, Operator(p)
  PROVE  Promises!Step(p) \/ UNCHANGED Promises!serviceVars
<1>1. UNCHANGED <<Startable, vpnOn, run>>
  BY OperatorHost, StartableStays DEF hostVars
<1>2. CASE (\E s \in Settings : EditConfig(p, s)) \/ BuildAlone(p) \/ CleanLocal(p)
  <2>1. UNCHANGED <<job, told>>
    BY <1>2 DEF EditConfig, BuildAlone, CleanLocal
  <2>2. QED
    BY <1>1, <2>1 DEF InWork, Promises!serviceVars
<1>3. ASSUME NEW next \in {"build", "upload", "c_nat_stop"}, NEW memory, Begin(p, next, memory)
      PROVE  Promises!Step(p)
  <2>1. /\ pc[p] = "idle" /\ pc' = [pc EXCEPT ![p] = next]
        /\ job' = [job EXCEPT ![p] = memory] /\ told' = [told EXCEPT ![p] = Quiet]
    BY <1>3 DEF Begin
  <2>2. pc'[p] # "idle" /\ job'[p] = memory
    BY <2>1 DEF TypeInv, TypeOK
  <2>3. memory.name \in NamesOf(p)
    BY <2>2 DEF TypeInv, InHand
  <2>4. InWork' = [InWork EXCEPT ![p] = memory.name] /\ InWork[p] = NoFile
    BY <2>1, InWorkStep, InWorkType
  <2>5. Promises!Begin(p, memory.name)
    BY <1>1, <2>1, <2>4 DEF Promises!Begin, Promises!Nothing, Promises!host, Quiet
  <2>6. QED
    BY <2>3, <2>5 DEF Promises!Step
<1>4. QED
  BY <1>2, <1>3 DEF Operator, SetupStart, UpdateStart, CleanStart

LEMMA SilenceImplements ==
  ASSUME TypeInv, NEW p \in Projects, Silence(p)
  PROVE  Promises!Step(p) \/ UNCHANGED Promises!serviceVars
<1>1. UNCHANGED <<Startable, vpnOn, run>>
  BY SilenceOwn, StartableStays DEF hostVars
<1>2. CASE UNCHANGED <<job, told>>
  BY <1>1, <1>2 DEF InWork, Promises!serviceVars
<1>3. CASE pc[p] = "hung" /\ Return(p, "failed")
  <2>1. InWork' = [InWork EXCEPT ![p] = NoJob.name] /\ NoJob.name = NoFile
    BY <1>3, InWorkStep DEF Return, NoJob
  <2>2. InWork[p] = job[p].name /\ InWork[p] # NoFile
    BY <1>3, InWorkType
  <2>3. Promises!Report(p, "failed")
    BY <1>3, <2>1, <2>2 DEF Return, Promises!Report
  <2>4. QED
    BY <1>1, <2>2, <2>3 DEF Promises!Fail, Promises!host, Promises!Step
<1>4. QED
  BY <1>2, <1>3, SilenceOwn

LEMMA RebootImplements == TypeInv /\ Reboot => Promises!Boot
<1> SUFFICES ASSUME TypeInv, Reboot PROVE Promises!Boot
  OBVIOUS
<1>1. /\ run' = [n \in Names |-> IF n \in vpnOn /\ CanStart(n) THEN conf[n] ELSE NoFile]
      /\ UNCHANGED <<files, conf, vpnOn, job, told>>
  BY DEF Reboot, Boot
<1>2. run' = [n \in Names |-> IF n \in vpnOn THEN Startable[n] ELSE NoFile]
  BY <1>1 DEF Startable
<1>3. UNCHANGED InWork
  BY <1>1 DEF InWork
<1>4. QED
  BY <1>1, <1>2, <1>3, StartableStays DEF Promises!Boot

\* What each command has established by the position it is at.
InTime == \A p \in Projects : ServesInTime(p) /\ ReadyInTime(p) /\ GoneInTime(p)

\* The premises of the three promises, together.
Undropped == "drop" \notin Faults /\ "clean" \notin Faults

LEMMA InTimeInvariant == ASSUME DistinctNames, Undropped PROVE Spec => [](TypeInv /\ InTime)
<1>1. Init => InTime
  BY DEF Init, InTime, ServesInTime, ReadyInTime, GoneInTime, Told, NoJob, Quiet, PastNatStop,
     PastNatDisable, PastNatDown, PastStop, PastDisable, PastConf, PastFiles, CleanPcs
<1>2. TypeInv /\ InTime /\ [Next]_vars => InTime'
  BY ServesStep, ReadyStep, GoneStep DEF InTime, Undropped
<1>3. QED
  BY <1>1, <1>2, InitType, NextType, PTL DEF Spec

LEMMA NextImplements ==
  TypeInv /\ InTime /\ [Next]_vars => [Promises!Next]_(Promises!serviceVars)
<1> SUFFICES ASSUME TypeInv, InTime, [Next]_vars
             PROVE  Promises!Next \/ UNCHANGED Promises!serviceVars
  OBVIOUS
<1>1. TypeInv' /\ HostTypeOK'
  BY NextType DEF TypeInv, TypeOK
<1>2. ASSUME NEW p \in Projects, Operator(p)
      PROVE  Promises!Step(p) \/ UNCHANGED Promises!serviceVars
  BY <1>1, <1>2, OperatorImplements
<1>3. ASSUME NEW p \in Projects, Step(p)
      PROVE  Promises!Step(p) \/ UNCHANGED Promises!serviceVars
  BY <1>1, <1>3, StepImplements DEF InTime
<1>4. CASE Reboot
  BY <1>4, RebootImplements DEF Promises!Next
<1>5. CASE UNCHANGED vars
  BY <1>5, StartableStays DEF vars, hostVars, InWork, Promises!serviceVars
<1>6. ASSUME NEW p \in Projects, Silence(p)
      PROVE  Promises!Step(p) \/ UNCHANGED Promises!serviceVars
  BY <1>6, SilenceImplements
<1>7. QED
  BY <1>2, <1>3, <1>4, <1>5, <1>6 DEF Next, Promises!Next

LEMMA InitImplements == Init => Promises!Init
<1> SUFFICES ASSUME Init PROVE Promises!Init
  OBVIOUS
<1>1. Startable = [n \in Names |-> NoFile]
  BY DEF Init, HostInit, Startable, CanStart, Intact, Missing
<1>2. InWork = [p \in Projects |-> NoFile]
  BY DEF Init, InWork, NoJob
<1>3. QED
  BY <1>1, <1>2 DEF Init, HostInit, Quiet, Promises!Init, Promises!Nothing

\* Whatever is refused, edited or restarted, and however the commands of
\* projects with instances of their own interleave: a host is changed as
\* Service says, one thing of one's own instance at a time, and every report
\* is true when it is made.
THEOREM ServiceImplemented ==
  ASSUME DistinctNames, Undropped PROVE Spec => KeepsPromises
<1>1. Spec => [](TypeInv /\ InTime)
  BY InTimeInvariant
<1>2. QED
  BY <1>1, InitImplements, NextImplements, PTL DEF Spec, KeepsPromises, Promises!Spec

\* What is promised about an instance outlasts what is done to others, and a
\* boot.
LEMMA PromiseKept ==
  ASSUME NEW what, NEW n \in Names, Promises!Promised(what, n), Startable'[n] = Startable[n],
         n \in vpnOn' <=> n \in vpnOn, run'[n] = run[n]
  PROVE  Promises!Promised(what, n)'
BY DEF Promises!Promised, Promises!IsLive, Promises!IsUpdated, Promises!IsGone

LEMMA PromiseBoot ==
  ASSUME NEW what, NEW n \in Names, Promises!Promised(what, n), Promises!Boot
  PROVE  Promises!Promised(what, n)'
BY DEF Promises!Boot, Promises!Promised, Promises!IsLive, Promises!IsUpdated, Promises!IsGone

\* The states of Service in which a command holds an instance of its owner, who
\* was told of one, and nothing about the one that is being worked on.
Owning ==
  /\ run = [n \in Names |-> run[n]] /\ told = [p \in Projects |-> told[p]]
  /\ \A p \in Projects :
       /\ InWork[p] # NoFile => InWork[p] \in NamesOf(p) /\ told[p].what = "none"
       /\ told[p].what # "none" => told[p].name \in NamesOf(p)

LEMMA TouchFrame ==
  ASSUME Owning, NEW m \in Names, Promises!Touch(m), NEW n \in Names, n # m
  PROVE  /\ Startable'[n] = Startable[n]
         /\ n \in vpnOn' <=> n \in vpnOn
         /\ run'[n] = run[n]
<1>1. \A c : [Startable EXCEPT ![m] = c][n] = Startable[n]
  BY DEF Startable
<1>2. \A c : [run EXCEPT ![m] = c][n] = run[n]
  BY DEF Owning
<1>3. QED
  BY <1>1, <1>2 DEF Promises!Touch, Promises!Write, Promises!Switch, Promises!Start, Promises!Stop

LEMMA TouchOwning ==
  ASSUME Owning, NEW m \in Names, Promises!Touch(m)
  PROVE  run' = [n \in Names |-> run'[n]]
BY DEF Owning, Promises!Touch, Promises!Write, Promises!Switch, Promises!Start, Promises!Stop

\* A step of Service for one owner: his command begins, goes on or ends.
LEMMA ServiceStep ==
  ASSUME Owning, NEW p \in Projects, Promises!Step(p)
  PROVE  /\ \/ UNCHANGED <<Startable, vpnOn, run>>
            \/ InWork[p] # NoFile /\ Promises!Touch(InWork[p])
         /\ \/ \E n \in NamesOf(p) :
                 /\ InWork[p] = NoFile
                 /\ InWork' = [InWork EXCEPT ![p] = n]
                 /\ told' = [told EXCEPT ![p] = Quiet]
            \/ UNCHANGED <<InWork, told>>
            \/ \E what : /\ InWork[p] # NoFile
                         /\ InWork' = [InWork EXCEPT ![p] = NoFile]
                         /\ told' = [told EXCEPT ![p] = [what |-> what, name |-> InWork[p]]]
                         /\ \/ UNCHANGED <<Startable, vpnOn, run>> /\ Promises!Promised(what, InWork[p])
                            \/ what = "failed"
<1>1. ASSUME NEW n \in NamesOf(p), Promises!Begin(p, n)
      PROVE  /\ UNCHANGED <<Startable, vpnOn, run>> /\ InWork[p] = NoFile
             /\ InWork' = [InWork EXCEPT ![p] = n] /\ told' = [told EXCEPT ![p] = Quiet]
  BY <1>1 DEF Promises!Begin, Promises!host, Promises!Nothing, Quiet
<1>2. CASE Promises!Proceed(p)
  BY <1>2 DEF Promises!Proceed
<1>3. CASE Promises!Fail(p)
  BY <1>3 DEF Promises!Fail, Promises!Report, Promises!host
<1>4. ASSUME NEW what, Promises!Finish(p, what)
      PROVE  /\ UNCHANGED <<Startable, vpnOn, run>> /\ InWork[p] # NoFile
             /\ InWork' = [InWork EXCEPT ![p] = NoFile]
             /\ told' = [told EXCEPT ![p] = [what |-> what, name |-> InWork[p]]]
             /\ Promises!Promised(what, InWork[p])
  BY <1>4 DEF Promises!Finish, Promises!Report, Promises!host
<1>5. QED
  BY <1>1, <1>2, <1>3, <1>4 DEF Promises!Step

LEMMA OwningStep ==
  Owning /\ [Promises!Next]_(Promises!serviceVars) => Owning'
<1> SUFFICES ASSUME Owning, [Promises!Next]_(Promises!serviceVars) PROVE Owning'
  OBVIOUS
<1>1. ASSUME NEW p \in Projects, Promises!Step(p) PROVE Owning'
  <2>1. run' = [n \in Names |-> run'[n]]
    <3>1. InWork[p] # NoFile => InWork[p] \in Names
      BY NamesOfType DEF Owning
    <3>2. QED
      BY <1>1, <3>1, ServiceStep, TouchOwning DEF Owning
  <2>2. told' = told \/ \E x : told' = [told EXCEPT ![p] = x]
    BY <1>1, ServiceStep
  <2>3. told' = [q \in Projects |-> told'[q]]
    BY <2>2 DEF Owning
  <2>4. InWork' = InWork \/ \E n : InWork' = [InWork EXCEPT ![p] = n]
    BY <1>1, ServiceStep
  <2>5. InWork = [q \in Projects |-> InWork[q]]
    BY DEF InWork
  <2>6. ASSUME NEW q \in Projects, q # p
        PROVE  InWork'[q] = InWork[q] /\ told'[q] = told[q]
    BY <2>2, <2>4, <2>5, <2>6 DEF Owning
  <2>7. /\ InWork'[p] # NoFile => InWork'[p] \in NamesOf(p) /\ told'[p].what = "none"
        /\ told'[p].what # "none" => told'[p].name \in NamesOf(p)
    <3>1. CASE UNCHANGED <<InWork, told>>
      BY <3>1 DEF Owning
    <3>2. ASSUME NEW n \in NamesOf(p), InWork' = [InWork EXCEPT ![p] = n],
                 told' = [told EXCEPT ![p] = Quiet]
          PROVE  InWork'[p] = n /\ told'[p].what = "none"
      BY <2>5, <3>2 DEF Owning, Quiet
    <3>3. ASSUME NEW what, InWork[p] # NoFile, InWork' = [InWork EXCEPT ![p] = NoFile],
                 told' = [told EXCEPT ![p] = [what |-> what, name |-> InWork[p]]]
          PROVE  InWork'[p] = NoFile /\ told'[p].name \in NamesOf(p)
      BY <2>5, <3>3 DEF Owning
    <3>4. QED
      BY <1>1, <3>1, <3>2, <3>3, ServiceStep
  <2>8. QED
    BY <2>1, <2>3, <2>6, <2>7 DEF Owning
<1>2. CASE Promises!Boot
  BY <1>2 DEF Owning, Promises!Boot
<1>3. CASE UNCHANGED Promises!serviceVars
  BY <1>3 DEF Owning, Promises!serviceVars
<1>4. QED
  BY <1>1, <1>2, <1>3 DEF Promises!Next

LEMMA PromisesStep ==
  ASSUME DistinctNames, Owning, Promises!PromisesHold, [Promises!Next]_(Promises!serviceVars)
  PROVE  Promises!PromisesHold'
<1> USE DEF Promises!Promised, Promises!IsLive, Promises!IsUpdated, Promises!IsGone
<1>1. \A p \in Projects : Promises!Promised(told[p].what, told[p].name)
  BY DEF Promises!PromisesHold
<1>2. ASSUME NEW n \in Names, NEW what, Promises!Promised(what, n), UNCHANGED <<Startable, vpnOn, run>>
      PROVE  Promises!Promised(what, n)'
  BY <1>2, PromiseKept
<1>3. \A n, what : what \notin {"live", "updated", "cleaned"} => Promises!Promised(what, n)'
  BY DEF Promises!Promised
<1>4. ASSUME NEW p \in Projects, Promises!Step(p), NEW q \in Projects
      PROVE  Promises!Promised(told[q].what, told[q].name)'
  <2>1. InWork[p] # NoFile => InWork[p] \in NamesOf(p) /\ InWork[p] \in Names /\ told[p].what = "none"
    BY NamesOfType DEF Owning
  <2>2. told[q].what # "none" => told[q].name \in NamesOf(q) /\ told[q].name \in Names
    BY NamesOfType DEF Owning
  <2>3. CASE told'[q] = told[q]
    <3>1. CASE told[q].what = "none"
      BY <1>3, <2>3, <3>1
    <3>2. CASE told[q].what # "none"
      <4>1. CASE UNCHANGED <<Startable, vpnOn, run>>
        BY <1>1, <1>2, <2>2, <2>3, <3>2, <4>1
      <4>2. CASE InWork[p] # NoFile /\ Promises!Touch(InWork[p])
        <5>1. p # q /\ told[q].name # InWork[p]
          BY <2>1, <2>2, <3>2, <4>2 DEF DistinctNames
        <5>2. /\ Startable'[told[q].name] = Startable[told[q].name]
              /\ told[q].name \in vpnOn' <=> told[q].name \in vpnOn
              /\ run'[told[q].name] = run[told[q].name]
          BY <2>1, <2>2, <3>2, <4>2, <5>1, TouchFrame
        <5>3. QED
          BY <1>1, <2>2, <2>3, <3>2, <5>2, PromiseKept
      <4>3. QED
        BY <1>4, <4>1, <4>2, ServiceStep
    <3>3. QED
      BY <3>1, <3>2
  <2>4. CASE told'[q] # told[q]
    <3>1. q = p
      <4>1. told' = told \/ \E x : told' = [told EXCEPT ![p] = x]
        BY <1>4, ServiceStep
      <4>2. QED
        BY <2>4, <4>1 DEF Owning
    <3>2. ASSUME told' = [told EXCEPT ![p] = Quiet]
          PROVE  told'[p].what = "none"
      BY <3>2 DEF Owning, Quiet
    <3>3. ASSUME NEW what, told' = [told EXCEPT ![p] = [what |-> what, name |-> InWork[p]]]
          PROVE  told'[p].what = what /\ told'[p].name = InWork[p]
      BY <3>3 DEF Owning
    <3>4. CASE told' = [told EXCEPT ![p] = Quiet]
      BY <1>3, <3>1, <3>2, <3>4
    <3>5. ASSUME NEW what, NEW m, m = InWork[p], m # NoFile,
                 told' = [told EXCEPT ![p] = [what |-> what, name |-> InWork[p]]],
                 \/ UNCHANGED <<Startable, vpnOn, run>> /\ Promises!Promised(what, InWork[p])
                 \/ what = "failed"
          PROVE  Promises!Promised(told[q].what, told[q].name)'
      <4>1. Promises!Promised(what, m)'
        BY <1>2, <1>3, <2>1, <3>5
      <4>2. told'[q].what = what /\ told'[q].name = m
        BY <3>1, <3>3, <3>5
      <4>3. QED
        BY <4>1, <4>2
    <3>6. QED
      BY <1>4, <2>4, <3>1, <3>4, <3>5, ServiceStep
  <2>5. QED
    BY <2>3, <2>4
<1>5. ASSUME Promises!Boot, NEW q \in Projects
      PROVE  Promises!Promised(told[q].what, told[q].name)'
  <2>1. told' = told
    BY <1>5 DEF Promises!Boot
  <2>2. told[q].what # "none" => told[q].name \in Names
    BY NamesOfType DEF Owning
  <2>3. QED
    BY <1>1, <1>3, <1>5, <2>1, <2>2, PromiseBoot
<1>6. CASE UNCHANGED Promises!serviceVars
  BY <1>1, <1>6 DEF Promises!serviceVars, Promises!PromisesHold, Promises!Promised, Promises!IsLive,
     Promises!IsUpdated, Promises!IsGone
<1>7. QED
  BY <1>4, <1>5, <1>6 DEF Promises!Next, Promises!PromisesHold

\* What Service promises lasts: between the commands of a project, its last
\* report stays true whatever other projects do to instances of theirs and
\* however often the host boots.
THEOREM PromisesLast == ASSUME DistinctNames PROVE Promises!Spec => []Promises!PromisesHold
<1>1. Promises!Init => Owning /\ Promises!PromisesHold
  <2> SUFFICES ASSUME Promises!Init PROVE Owning /\ Promises!PromisesHold
    OBVIOUS
  <2>1. run = [n \in Names |-> NoFile] /\ told = [p \in Projects |-> Quiet]
        /\ InWork = [p \in Projects |-> NoFile]
    BY DEF Promises!Init, Promises!Nothing, Quiet
  <2>2. \A p \in Projects : InWork[p] = NoFile /\ told[p].what = "none"
    BY <2>1 DEF Quiet
  <2>3. run = [n \in Names |-> run[n]] /\ told = [p \in Projects |-> told[p]]
    BY <2>1
  <2>4. QED
    BY <2>2, <2>3 DEF Owning, Promises!PromisesHold, Promises!Promised
<1>2. Owning /\ Promises!PromisesHold /\ [Promises!Next]_(Promises!serviceVars)
        => Owning' /\ Promises!PromisesHold'
  BY OwningStep, PromisesStep
<1>3. QED
  BY <1>1, <1>2, PTL DEF Promises!Spec

\* So Deploy's reports last.
COROLLARY ReportsLast ==
  ASSUME DistinctNames, Undropped PROVE Spec => []Promises!PromisesHold
BY ServiceImplemented, PromisesLast, PTL DEF KeepsPromises
=============================================================================
