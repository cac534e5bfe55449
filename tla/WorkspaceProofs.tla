-------------------------- MODULE WorkspaceProofs --------------------------
(***************************************************************************)
(* Theorems about Workspace for every set of clients, every set of         *)
(* settings and every bound, proved by TLAPS.                              *)
(***************************************************************************)
EXTENDS Workspace, TLAPS

\* An idle program holds nothing in memory.
LEMMA NoJobType == NoJob \in Jobs
<1>1. NoPair \in Pairs
  BY DEF NoPair, Pairs, Missing
<1>2. [ca |-> NoFile, tls |-> NoFile]
        \in [ca : Certs \union Missing, tls : Keys \union Missing]
  BY DEF Missing
<1>3. QED
  BY <1>1, <1>2 DEF NoJob, Jobs, Missing, Owners

\* Every command but clean has a configuration in memory: the one it will
\* save, or the one it builds.
ConfigHeld == pc \notin {"idle", "clean_dist"} => job.cfg \in Configs

TypeInv == TypeOK /\ ConfigHeld

\* The start of each command is typed.
LEMMA StartType == TypeInv /\ Start => TypeInv'
<1> SUFFICES ASSUME TypeInv, Start PROVE TypeInv'
  OBVIOUS
<1> USE NoJobType DEF TypeInv, TypeOK, ConfigHeld, Pcs, InitPcs, EditPcs, CleanPcs, BuildPcs
<1>1. ASSUME NEW force \in BOOLEAN, NEW s \in Settings, InitStart(force, s)
      PROVE  TypeInv'
  <2>1. [server |-> s, clients |-> {}] \in Configs
    BY DEF Configs
  <2>2. QED
    BY <1>1, <2>1 DEF InitStart, Jobs, disk
<1>2. ASSUME NEW new \in Configs, Edit(new)
      PROVE  TypeInv'
  BY <1>2 DEF Edit, Jobs, disk
<1>3. ASSUME NEW s \in Settings, ConfigSet(s)
      PROVE  TypeInv'
  <2>1. [cfg EXCEPT !.server = s] \in Configs
    BY <1>3 DEF ConfigSet, ConfigLoads, Intact, Configs
  <2>2. QED
    BY <1>2, <1>3, <2>1 DEF ConfigSet
<1>4. ASSUME NEW n \in Clients, ClientAdd(n)
      PROVE  TypeInv'
  <2>1. [cfg EXCEPT !.clients = @ \union {n}] \in Configs
    BY <1>4 DEF ClientAdd, ConfigLoads, Intact, Configs
  <2>2. QED
    BY <1>2, <1>4, <2>1 DEF ClientAdd
<1>5. ASSUME NEW n \in Clients, ClientRemove(n)
      PROVE  TypeInv'
  <2>1. [cfg EXCEPT !.clients = @ \ {n}] \in Configs
    BY <1>5 DEF ClientRemove, ConfigLoads, Intact, Configs
  <2>2. QED
    BY <1>2, <1>5, <2>1 DEF ClientRemove
<1>6. CASE BuildStart
  <2>1. [crt |-> crt[CA], key |-> key[CA]] \in Pairs
    BY DEF Pairs, Owners
  <2>2. cfg \in Configs
    BY <1>6 DEF BuildStart, ConfigLoads, Intact
  <2>3. cfg.clients \in SUBSET Clients
    BY <2>2 DEF Configs
  <2>4. QED
    BY <1>6, <2>1, <2>2, <2>3 DEF BuildStart, Jobs, disk
<1>7. CASE CleanLocalStart
  BY <1>7 DEF CleanLocalStart, disk
<1>8. QED
  BY <1>1, <1>3, <1>4, <1>5, <1>6, <1>7 DEF Start

\* A command that stops with an error is typed.
LEMMA FailType == TypeInv /\ Fail => TypeInv'
  BY NoJobType DEF TypeInv, TypeOK, ConfigHeld, Fail, Halt, disk, Pcs

\* Each step of init, and the save of an edit, is typed.
LEMMA InitStepType == TypeInv /\ InitStep => TypeInv'
<1> SUFFICES ASSUME TypeInv, InitStep PROVE TypeInv'
  OBVIOUS
<1> USE NoJobType DEF TypeInv, TypeOK, ConfigHeld, Pcs, InitPcs, EditPcs, CleanPcs, BuildPcs
<1>1. CASE InitClear
  BY <1>1 DEF InitClear, Missing
<1>2. CASE InitCleared
  BY <1>2 DEF InitCleared, disk
<1>3. CASE InitGenerate
  <2>1. [crt |-> [id |-> fresh, ca |-> fresh], key |-> fresh] \in Pairs
    BY DEF Pairs, Certs, Keys
  <2>2. fresh + 1 \in Keys
    BY DEF Keys
  <2>3. QED
    BY <1>3, <2>1, <2>2 DEF InitGenerate, Jobs, disk
<1>4. CASE InitGenerateFails
  BY <1>4, FailType DEF InitGenerateFails
<1>5. CASE SaveCaCrt
  BY <1>5 DEF SaveCaCrt, Written, Proceed, Halt, Missing, Jobs, Pairs, Owners
<1>6. CASE SaveCaKey
  BY <1>6 DEF SaveCaKey, Written, Proceed, Halt, Missing, Jobs, Pairs, Owners
<1>7. CASE SaveConfig
  BY <1>7 DEF SaveConfig, Written, Halt, Missing, Jobs
<1>8. QED
  BY <1>1, <1>2, <1>3, <1>4, <1>5, <1>6, <1>7 DEF InitStep

\* The two halves of issuing a pair.
LEMMA IssueCrtType ==
  ASSUME TypeInv, pc \in BuildPcs, NEW o \in Owners, NEW next \in BuildPcs, IssueCrt(o, next)
  PROVE  TypeInv'
<1> USE NoJobType DEF TypeInv, TypeOK, ConfigHeld, Pcs, InitPcs, EditPcs, CleanPcs, BuildPcs
<1>1. job.ca.key \in Keys
  BY DEF IssueCrt, CanIssue, Intact, Jobs, Pairs
<1>2. NewLeaf \in Pairs /\ NewLeaf.crt \in Certs
  BY <1>1 DEF NewLeaf, Pairs, Certs, Keys
<1>3. [job EXCEPT !.leaf = NewLeaf, !.who = o] \in Jobs
  BY <1>2 DEF Jobs
<1>4. [job EXCEPT !.leaf = NewLeaf, !.who = o].cfg = job.cfg
  BY DEF Jobs
<1>5. fresh + 1 \in Keys
  BY DEF Keys
<1>6. QED
  BY <1>2, <1>3, <1>4, <1>5 DEF IssueCrt, Written, Proceed, Halt, Missing

\* The second file of a pair is typed, whoever owns it.
LEMMA WriteKeyType ==
  ASSUME TypeInv, NEW at \in BuildPcs, NEW next \in BuildPcs, WriteKey(at, next)
  PROVE  TypeInv'
<1> USE NoJobType DEF TypeInv, TypeOK, ConfigHeld, Pcs, InitPcs, EditPcs, CleanPcs, BuildPcs
<1>1. QED
  BY DEF WriteKey, Written, Proceed, Halt, Missing, Jobs, Pairs

\* Each step of clean and of the first half of build is typed.
LEMMA BuildServerStepType == TypeInv /\ BuildServerStep => TypeInv'
<1> SUFFICES ASSUME TypeInv, BuildServerStep PROVE TypeInv'
  OBVIOUS
<1> USE NoJobType DEF TypeInv, TypeOK, ConfigHeld, Pcs, InitPcs, EditPcs, CleanPcs, BuildPcs
<1>1. CASE RemoveDist
  BY <1>1 DEF RemoveDist, DistFiles, DistServer, Missing
<1>2. CASE CleanLocalDone
  BY <1>2, FailType DEF CleanLocalDone
<1>3. CASE BuildDistRemoved
  BY <1>3 DEF BuildDistRemoved, disk
<1>4. CASE IssueServer
  BY <1>4, IssueCrtType DEF IssueServer, Owners
<1>5. CASE IssueServerFails
  BY <1>5, FailType DEF IssueServerFails
<1>6. CASE ReuseServer
  BY <1>6 DEF ReuseServer, disk
<1>7. CASE WriteServerKey
  BY <1>7, WriteKeyType DEF WriteServerKey
<1>8. CASE MakeTlsCrypt
  BY <1>8 DEF MakeTlsCrypt, Written, Proceed, Halt, Missing, Keys
<1>9. CASE ReuseTlsCrypt
  BY <1>9 DEF ReuseTlsCrypt, disk
<1>10. CASE WriteConf
  <2>1. job.cfg.server \in Settings
    BY <1>10 DEF WriteConf, Configs
  <2>2. \A torn : [dist EXCEPT !.conf = Written(torn, job.cfg.server)] \in DistServer
    BY <2>1 DEF DistServer, Written, Missing
  <2>3. QED
    BY <1>10, <2>2 DEF WriteConf, WriteDist, Proceed, Halt
<1>11. CASE WriteConfFails
  BY <1>11, FailType DEF WriteConfFails
<1>12. CASE CopyCa
  <2>1. \A torn : [dist EXCEPT !.ca = Written(torn, crt[CA])] \in DistServer
    BY DEF DistServer, Written, Missing, Owners
  <2>2. QED
    BY <1>12, <2>1, FailType DEF CopyCa, Copy, WriteDist, Proceed, Halt
<1>13. CASE CopyCrt
  <2>1. \A torn : [dist EXCEPT !.crt = Written(torn, crt[Server])] \in DistServer
    BY DEF DistServer, Written, Missing, Owners
  <2>2. QED
    BY <1>13, <2>1, FailType DEF CopyCrt, Copy, WriteDist, Proceed, Halt
<1>14. CASE CopyKey
  <2>1. \A torn : [dist EXCEPT !.key = Written(torn, key[Server])] \in DistServer
    BY DEF DistServer, Written, Missing, Owners
  <2>2. QED
    BY <1>14, <2>1, FailType DEF CopyKey, Copy, WriteDist, Proceed, Halt
<1>15. CASE CopyTls
  <2>1. \A torn : [dist EXCEPT !.tls = Written(torn, tls)] \in DistServer
    BY DEF DistServer, Written, Missing
  <2>2. QED
    BY <1>15, <2>1, FailType DEF CopyTls, Copy, WriteDist, Proceed, Halt
<1>16. QED
  BY <1>1, <1>2, <1>3, <1>4, <1>5, <1>6, <1>7, <1>8, <1>9, <1>10, <1>11, <1>12,
     <1>13, <1>14, <1>15 DEF BuildServerStep

\* Each step of the second half of build is typed.
LEMMA BuildClientStepType == TypeInv /\ BuildClientStep => TypeInv'
<1> SUFFICES ASSUME TypeInv, BuildClientStep PROVE TypeInv'
  OBVIOUS
<1> USE NoJobType DEF TypeInv, TypeOK, ConfigHeld, Pcs, InitPcs, EditPcs, CleanPcs, BuildPcs
<1>1. CASE ReadShared
  BY <1>1 DEF ReadShared, disk, Jobs, Owners
<1>2. ASSUME NEW n \in Clients, IssueClient(n)
      PROVE  TypeInv'
  BY <1>2, IssueCrtType DEF IssueClient, Owners
<1>3. ASSUME NEW n \in Clients, ReuseClient(n)
      PROVE  TypeInv'
  BY <1>3 DEF ReuseClient, disk, Jobs, Pairs, Owners
<1>4. ASSUME NEW n \in Clients, ClientFails(n)
      PROVE  TypeInv'
  BY <1>4, FailType DEF ClientFails
<1>5. CASE WriteClientKey
  BY <1>5, WriteKeyType DEF WriteClientKey
<1>6. CASE WriteOvpn
  <2> DEFINE profile == [ca |-> job.shared.ca, tls |-> job.shared.tls,
                         crt |-> job.leaf.crt, key |-> job.leaf.key,
                         server |-> job.cfg.server]
  <2>1. profile \in Profiles
    BY <1>6 DEF WriteOvpn, Profiles, Jobs, Pairs, Configs
  <2>2. PICK torn \in Tearing :
          /\ ovpn' = [ovpn EXCEPT ![job.who] = Written(torn, profile)]
          /\ Proceed(torn, "clients", [job EXCEPT !.todo = @ \ {job.who}])
    BY <1>6 DEF WriteOvpn
  <2>3. ovpn' \in [Clients -> Profiles \union Missing]
    BY <2>1, <2>2 DEF Written, Missing
  <2>4. job' \in Jobs /\ pc' \in {"idle", "clients"} /\ (pc' = "clients" => job'.cfg = job.cfg)
    BY <2>2 DEF Proceed, Halt, Jobs
  <2>5. QED
    BY <1>6, <2>3, <2>4 DEF WriteOvpn
<1>7. CASE WriteStamp
  <2>1. \A torn : [dist EXCEPT !.stamp = Written(torn, "built")] \in DistServer
    BY DEF DistServer, Written, Missing
  <2>2. QED
    BY <1>7, <2>1 DEF WriteStamp, Halt
<1>8. QED
  BY <1>1, <1>2, <1>3, <1>4, <1>5, <1>6, <1>7 DEF BuildClientStep

\* An empty directory is typed.
LEMMA InitType == Init => TypeInv
  BY NoJobType DEF Init, TypeInv, TypeOK, ConfigHeld, NoDist, DistServer, Missing, Keys, Pcs

\* TypeInv is inductive.
LEMMA NextType == TypeInv /\ [Next]_vars => TypeInv'
<1> SUFFICES ASSUME TypeInv, [Next]_vars PROVE TypeInv'
  OBVIOUS
<1>1. CASE Start
  BY <1>1, StartType
<1>2. CASE Step
  BY <1>2, InitStepType, BuildServerStepType, BuildClientStepType DEF Step
<1>3. CASE Abort
  BY <1>3, FailType DEF Abort
<1>4. CASE UNCHANGED vars
  BY <1>4 DEF vars, TypeInv, TypeOK, ConfigHeld
<1>5. QED
  BY <1>1, <1>2, <1>3, <1>4 DEF Next

\* Type correctness: files, memory and control stay within their types.
THEOREM TypeCorrect == Spec => []TypeOK
<1>1. TypeInv => TypeOK
  BY DEF TypeInv
<1>2. QED
  BY <1>1, InitType, NextType, PTL DEF Spec

-----------------------------------------------------------------------------
(* SameBuild.  A build empties dist/ before it writes, and from then on     *)
(* every file it has written is a copy of what is still in pki/ and of the  *)
(* configuration it holds.  No step of another kind writes under dist/.     *)

BeforeCopies == {"server_crt", "server_key", "tls", "conf"}
Copies == {"copy_ca", "copy_crt", "copy_key", "copy_tls", "shared"}
Serving == {"clients", "client_key", "ovpn"}

NothingBuilt == pc \in BeforeCopies => DistCleared
NoProfileYet == pc \in Copies => \A n \in Clients : ovpn[n] = NoFile
ServerMatches ==
  /\ pc \in Copies \union Serving => dist.conf = job.cfg.server
  /\ pc \in (Copies \ {"copy_ca"}) \union Serving => dist.ca = crt[CA]
  /\ pc \in {"shared"} \union Serving => dist.tls = tls
  /\ pc \in Serving => job.shared.ca = crt[CA] /\ job.shared.tls = tls
ProfilesMatch ==
  pc \in Serving => \A n \in Clients : Intact(ovpn[n]) =>
    ovpn[n].ca = crt[CA] /\ ovpn[n].tls = tls /\ ovpn[n].server = job.cfg.server

DistInv == NothingBuilt /\ NoProfileYet /\ ServerMatches /\ ProfilesMatch /\ SameBuild

\* A step that leaves dist/ alone and ends, or starts, a command.
LEMMA DistStays ==
  ASSUME DistInv, dist' = dist, ovpn' = ovpn,
         pc' \notin BeforeCopies \union Copies \union Serving
  PROVE  DistInv'
<1>1. SameBuild'
  BY DEF DistInv, SameBuild, Intact
<1>2. QED
  BY <1>1 DEF DistInv, NothingBuilt, NoProfileYet, ServerMatches, ProfilesMatch,
              BeforeCopies, Copies, Serving

\* An error leaves dist/ as it is.
LEMMA FailDist == DistInv /\ Fail => DistInv'
  BY DistStays DEF Fail, Halt, disk, BeforeCopies, Copies, Serving

\* No command but build and clean starts on dist/, and they start by removing it.
LEMMA StartDist == DistInv /\ Start => DistInv'
<1> SUFFICES ASSUME DistInv, Start PROVE DistInv'
  OBVIOUS
<1>1. dist' = dist /\ ovpn' = ovpn
  BY DEF Start, InitStart, ConfigSet, ClientAdd, ClientRemove, Edit, BuildStart,
         CleanLocalStart, disk
<1>2. pc' \in {"init_clear", "init_ca", "edit_cfg", "build_dist", "clean_dist"}
  BY DEF Start, InitStart, ConfigSet, ClientAdd, ClientRemove, Edit, BuildStart,
         CleanLocalStart
<1>3. QED
  BY <1>1, <1>2, DistStays DEF BeforeCopies, Copies, Serving

\* init and the edits do not touch dist/.
LEMMA InitStepDist == DistInv /\ InitStep => DistInv'
<1> SUFFICES ASSUME DistInv, InitStep PROVE DistInv'
  OBVIOUS
<1>1. dist' = dist /\ ovpn' = ovpn
  BY DEF InitStep, InitClear, InitCleared, InitGenerate, InitGenerateFails, SaveCaCrt,
         SaveCaKey, SaveConfig, Fail, disk
<1>2. pc' \in {"idle", "init_clear", "init_ca", "ca_crt", "ca_key", "init_cfg"}
  BY DEF InitStep, InitClear, InitCleared, InitGenerate, InitGenerateFails, SaveCaCrt,
         SaveCaKey, SaveConfig, Fail, Halt, Proceed
<1>3. QED
  BY <1>1, <1>2, DistStays DEF BeforeCopies, Copies, Serving

\* Certificates and keys are written before the copies, or for a client; the
\* files the copies are taken from do not change under them.
LEMMA IssueCrtDist ==
  ASSUME TypeInv, DistInv, NEW o \in Leaves, NEW next, IssueCrt(o, next),
         \/ pc \in BeforeCopies /\ next \in BeforeCopies
         \/ pc \in Serving /\ next \in Serving
  PROVE  DistInv'
<1> USE DEF DistInv, NothingBuilt, NoProfileYet, ServerMatches, ProfilesMatch,
            BeforeCopies, Copies, Serving
<1>1. dist' = dist /\ ovpn' = ovpn /\ tls' = tls
  BY DEF IssueCrt
<1>2. crt'[CA] = crt[CA]
  BY OwnersAssumption DEF IssueCrt, TypeInv, TypeOK, Leaves, Owners
<1>3. CASE pc' = "idle"
  BY <1>1, <1>3, DistStays
<1>4. CASE pc' = next /\ job' = [job EXCEPT !.leaf = NewLeaf, !.who = o]
  <2>1. job'.cfg = job.cfg /\ job'.shared = job.shared
    BY <1>4 DEF TypeInv, TypeOK, Jobs
  <2>2. SameBuild'
    BY <1>1 DEF SameBuild, Intact
  <2>3. QED
    BY <1>1, <1>2, <1>4, <2>1, <2>2 DEF DistCleared, Intact
<1>5. QED
  BY <1>3, <1>4 DEF IssueCrt, Proceed, Halt

\* Writing a key does not touch dist/ and moves the build on.
LEMMA WriteKeyDist ==
  ASSUME DistInv, NEW at, NEW next, WriteKey(at, next),
         \/ pc \in BeforeCopies /\ next \in BeforeCopies
         \/ pc \in Serving /\ next \in Serving
  PROVE  DistInv'
<1> USE DEF DistInv, NothingBuilt, NoProfileYet, ServerMatches, ProfilesMatch,
            BeforeCopies, Copies, Serving
<1>1. dist' = dist /\ ovpn' = ovpn /\ tls' = tls /\ crt' = crt
  BY DEF WriteKey
<1>2. CASE pc' = "idle"
  BY <1>1, <1>2, DistStays
<1>3. CASE pc' = next /\ job' = job
  <2>1. SameBuild'
    BY <1>1 DEF SameBuild, Intact
  <2>2. QED
    BY <1>1, <1>3, <2>1 DEF DistCleared, Intact
<1>4. QED
  BY <1>2, <1>3 DEF WriteKey, Proceed, Halt

\* Before there is a client profile any file of dist/server may be written.
LEMMA NoProfileSameBuild ==
  ASSUME \A n \in Clients : ovpn'[n] = NoFile
  PROVE  SameBuild'
  BY DEF SameBuild, Intact, Missing

\* The removal of dist/ and the files of dist/server keep DistInv.
LEMMA BuildServerStepDist == TypeInv /\ DistInv /\ BuildServerStep => DistInv'
<1> SUFFICES ASSUME TypeInv, DistInv, BuildServerStep PROVE DistInv'
  OBVIOUS
<1> USE DEF DistInv, NothingBuilt, NoProfileYet, ServerMatches, ProfilesMatch,
            BeforeCopies, Copies, Serving
<1>1. CASE RemoveDist
  <2>1. SameBuild'
    BY <1>1 DEF RemoveDist, SameBuild, Intact, Missing, DistFiles, TypeInv, TypeOK, DistServer
  <2>2. QED
    BY <1>1, <2>1 DEF RemoveDist
<1>2. CASE CleanLocalDone
  BY <1>2, FailDist DEF CleanLocalDone
<1>3. CASE BuildDistRemoved
  <2>1. SameBuild'
    BY <1>3, NoProfileSameBuild DEF BuildDistRemoved, DistCleared, disk
  <2>2. QED
    BY <1>3, <2>1 DEF BuildDistRemoved, DistCleared, disk
<1>4. CASE IssueServer
  BY <1>4, IssueCrtDist DEF IssueServer, Leaves
<1>5. CASE IssueServerFails
  BY <1>5, FailDist DEF IssueServerFails
<1>6. CASE ReuseServer
  <2>1. SameBuild'
    BY <1>6 DEF ReuseServer, disk, SameBuild, Intact
  <2>2. QED
    BY <1>6, <2>1 DEF ReuseServer, disk, DistCleared
<1>7. CASE WriteServerKey
  <2>1. pc = "server_key"
    BY <1>7 DEF WriteServerKey, WriteKey
  <2>2. QED
    BY <1>7, <2>1, WriteKeyDist DEF WriteServerKey
<1>8. CASE MakeTlsCrypt
  <2>1. dist' = dist /\ ovpn' = ovpn /\ pc' \in {"idle", "conf"}
    BY <1>8 DEF MakeTlsCrypt, Proceed, Halt
  <2>2. DistCleared'
    BY <1>8, <2>1 DEF MakeTlsCrypt, DistCleared
  <2>3. SameBuild'
    BY <2>2, NoProfileSameBuild DEF DistCleared
  <2>4. QED
    BY <2>1, <2>2, <2>3
<1>9. CASE ReuseTlsCrypt
  <2>1. SameBuild'
    BY <1>9 DEF ReuseTlsCrypt, disk, SameBuild, Intact
  <2>2. QED
    BY <1>9, <2>1 DEF ReuseTlsCrypt, disk, DistCleared
<1>10. CASE WriteConf
  <2>1. PICK torn \in Tearing :
          /\ dist' = [dist EXCEPT !.conf = Written(torn, job.cfg.server)]
          /\ Proceed(torn, "copy_ca", job)
    BY <1>10 DEF WriteConf, WriteDist
  <2>2. \A n \in Clients : ovpn'[n] = NoFile
    BY <1>10 DEF WriteConf, WriteDist, DistCleared
  <2>3. SameBuild'
    BY <2>2, NoProfileSameBuild
  <2>4. dist'.conf = Written(torn, job.cfg.server)
    BY <2>1 DEF TypeInv, TypeOK, DistServer
  <2>5. QED
    BY <2>1, <2>2, <2>3, <2>4 DEF Proceed, Halt, Written
<1>11. CASE WriteConfFails
  BY <1>11, FailDist DEF WriteConfFails
<1>12. CASE CopyCa
  <2>1. CASE Fail
    BY <2>1, FailDist
  <2>2. CASE WriteDist("ca", crt[CA], "copy_crt")
    BY <1>12, <2>2, NoProfileSameBuild
    DEF CopyCa, Copy, WriteDist, Written, Proceed, Halt, TypeInv, TypeOK, DistServer
  <2>3. QED
    BY <1>12, <2>1, <2>2 DEF CopyCa, Copy
<1>13. CASE CopyCrt
  <2>1. CASE Fail
    BY <2>1, FailDist
  <2>2. CASE WriteDist("crt", crt[Server], "copy_key")
    BY <1>13, <2>2, NoProfileSameBuild
    DEF CopyCrt, Copy, WriteDist, Written, Proceed, Halt, TypeInv, TypeOK, DistServer
  <2>3. QED
    BY <1>13, <2>1, <2>2 DEF CopyCrt, Copy
<1>14. CASE CopyKey
  <2>1. CASE Fail
    BY <2>1, FailDist
  <2>2. CASE WriteDist("key", key[Server], "copy_tls")
    BY <1>14, <2>2, NoProfileSameBuild
    DEF CopyKey, Copy, WriteDist, Written, Proceed, Halt, TypeInv, TypeOK, DistServer
  <2>3. QED
    BY <1>14, <2>1, <2>2 DEF CopyKey, Copy
<1>15. CASE CopyTls
  <2>1. CASE Fail
    BY <2>1, FailDist
  <2>2. CASE WriteDist("tls", tls, "shared")
    BY <1>15, <2>2, NoProfileSameBuild
    DEF CopyTls, Copy, WriteDist, Written, Proceed, Halt, TypeInv, TypeOK, DistServer
  <2>3. QED
    BY <1>15, <2>1, <2>2 DEF CopyTls, Copy
<1>16. QED
  BY <1>1, <1>2, <1>3, <1>4, <1>5, <1>6, <1>7, <1>8, <1>9, <1>10, <1>11,
     <1>12, <1>13, <1>14, <1>15 DEF BuildServerStep

\* The client profiles and the stamp keep DistInv.
LEMMA BuildClientStepDist == TypeInv /\ DistInv /\ BuildClientStep => DistInv'
<1> SUFFICES ASSUME TypeInv, DistInv, BuildClientStep PROVE DistInv'
  OBVIOUS
<1> USE DEF DistInv, NothingBuilt, NoProfileYet, ServerMatches, ProfilesMatch,
            BeforeCopies, Copies, Serving
<1>1. CASE ReadShared
  <2>1. job'.cfg = job.cfg /\ job'.shared = [ca |-> crt[CA], tls |-> tls]
    BY <1>1 DEF ReadShared, TypeInv, TypeOK, Jobs
  <2>2. \A n \in Clients : ovpn'[n] = NoFile
    BY <1>1 DEF ReadShared, disk
  <2>3. QED
    BY <1>1, <2>1, <2>2, NoProfileSameBuild DEF ReadShared, disk, Intact, Missing
<1>2. ASSUME NEW n \in Clients, IssueClient(n)
      PROVE  DistInv'
  BY <1>2, IssueCrtDist DEF IssueClient, Leaves
<1>3. ASSUME NEW n \in Clients, ReuseClient(n)
      PROVE  DistInv'
  <2>1. job'.cfg = job.cfg /\ job'.shared = job.shared
    BY <1>3 DEF ReuseClient, TypeInv, TypeOK, Jobs
  <2>2. SameBuild'
    BY <1>3 DEF ReuseClient, disk, SameBuild, Intact
  <2>3. QED
    BY <1>3, <2>1, <2>2 DEF ReuseClient, disk, Intact
<1>4. ASSUME NEW n \in Clients, ClientFails(n)
      PROVE  DistInv'
  BY <1>4, FailDist DEF ClientFails
<1>5. CASE WriteClientKey
  <2>1. pc = "client_key"
    BY <1>5 DEF WriteClientKey, WriteKey
  <2>2. QED
    BY <1>5, <2>1, WriteKeyDist DEF WriteClientKey
<1>6. CASE WriteOvpn
  <2> DEFINE profile == [ca |-> job.shared.ca, tls |-> job.shared.tls,
                         crt |-> job.leaf.crt, key |-> job.leaf.key,
                         server |-> job.cfg.server]
  <2>1. PICK torn \in Tearing :
          /\ ovpn' = [ovpn EXCEPT ![job.who] = Written(torn, profile)]
          /\ Proceed(torn, "clients", [job EXCEPT !.todo = @ \ {job.who}])
    BY <1>6 DEF WriteOvpn
  <2>2. pc = "ovpn" /\ crt' = crt /\ tls' = tls /\ dist' = dist
    BY <1>6 DEF WriteOvpn
  <2>3. \A n \in Clients : Intact(ovpn'[n]) =>
          /\ ovpn'[n].ca = crt[CA]
          /\ ovpn'[n].tls = tls
          /\ ovpn'[n].server = job.cfg.server
    <3> SUFFICES ASSUME NEW n \in Clients, Intact(ovpn'[n])
                 PROVE  /\ ovpn'[n].ca = crt[CA]
                        /\ ovpn'[n].tls = tls
                        /\ ovpn'[n].server = job.cfg.server
      OBVIOUS
    <3>1. CASE n = job.who
      BY <2>1, <2>2, <3>1 DEF Written, Intact, Missing, TypeInv, TypeOK
    <3>2. CASE n # job.who
      BY <2>1, <2>2, <3>2 DEF Intact, TypeInv, TypeOK
    <3>3. QED
      BY <3>1, <3>2
  <2>4. SameBuild'
    BY <2>2, <2>3 DEF SameBuild, Intact
  <2>5. CASE pc' = "idle"
    BY <2>4, <2>5
  <2>6. CASE pc' = "clients" /\ job' = [job EXCEPT !.todo = @ \ {job.who}]
    <3>1. job'.cfg = job.cfg /\ job'.shared = job.shared
      BY <2>6 DEF TypeInv, TypeOK, Jobs
    <3>2. QED
      BY <2>2, <2>3, <2>4, <2>6, <3>1 DEF Intact
  <2>7. QED
    BY <2>1, <2>5, <2>6 DEF Proceed, Halt
<1>7. CASE WriteStamp
  <2>1. /\ dist'.ca = dist.ca /\ dist'.tls = dist.tls /\ dist'.conf = dist.conf
        /\ ovpn' = ovpn /\ pc' = "idle"
    BY <1>7 DEF WriteStamp, Halt, TypeInv, TypeOK, DistServer
  <2>2. SameBuild'
    BY <2>1 DEF SameBuild, Intact
  <2>3. QED
    BY <2>1, <2>2
<1>8. QED
  BY <1>1, <1>2, <1>3, <1>4, <1>5, <1>6, <1>7 DEF BuildClientStep

\* DistInv holds throughout.
LEMMA DistInvariant == Spec => [](TypeInv /\ DistInv)
<1>1. Init => TypeInv /\ DistInv
  <2> SUFFICES ASSUME Init PROVE TypeInv /\ DistInv
    OBVIOUS
  <2>1. TypeInv
    BY InitType
  <2>2. DistInv
    BY DEF Init, DistInv, NothingBuilt, NoProfileYet, ServerMatches, ProfilesMatch,
           SameBuild, Intact, Missing, BeforeCopies, Copies, Serving
  <2>3. QED
    BY <2>1, <2>2
<1>2. TypeInv /\ DistInv /\ [Next]_vars => TypeInv' /\ DistInv'
  <2> SUFFICES ASSUME TypeInv, DistInv, [Next]_vars PROVE DistInv'
    BY NextType
  <2>1. CASE Start
    BY <2>1, StartDist
  <2>2. CASE Step
    BY <2>2, InitStepDist, BuildServerStepDist, BuildClientStepDist DEF Step
  <2>3. CASE Abort
    BY <2>3, FailDist DEF Abort
  <2>4. CASE UNCHANGED vars
    BY <2>4 DEF vars, DistInv, NothingBuilt, NoProfileYet, ServerMatches, ProfilesMatch,
                SameBuild, DistCleared, Intact
  <2>5. QED
    BY <2>1, <2>2, <2>3, <2>4 DEF Next
<1>3. QED
  BY <1>1, <1>2, PTL DEF Spec

\* Whichever commands are interrupted, and wherever, the files found under
\* dist/ come from one build.
THEOREM DistOfOneBuild == Spec => []SameBuild
<1>1. DistInv => SameBuild
  BY DEF DistInv
<1>2. QED
  BY <1>1, DistInvariant, PTL

-----------------------------------------------------------------------------
(* IssuedStays.  IssueCrt and MakeTlsCrypt look before they write; WriteKey  *)
(* does not.  What it needs is that the certificate it completes was issued  *)
(* a step ago for a key no file holds yet, and that keys are generated once. *)

KeysOld ==
  /\ \A o \in Owners : Intact(key[o]) => key[o] < fresh
  /\ Intact(job.ca.key) => job.ca.key < fresh
  /\ Intact(job.leaf.key) => job.leaf.key < fresh

HalfIssued == pc \in {"server_key", "client_key"} => ~HasPair(job.who)

PairInv == KeysOld /\ HalfIssued

\* An idle program holds no key.
LEMMA NoJobKeys == ~Intact(NoJob.ca.key) /\ ~Intact(NoJob.leaf.key)
  BY DEF NoJob, NoPair, Intact, Missing

\* An error leaves the pairs as they are.
LEMMA FailPair == TypeInv /\ PairInv /\ Fail => PairInv'
<1> SUFFICES ASSUME TypeInv, PairInv, Fail PROVE PairInv'
  OBVIOUS
<1>1. key' = key /\ fresh' = fresh /\ job' = NoJob /\ pc' = "idle"
  BY DEF Fail, Halt, disk
<1>2. QED
  BY <1>1, NoJobKeys DEF PairInv, KeysOld, HalfIssued, Intact

\* Starting a command issues nothing.
LEMMA StartPair == TypeInv /\ PairInv /\ Start => PairInv'
<1> SUFFICES ASSUME TypeInv, PairInv, Start PROVE PairInv'
  OBVIOUS
<1>1. key' = key /\ fresh' = fresh /\ pc' \notin {"server_key", "client_key"}
  BY DEF Start, InitStart, ConfigSet, ClientAdd, ClientRemove, Edit, BuildStart,
         CleanLocalStart, disk
<1>2. /\ Intact(job'.ca.key) => job'.ca.key \in {job.ca.key, key[CA]}
      /\ Intact(job'.leaf.key) => job'.leaf.key = job.leaf.key
  <2>1. CASE BuildStart
    BY <2>1, NoJobKeys DEF BuildStart, NoJob, NoPair
  <2>2. CASE CleanLocalStart
    BY <2>2 DEF CleanLocalStart
  <2>3. ASSUME NEW c, job' = [NoJob EXCEPT !.cfg = c]
        PROVE  job'.ca.key = NoFile /\ job'.leaf.key = NoFile
    BY <2>3 DEF NoJob, NoPair
  <2>4. QED
    BY <2>1, <2>2, <2>3 DEF Start, InitStart, ConfigSet, ClientAdd, ClientRemove, Edit,
                            Intact, Missing
<1>3. CA \in Owners
  BY DEF Owners
<1>4. QED
  BY <1>1, <1>2, <1>3 DEF PairInv, KeysOld, HalfIssued, Intact

\* A new CA takes a new key; the removal of pki/ only takes pairs away.
LEMMA InitStepPair == TypeInv /\ PairInv /\ InitStep => PairInv'
<1> SUFFICES ASSUME TypeInv, PairInv, InitStep PROVE PairInv'
  OBVIOUS
<1> USE DEF PairInv, KeysOld, HalfIssued, Intact, Missing, TypeInv, TypeOK
<1>1. CASE InitClear
  BY <1>1 DEF InitClear
<1>2. CASE InitCleared
  BY <1>2 DEF InitCleared, disk
<1>3. CASE InitGenerate
  <2>1. job'.ca.key = fresh /\ job'.leaf = job.leaf
    BY <1>3 DEF InitGenerate, Jobs
  <2>2. QED
    BY <1>3, <2>1 DEF InitGenerate, disk, Keys, Jobs, Pairs
<1>4. CASE InitGenerateFails
  BY <1>4, FailPair DEF InitGenerateFails
<1>5. CASE SaveCaCrt
  BY <1>5, NoJobKeys DEF SaveCaCrt, Proceed, Halt
<1>6. CASE SaveCaKey
  BY <1>6, NoJobKeys DEF SaveCaKey, Proceed, Halt, Written
<1>7. CASE SaveConfig
  BY <1>7, NoJobKeys DEF SaveConfig, Halt
<1>8. QED
  BY <1>1, <1>2, <1>3, <1>4, <1>5, <1>6, <1>7 DEF InitStep

\* The first file of a pair: its key is new and its owner had no pair.
LEMMA IssueCrtPair ==
  ASSUME TypeInv, PairInv, NEW o \in Owners, NEW next, IssueCrt(o, next)
  PROVE  PairInv'
<1>1. fresh' = fresh + 1 /\ key' = key /\ fresh \in Nat
  BY DEF IssueCrt, TypeInv, TypeOK, Keys
<1>2. CASE pc' = "idle" /\ job' = NoJob
  BY <1>1, <1>2, NoJobKeys DEF PairInv, KeysOld, HalfIssued, Intact, TypeInv, TypeOK, Keys
<1>3. CASE /\ crt' = [crt EXCEPT ![o] = NewLeaf.crt]
           /\ job' = [job EXCEPT !.leaf = NewLeaf, !.who = o]
  <2>1. job'.leaf = NewLeaf /\ job'.who = o /\ job'.ca = job.ca
    BY <1>3 DEF TypeInv, TypeOK, Jobs
  <2>2. crt'[o].id = fresh /\ NewLeaf.key = fresh
    BY <1>3 DEF NewLeaf, TypeInv, TypeOK
  <2>3. KeysOld'
    BY <1>1, <2>1, <2>2
    DEF PairInv, KeysOld, Intact, TypeInv, TypeOK, Keys, Jobs, Pairs
  <2>4. Intact(key[o]) => key[o] # fresh
    BY <1>1 DEF PairInv, KeysOld, TypeInv, TypeOK, Keys, Intact
  <2>5. QED
    BY <1>1, <2>1, <2>2, <2>3, <2>4 DEF PairInv, HalfIssued, HasPair, Intact
<1>4. QED
  BY <1>2, <1>3 DEF IssueCrt, Written, Proceed, Halt

\* The second file completes the pair that is half written.
LEMMA WriteKeyPair ==
  ASSUME TypeInv, PairInv, NEW at, NEW next \in {"tls", "ovpn"}, WriteKey(at, next)
  PROVE  PairInv'
  BY NoJobKeys DEF WriteKey, Written, Proceed, Halt, PairInv, KeysOld, HalfIssued, Intact,
                   Missing, TypeInv, TypeOK

\* The other steps of a build write no private key and leave the pair in
\* memory alone, or forget it.
LEMMA OtherPair ==
  ASSUME PairInv, TypeInv, key' = key, fresh' \in {fresh, fresh + 1},
         pc' \notin {"server_key", "client_key"},
         \/ job'.ca.key = job.ca.key /\ job'.leaf.key = job.leaf.key
         \/ job' = NoJob
  PROVE  PairInv'
  BY NoJobKeys DEF PairInv, KeysOld, HalfIssued, Intact, TypeInv, TypeOK, Keys, Jobs, Pairs

\* The first half of build keeps PairInv.
LEMMA BuildServerStepPair == TypeInv /\ PairInv /\ BuildServerStep => PairInv'
<1> SUFFICES ASSUME TypeInv, PairInv, BuildServerStep PROVE PairInv'
  OBVIOUS
<1>1. CASE IssueServer
  BY <1>1, IssueCrtPair DEF IssueServer, Owners
<1>2. CASE WriteServerKey
  BY <1>2, WriteKeyPair DEF WriteServerKey
<1>3. CASE Fail
  BY <1>3, FailPair
<1>4. CASE RemoveDist \/ BuildDistRemoved \/ ReuseServer \/ MakeTlsCrypt \/ ReuseTlsCrypt
           \/ WriteConf
  BY <1>4, OtherPair DEF RemoveDist, BuildDistRemoved, ReuseServer, MakeTlsCrypt,
       ReuseTlsCrypt, WriteConf, WriteDist, Proceed, Halt, disk, Missing
<1>5. CASE CopyCa \/ CopyCrt \/ CopyKey \/ CopyTls
  BY <1>3, <1>5, OtherPair DEF CopyCa, CopyCrt, CopyKey, CopyTls, Copy, WriteDist, Proceed, Halt
<1>6. QED
  BY <1>1, <1>2, <1>3, <1>4, <1>5
  DEF BuildServerStep, CleanLocalDone, IssueServerFails, WriteConfFails

\* The second half of build keeps PairInv.
LEMMA BuildClientStepPair == TypeInv /\ PairInv /\ BuildClientStep => PairInv'
<1> SUFFICES ASSUME TypeInv, PairInv, BuildClientStep PROVE PairInv'
  OBVIOUS
<1>1. ASSUME NEW n \in Clients, IssueClient(n)
      PROVE  PairInv'
  BY <1>1, IssueCrtPair DEF IssueClient, Owners
<1>2. CASE WriteClientKey
  BY <1>2, WriteKeyPair DEF WriteClientKey
<1>3. CASE Fail
  BY <1>3, FailPair
<1>4. ASSUME NEW n \in Clients, ReuseClient(n)
      PROVE  PairInv'
  <2>1. job'.ca = job.ca /\ job'.leaf.key = key[n] /\ n \in Owners
    BY <1>4 DEF ReuseClient, TypeInv, TypeOK, Jobs, Owners
  <2>2. QED
    BY <1>4, <2>1 DEF ReuseClient, disk, PairInv, KeysOld, HalfIssued, Intact
<1>5. CASE ReadShared
  BY <1>5, OtherPair DEF ReadShared, disk, TypeInv, TypeOK, Jobs
<1>6. CASE WriteOvpn
  <2>1. [job EXCEPT !.todo = @ \ {job.who}].ca = job.ca
          /\ [job EXCEPT !.todo = @ \ {job.who}].leaf = job.leaf
    BY DEF TypeInv, TypeOK, Jobs
  <2>2. QED
    BY <1>6, <2>1, OtherPair DEF WriteOvpn, Proceed, Halt
<1>7. CASE WriteStamp
  BY <1>7, OtherPair DEF WriteStamp, Halt
<1>8. QED
  BY <1>1, <1>2, <1>3, <1>4, <1>5, <1>6, <1>7 DEF BuildClientStep, ClientFails

\* PairInv holds throughout.
LEMMA PairInvariant == Spec => [](TypeInv /\ PairInv)
<1>1. Init => PairInv
  BY NoJobKeys DEF Init, PairInv, KeysOld, HalfIssued, Intact, Missing
<1>2. TypeInv /\ PairInv /\ [Next]_vars => PairInv'
  <2> SUFFICES ASSUME TypeInv, PairInv, [Next]_vars PROVE PairInv'
    OBVIOUS
  <2>1. CASE UNCHANGED vars
    BY <2>1 DEF vars, PairInv, KeysOld, HalfIssued, HasPair, Intact
  <2>2. QED
    BY <2>1, StartPair, InitStepPair, BuildServerStepPair, BuildClientStepPair, FailPair
    DEF Next, Step, Abort
<1>3. QED
  BY <1>1, <1>2, InitType, NextType, PTL DEF Spec

\* A step outside the removal of pki/ keeps every pair that was issued.
KeepsIssued ==
  pc # "init_clear" =>
    /\ \A o \in Leaves : HasPair(o) => crt'[o] = crt[o] /\ key'[o] = key[o]
    /\ Intact(tls) => tls' = tls

\* Issuing a certificate replaces no pair.
LEMMA IssueCrtKeeps ==
  ASSUME TypeInv, NEW o, NEW next, IssueCrt(o, next)
  PROVE  KeepsIssued
  BY DEF IssueCrt, KeepsIssued, HasPair, Intact, Missing, TypeInv, TypeOK, Leaves, Owners

\* Writing a key replaces no pair.
LEMMA WriteKeyKeeps ==
  ASSUME TypeInv, PairInv, NEW at \in {"server_key", "client_key"}, NEW next,
         WriteKey(at, next)
  PROVE  KeepsIssued
  BY DEF WriteKey, PairInv, HalfIssued, KeepsIssued, TypeInv, TypeOK, Leaves, Owners

\* No step replaces an issued pair or the tls-crypt key.
LEMMA StepKeeps == TypeInv /\ PairInv /\ [Next]_vars => KeepsIssued
<1> SUFFICES ASSUME TypeInv, PairInv, [Next]_vars PROVE KeepsIssued
  OBVIOUS
<1>1. CASE crt' = crt /\ key' = key /\ tls' = tls
  BY <1>1 DEF KeepsIssued
<1>2. CASE \E n \in Clients : IssueClient(n)
  BY <1>2, IssueCrtKeeps DEF IssueClient
<1>3. CASE IssueServer
  BY <1>3, IssueCrtKeeps DEF IssueServer
<1>4. CASE WriteServerKey \/ WriteClientKey
  BY <1>4, WriteKeyKeeps DEF WriteServerKey, WriteClientKey
<1>5. CASE MakeTlsCrypt
  BY <1>5 DEF MakeTlsCrypt, KeepsIssued, Intact, Missing
<1>6. CASE SaveCaCrt \/ SaveCaKey
  BY <1>6, OwnersAssumption
  DEF SaveCaCrt, SaveCaKey, KeepsIssued, TypeInv, TypeOK, Leaves, Owners
<1>7. CASE InitClear
  BY <1>7 DEF InitClear, KeepsIssued
<1>8. CASE Start
  BY <1>1, <1>8 DEF Start, InitStart, ConfigSet, ClientAdd, ClientRemove, Edit, BuildStart,
                    CleanLocalStart, disk
<1>9. CASE InitStep
  BY <1>1, <1>6, <1>7, <1>9 DEF InitStep, InitCleared, InitGenerate, InitGenerateFails,
                    SaveConfig, Fail, disk
<1>10. CASE BuildServerStep
  BY <1>1, <1>3, <1>4, <1>5, <1>10 DEF BuildServerStep, RemoveDist, CleanLocalDone,
       BuildDistRemoved, IssueServerFails, ReuseServer, ReuseTlsCrypt, WriteConf,
       WriteConfFails, CopyCa, CopyCrt, CopyKey, CopyTls, Copy, WriteDist, Fail, disk
<1>11. CASE BuildClientStep
  BY <1>1, <1>2, <1>4, <1>11 DEF BuildClientStep, ReadShared, ReuseClient, ClientFails,
       WriteOvpn, WriteStamp, Fail, disk
<1>12. CASE Abort \/ UNCHANGED vars
  BY <1>1, <1>12 DEF Abort, Fail, disk, vars
<1>13. QED
  BY <1>8, <1>9, <1>10, <1>11, <1>12 DEF Next, Step

\* A pair that was issued, and the tls-crypt key, stay until `init --force'
\* removes pki/, whatever is interrupted.
THEOREM IssuedPairsStay == Spec => IssuedStays
<1>1. Spec => [][KeepsIssued]_vars
  BY PairInvariant, StepKeeps, PTL DEF Spec
<1>2. QED
  BY <1>1 DEF IssuedStays, KeepsIssued

-----------------------------------------------------------------------------
(* ChainOK, for a program whose init runs to its end or fails on its own    *)
(* account.  pki/ then holds one CA or nothing at all, also when            *)
(* generate_root_ca refuses the arguments after the removal.                *)

NoPki == crt[CA] = NoFile /\ key[CA] = NoFile /\ \A o \in Leaves : crt[o] = NoFile

SignedBy(ca) == \A o \in Leaves : Intact(crt[o]) => crt[o].ca = ca.id

OneCa == crt[CA] \in Certs /\ key[CA] = crt[CA].id /\ SignedBy(crt[CA])

InitMakes ==
  /\ pc = "init_ca" => NoPki
  /\ pc = "ca_crt" => NoPki /\ job.ca.crt \in Certs /\ job.ca.key = job.ca.crt.id
  /\ pc = "ca_key" =>
       /\ crt[CA] = job.ca.crt /\ crt[CA] \in Certs /\ job.ca.key = crt[CA].id
       /\ \A o \in Leaves : crt[o] = NoFile

ChainInv ==
  /\ pc \notin (InitPcs \ {"init_cfg"}) => NoPki \/ OneCa
  /\ InitMakes
  /\ pc \in BuildPcs => OneCa /\ job.ca = [crt |-> crt[CA], key |-> key[CA]]
  /\ pc \in {"server_key", "client_key"} => job.who # CA

\* A step that leaves the certificates and the CA key alone, outside init.
LEMMA ChainStays ==
  ASSUME ChainInv, crt' = crt, key'[CA] = key[CA],
         pc \notin (InitPcs \ {"init_cfg"}), pc' \notin (InitPcs \ {"init_cfg"}),
         pc' \in BuildPcs => OneCa /\ job'.ca = [crt |-> crt[CA], key |-> key[CA]],
         pc' \notin {"server_key", "client_key"}
  PROVE  ChainInv'
<1>1. NoPki' \/ OneCa'
  BY DEF ChainInv, NoPki, OneCa, SignedBy, Intact
<1>2. InitMakes'
  BY DEF InitMakes, InitPcs
<1>3. pc' \in BuildPcs => OneCa'
  BY DEF OneCa, SignedBy, Intact
<1>4. QED
  BY <1>1, <1>2, <1>3 DEF ChainInv

\* Starting a command signs nothing.
LEMMA StartChain == TypeInv /\ ChainInv /\ Start => ChainInv'
<1> SUFFICES ASSUME TypeInv, ChainInv, Start PROVE ChainInv'
  OBVIOUS
<1>1. pc = "idle" /\ crt' = crt /\ key' = key
  BY DEF Start, InitStart, ConfigSet, ClientAdd, ClientRemove, Edit, BuildStart,
         CleanLocalStart, disk
<1>2. CASE pc' = "init_clear"
  BY <1>2 DEF ChainInv, InitMakes, InitPcs, BuildPcs
<1>3. CASE pc' = "init_ca" /\ ~PkiExists
  <2>1. NoPki
    BY <1>1, <1>3, MissingAssumption
    DEF ChainInv, OneCa, PkiExists, InitPcs, Certs, Keys, Missing
  <2>2. NoPki'
    BY <1>1, <2>1 DEF NoPki
  <2>3. QED
    BY <1>3, <2>2 DEF ChainInv, InitMakes, InitPcs, BuildPcs
<1>4. CASE pc' \in {"edit_cfg", "clean_dist"}
  BY <1>1, <1>4, ChainStays DEF InitPcs, BuildPcs
<1>5. CASE BuildStart
  <2>1. job'.ca = [crt |-> crt[CA], key |-> key[CA]] /\ pc' = "build_dist"
    BY <1>5 DEF BuildStart, NoJob
  <2>2. OneCa
    BY <1>1, <1>5 DEF BuildStart, PkiExists, ChainInv, NoPki, InitPcs
  <2>3. QED
    BY <1>1, <2>1, <2>2, ChainStays DEF InitPcs, BuildPcs
<1>6. QED
  BY <1>2, <1>3, <1>4, <1>5
  DEF Start, InitStart, ConfigSet, ClientAdd, ClientRemove, Edit, CleanLocalStart

\* init removes every certificate before it writes a new CA.
LEMMA InitStepChain ==
  ASSUME "init" \notin Abortable
  PROVE  TypeInv /\ ChainInv /\ InitStep => ChainInv'
<1> SUFFICES ASSUME TypeInv, ChainInv, InitStep PROVE ChainInv'
  OBVIOUS
<1> USE DEF ChainInv, InitMakes, InitPcs, BuildPcs
<1>0. pc \in InitPcs => Tearing = {FALSE}
  BY DEF Tearing, MayAbort, EditPcs, CleanPcs
<1>1. CASE InitClear
  BY <1>1 DEF InitClear
<1>2. CASE InitCleared
  BY <1>2 DEF InitCleared, PkiCleared, NoPki, disk, Leaves, Owners
<1>3. CASE InitGenerate
  <2>1. job'.ca.crt \in Certs /\ job'.ca.key = job'.ca.crt.id
    BY <1>3 DEF InitGenerate, TypeInv, TypeOK, Jobs, Certs
  <2>2. NoPki'
    BY <1>3 DEF InitGenerate, disk, NoPki
  <2>3. QED
    BY <1>3, <2>1, <2>2 DEF InitGenerate
<1>4. CASE InitGenerateFails
  BY <1>4 DEF InitGenerateFails, Fail, Halt, disk, NoPki
<1>5. CASE SaveCaCrt
  <2>1. crt' = [crt EXCEPT ![CA] = job.ca.crt] /\ pc' = "ca_key" /\ job' = job
    BY <1>0, <1>5 DEF SaveCaCrt, Written, Proceed
  <2>2. crt'[CA] = job.ca.crt /\ \A o \in Leaves : crt'[o] = NoFile
    BY <1>5, <2>1, OwnersAssumption DEF SaveCaCrt, NoPki, TypeInv, TypeOK, Leaves, Owners
  <2>3. QED
    BY <1>5, <2>1, <2>2 DEF SaveCaCrt
<1>6. CASE SaveCaKey
  <2>1. key' = [key EXCEPT ![CA] = job.ca.key] /\ pc' = "init_cfg" /\ job' = job /\ crt' = crt
    BY <1>0, <1>6 DEF SaveCaKey, Written, Proceed
  <2>2. key'[CA] = job.ca.key
    BY <2>1 DEF TypeInv, TypeOK, Owners
  <2>3. OneCa'
    BY <1>6, <2>1, <2>2 DEF SaveCaKey, OneCa, SignedBy, Intact, Missing
  <2>4. QED
    BY <2>1, <2>3
<1>7. CASE SaveConfig
  <2>1. pc' = "idle" /\ crt' = crt /\ key' = key /\ pc \in {"init_cfg", "edit_cfg"}
    BY <1>7 DEF SaveConfig, Halt
  <2>2. QED
    BY <2>1, ChainStays
<1>8. QED
  BY <1>1, <1>2, <1>3, <1>4, <1>5, <1>6, <1>7 DEF InitStep

\* A certificate is signed by the CA that the build read, which is the one there.
LEMMA IssueCrtChain ==
  ASSUME TypeInv, ChainInv, NEW o \in Leaves, NEW next \in BuildPcs,
         IssueCrt(o, next), pc \in BuildPcs
  PROVE  ChainInv'
<1>1. crt'[CA] = crt[CA] /\ key' = key
  BY OwnersAssumption DEF IssueCrt, TypeInv, TypeOK, Leaves, Owners
<1>2. OneCa /\ job.ca = [crt |-> crt[CA], key |-> key[CA]]
  BY DEF ChainInv
<1>3. crt'[o] \in {Torn, NewLeaf.crt} /\ \A p \in Owners \ {o} : crt'[p] = crt[p]
  BY DEF IssueCrt, Written, TypeInv, TypeOK, Leaves, Owners
<1>4. NewLeaf.crt.ca = crt[CA].id
  BY <1>2 DEF NewLeaf, OneCa
<1>5. OneCa'
  BY <1>1, <1>2, <1>3, <1>4 DEF OneCa, SignedBy, Intact, Missing, Leaves, Owners
<1>6. pc' = "idle" \/ (pc' = next /\ job'.ca = job.ca /\ job'.who = o)
  BY DEF IssueCrt, Proceed, Halt, TypeInv, TypeOK, Jobs
<1>7. QED
  BY <1>1, <1>2, <1>5, <1>6, OwnersAssumption DEF ChainInv, InitMakes, BuildPcs, Leaves

\* Writing a key changes no certificate.
LEMMA WriteKeyChain ==
  ASSUME TypeInv, ChainInv, NEW at \in BuildPcs, NEW next \in BuildPcs,
         WriteKey(at, next), at \in {"server_key", "client_key"},
         next \notin {"server_key", "client_key"}
  PROVE  ChainInv'
<1>1. crt' = crt /\ key'[CA] = key[CA]
  BY DEF WriteKey, ChainInv, TypeInv, TypeOK, Owners
<1>2. OneCa /\ job.ca = [crt |-> crt[CA], key |-> key[CA]]
  BY DEF ChainInv, WriteKey
<1>3. pc' = "idle" \/ (pc' = next /\ job' = job)
  BY DEF WriteKey, Proceed, Halt
<1>4. QED
  BY <1>1, <1>2, <1>3, ChainStays DEF WriteKey, InitPcs, BuildPcs

\* An error outside init leaves the certificates as they are.
LEMMA FailChain ==
  ASSUME TypeInv, ChainInv, Fail, pc \notin InitPcs
  PROVE  ChainInv'
<1>1. crt' = crt /\ key' = key /\ pc' = "idle"
  BY DEF Fail, Halt, disk
<1>2. QED
  BY <1>1, ChainStays DEF InitPcs, BuildPcs

\* The first half of build keeps ChainInv.
LEMMA BuildServerStepChain == TypeInv /\ ChainInv /\ BuildServerStep => ChainInv'
<1> SUFFICES ASSUME TypeInv, ChainInv, BuildServerStep PROVE ChainInv'
  OBVIOUS
<1>1. CASE IssueServer
  BY <1>1, IssueCrtChain DEF IssueServer, BuildPcs, Leaves
<1>2. CASE WriteServerKey
  BY <1>2, WriteKeyChain DEF WriteServerKey, BuildPcs
<1>3. pc \notin InitPcs /\ (pc = "clean_dist" \/ pc \in BuildPcs)
  BY DEF BuildServerStep, RemoveDist, CleanLocalDone, BuildDistRemoved, IssueServer,
         IssueServerFails, ReuseServer, WriteServerKey, WriteKey, MakeTlsCrypt,
         ReuseTlsCrypt, WriteConf, WriteConfFails, CopyCa, CopyCrt, CopyKey, CopyTls, Copy,
         InitPcs, BuildPcs
<1>4. CASE Fail
  BY <1>3, <1>4, FailChain
<1>5. CASE RemoveDist
  BY <1>5, ChainStays DEF RemoveDist, ChainInv, InitPcs, BuildPcs
<1>6. CASE BuildDistRemoved \/ ReuseServer \/ MakeTlsCrypt \/ ReuseTlsCrypt \/ WriteConf
  <2>1. crt' = crt /\ key' = key /\ pc \in BuildPcs
        /\ pc' \in {"idle", "server_crt", "tls", "conf", "copy_ca"}
        /\ (pc' # "idle" => job' = job)
    BY <1>6 DEF BuildDistRemoved, ReuseServer, MakeTlsCrypt, ReuseTlsCrypt, WriteConf,
                WriteDist, Proceed, Halt, disk, BuildPcs
  <2>2. QED
    BY <2>1, ChainStays DEF ChainInv, InitPcs, BuildPcs
<1>7. CASE CopyCa \/ CopyCrt \/ CopyKey \/ CopyTls
  <2>1. CASE ~Fail
    <3>1. crt' = crt /\ key' = key /\ pc \in BuildPcs
          /\ pc' \in {"idle", "copy_crt", "copy_key", "copy_tls", "shared"}
          /\ (pc' # "idle" => job' = job)
      BY <1>7, <2>1 DEF CopyCa, CopyCrt, CopyKey, CopyTls, Copy, WriteDist, Proceed, Halt,
                        BuildPcs
    <3>2. QED
      BY <3>1, ChainStays DEF ChainInv, InitPcs, BuildPcs
  <2>2. QED
    BY <1>4, <2>1
<1>8. QED
  BY <1>1, <1>2, <1>4, <1>5, <1>6, <1>7
  DEF BuildServerStep, CleanLocalDone, IssueServerFails, WriteConfFails

\* The second half of build keeps ChainInv.
LEMMA BuildClientStepChain == TypeInv /\ ChainInv /\ BuildClientStep => ChainInv'
<1> SUFFICES ASSUME TypeInv, ChainInv, BuildClientStep PROVE ChainInv'
  OBVIOUS
<1>1. ASSUME NEW n \in Clients, IssueClient(n)
      PROVE  ChainInv'
  BY <1>1, IssueCrtChain DEF IssueClient, BuildPcs, Leaves
<1>2. CASE WriteClientKey
  BY <1>2, WriteKeyChain DEF WriteClientKey, BuildPcs
<1>3. ASSUME NEW n \in Clients, ClientFails(n)
      PROVE  ChainInv'
  BY <1>3, FailChain DEF ClientFails, InitPcs
<1>4. CASE ReadShared \/ (\E n \in Clients : ReuseClient(n)) \/ WriteOvpn \/ WriteStamp
  <2>1. crt' = crt /\ key' = key /\ pc \in BuildPcs
        /\ pc' \in {"idle", "clients", "ovpn"}
    BY <1>4 DEF ReadShared, ReuseClient, WriteOvpn, WriteStamp, Proceed, Halt, disk, BuildPcs
  <2>2. pc' # "idle" => job'.ca = job.ca
    <3>1. [job EXCEPT !.todo = @ \ {job.who}].ca = job.ca
      BY DEF TypeInv, TypeOK, Jobs
    <3>2. QED
      BY <1>4, <3>1 DEF ReadShared, ReuseClient, WriteOvpn, WriteStamp, Proceed, Halt,
                        TypeInv, TypeOK, Jobs
  <2>3. QED
    BY <2>1, <2>2, ChainStays DEF ChainInv, InitPcs, BuildPcs
<1>5. QED
  BY <1>1, <1>2, <1>3, <1>4 DEF BuildClientStep

\* ChainInv holds throughout if init is not interrupted.
LEMMA ChainInvariant ==
  ASSUME "init" \notin Abortable
  PROVE  Spec => [](TypeInv /\ ChainInv)
<1>1. Init => ChainInv
  BY DEF Init, ChainInv, InitMakes, NoPki, InitPcs, BuildPcs, Leaves, Owners
<1>2. TypeInv /\ ChainInv /\ [Next]_vars => ChainInv'
  <2> SUFFICES ASSUME TypeInv, ChainInv, [Next]_vars PROVE ChainInv'
    OBVIOUS
  <2>1. CASE Abort
    BY <2>1, FailChain DEF Abort, MayAbort, InitPcs, EditPcs, CleanPcs, BuildPcs
  <2>2. CASE UNCHANGED vars
    BY <2>2 DEF vars, ChainInv, InitMakes, NoPki, OneCa, SignedBy, Intact
  <2>3. QED
    BY <2>1, <2>2, StartChain, InitStepChain, BuildServerStepChain, BuildClientStepChain
    DEF Next, Step
<1>3. QED
  BY <1>1, <1>2, InitType, NextType, PTL DEF Spec

\* As long as init is not interrupted, all of pki/ is signed by the CA in it,
\* whatever happens to the other commands and however init itself fails.
THEOREM ChainSound ==
  ASSUME "init" \notin Abortable
  PROVE  Spec => []ChainOK
<1>1. Spec => [](TypeInv /\ ChainInv)
  BY ChainInvariant
<1>2. TypeInv /\ ChainInv => ChainOK
  BY MissingAssumption DEF ChainInv, ChainOK, NoPki, OneCa, SignedBy, Intact, Missing, InitPcs
<1>3. QED
  BY <1>1, <1>2, PTL
=============================================================================
