--------------------------- MODULE ShippedProofs ---------------------------
(***************************************************************************)
(* Theorems about what a finished build leaves under dist/: that its stamp  *)
(* comes last, that the server and the clients accept each other, and that  *)
(* they speak alike.                                                       *)
(***************************************************************************)
EXTENDS MCWorkspace, WorkspaceProofs

-----------------------------------------------------------------------------
(* PeersTalk.                                                              *)

\* The two files made from one server section agree, whatever it says and
\* whatever it leaves to the defaults, unless its port is 0.
LEMMA OneSectionTalks ==
  ASSUME NEW s, s.port # 0
  PROVE  Talks(ClientConf(s), ServerConf(s))
BY DEF Talks, ClientConf, ServerConf

\* The profiles under dist/ speak as the server.conf beside them does, for any
\* settings and clients and whatever is interrupted: they come from one build,
\* which reads one server section.
THEOREM PeersAlwaysTalk == Spec => []PeersTalk
<1>1. SameBuild => PeersTalk
  <2> SUFFICES ASSUME SameBuild, NEW n \in Clients,
                      Intact(ovpn[n]), Intact(dist.conf), dist.conf.port # 0
               PROVE  Talks(ClientConf(ovpn[n].server), ServerConf(dist.conf))
    BY DEF PeersTalk
  <2>1. ovpn[n].server = dist.conf
    BY DEF SameBuild
  <2>2. QED
    BY <2>1, OneSectionTalks
<1>2. QED
  BY <1>1, DistOfOneBuild, PTL

-----------------------------------------------------------------------------
(* Netmasks.                                                               *)

\* The netmask of a prefix is its first bits and no other, from /0, where a
\* shift by 32 would wrap to a mask of ones, to /32.
THEOREM NetmaskIsPrefix ==
  ASSUME NEW bits \in 0 .. 32
  PROVE  Netmask(bits) = {i \in 0 .. 31 : 31 - i < bits}
<1>1. CASE bits = 0
  BY <1>1 DEF Netmask
<1>2. CASE bits # 0
  <2>1. (32 - bits) % 32 = 32 - bits
    <3>1. 32 - bits \in 0 .. 31
      BY <1>2
    <3>2. \A x \in 0 .. 31 : x % 32 = x
      OBVIOUS
    <3>3. QED
      BY <3>1, <3>2
  <2>2. Netmask(bits) = (32 - bits) .. 31
    BY <1>2, <2>1 DEF Netmask, ShiftedOnes
  <2>3. \A i : i \in (32 - bits) .. 31 <=> i \in 0 .. 31 /\ 31 - i < bits
    BY <1>2
  <2>4. QED
    BY <2>2, <2>3
<1>3. QED
  BY <1>1, <1>2

\* Where the build and the NAT check both take a subnet, they mean the same
\* bits: the mask of the one is the prefix of the other.
THEOREM PoolIsPrefix ==
  ASSUME NEW s, NatAccepts(s)
  PROVE  SubnetParses(s) /\ Netmask(Bits(s)) = {i \in 0 .. 31 : 31 - i < s.prefix}
<1>1. Bits(s) = s.prefix /\ s.prefix \in 0 .. 32
  BY DEF NatAccepts, Bits
<1>2. QED
  BY <1>1, NetmaskIsPrefix DEF SubnetParses

\* The octets of the first bits are the familiar ones: a full octet up to the
\* prefix, one of nine values at it, and nothing behind.
LEMMA OctetsOfPrefix ==
  ASSUME NEW n \in 0 .. 32
  PROVE  Octets({i \in 0 .. 31 : 31 - i < n}) = MaskOf(n)
<1> DEFINE mask == {i \in 0 .. 31 : 31 - i < n}
           ones(k) == IF n >= 8 * k THEN 8 ELSE IF n <= 8 * (k - 1) THEN 0 ELSE n - 8 * (k - 1)
           bit(k, i) == IF 8 * (4 - k) + i \in mask THEN 1 ELSE 0
<1>1. ASSUME NEW k \in 1 .. 4, NEW i \in 0 .. 7
      PROVE  bit(k, i) = IF i >= 8 - ones(k) THEN 1 ELSE 0
  OBVIOUS
<1>2. ASSUME NEW k \in 1 .. 4
      PROVE  ones(k) \in 0 .. 8
  OBVIOUS
<1> HIDE DEF ones, bit
<1>3. ASSUME NEW k \in 1 .. 4
      PROVE  128 * bit(k, 7) + 64 * bit(k, 6) + 32 * bit(k, 5) + 16 * bit(k, 4)
               + 8 * bit(k, 3) + 4 * bit(k, 2) + 2 * bit(k, 1) + bit(k, 0)
             = <<0, 128, 192, 224, 240, 248, 252, 254, 255>>[ones(k) + 1]
  <2>1. \A i \in 0 .. 7 : bit(k, i) = IF i >= 8 - ones(k) THEN 1 ELSE 0
    BY <1>1
  <2>2. CASE ones(k) = 0  BY <2>1, <2>2
  <2>3. CASE ones(k) = 1  BY <2>1, <2>3
  <2>4. CASE ones(k) = 2  BY <2>1, <2>4
  <2>5. CASE ones(k) = 3  BY <2>1, <2>5
  <2>6. CASE ones(k) = 4  BY <2>1, <2>6
  <2>7. CASE ones(k) = 5  BY <2>1, <2>7
  <2>8. CASE ones(k) = 6  BY <2>1, <2>8
  <2>9. CASE ones(k) = 7  BY <2>1, <2>9
  <2>10. CASE ones(k) = 8  BY <2>1, <2>10
  <2>11. QED
    BY <1>2, <2>2, <2>3, <2>4, <2>5, <2>6, <2>7, <2>8, <2>9, <2>10
<1>4. QED
  BY <1>3 DEF Octets, MaskOf, ones, bit

\* The build and the NAT check read the subnet apart from each other; where NAT
\* takes it, the netmask in server.conf is that of the prefix that is
\* masqueraded, for any settings and whatever is interrupted.
THEOREM PoolAlwaysMasqueraded == Spec => []PoolIsMasqueraded
<1>1. PoolIsMasqueraded
  <2> SUFFICES ASSUME NatAccepts(cfg.server), cfg.server = dist.conf
               PROVE  ServerConf(dist.conf).netmask = MaskOf(cfg.server.prefix)
    BY DEF PoolIsMasqueraded
  <2>1. cfg.server.prefix \in 0 .. 32 /\ ServerConf(dist.conf).netmask = Octets(Netmask(Bits(dist.conf)))
    BY DEF NatAccepts, ServerConf
  <2>2. QED
    BY <2>1, PoolIsPrefix, OctetsOfPrefix
<1>2. QED
  BY <1>1, PTL

-----------------------------------------------------------------------------
(* StampLast.  A build that goes on has written every file before the one   *)
(* it is at, whole or torn like its source, and a profile for the clients   *)
(* it has struck off.                                                      *)

Building == BeforeCopies \union Copies \union Serving

FilesInOrder ==
  /\ pc \in Building => dist.stamp = NoFile
  /\ pc \in Copies \union Serving => dist.conf # NoFile
  /\ pc \in (Copies \ {"copy_ca"}) \union Serving => dist.ca # NoFile
  /\ pc \in {"copy_key", "copy_tls", "shared"} \union Serving => dist.crt # NoFile
  /\ pc \in {"copy_tls", "shared"} \union Serving => dist.key # NoFile
  /\ pc \in {"shared"} \union Serving => dist.tls # NoFile

ClientsInTurn ==
  /\ pc \in BuildPcs \ Serving => job.todo = job.cfg.clients
  /\ pc \in Serving =>
       /\ job.todo \subseteq job.cfg.clients
       /\ \A n \in Clients : ovpn[n] # NoFile <=> n \in job.cfg.clients \ job.todo
  /\ pc \in {"client_key", "ovpn"} => job.who \in job.todo

StampInv == FilesInOrder /\ ClientsInTurn

\* What the stamp vouches for.
Complete ==
  /\ \A f \in DistFiles : Intact(dist'[f]) \/ dist'[f] = Torn
  /\ \A n \in Clients : (ovpn[n] # NoFile) <=> (n \in job.cfg.clients)

\* A step that ends a command, or starts one, promises nothing of dist/.
LEMMA StampOutside ==
  ASSUME pc' \notin BuildPcs
  PROVE  StampInv'
BY DEF StampInv, FilesInOrder, ClientsInTurn, Building, BeforeCopies, Copies, Serving, BuildPcs

\* A step of a build between two files of pki/.
LEMMA StampStays ==
  ASSUME StampInv, pc \in Building, pc' \in Building, dist' = dist, ovpn' = ovpn,
         job'.cfg = job.cfg, job'.todo = job.todo,
         \/ pc \in BeforeCopies /\ pc' \in BeforeCopies
         \/ pc \in Serving /\ pc' \in Serving,
         pc' \in {"client_key", "ovpn"} => job'.who \in job.todo
  PROVE  StampInv'
BY DEF StampInv, FilesInOrder, ClientsInTurn, Building, BeforeCopies, Copies, Serving, BuildPcs

\* Issuing a pair touches neither dist/ nor the list of clients.
LEMMA IssueCrtStamp ==
  ASSUME TypeInv, StampInv, NEW o \in Leaves, NEW next, IssueCrt(o, next),
         \/ pc \in BeforeCopies /\ next \in BeforeCopies
         \/ pc = "clients" /\ next \in Serving /\ o \in job.todo
  PROVE  StampInv'
<1>1. CASE pc' = "idle"
  BY <1>1, StampOutside DEF BuildPcs
<1>2. CASE pc' = next /\ job' = [job EXCEPT !.leaf = NewLeaf, !.who = o]
  <2>1. job'.cfg = job.cfg /\ job'.todo = job.todo /\ job'.who = o
    BY <1>2 DEF TypeInv, TypeOK, Jobs
  <2>2. dist' = dist /\ ovpn' = ovpn
    BY DEF IssueCrt
  <2>3. QED
    BY <1>2, <2>1, <2>2, StampStays DEF Building, BeforeCopies, Copies, Serving
<1>3. QED
  BY <1>1, <1>2 DEF IssueCrt, Proceed, Halt

\* Nor does its second file.
LEMMA WriteKeyStamp ==
  ASSUME TypeInv, StampInv, NEW at, NEW next, WriteKey(at, next),
         \/ at \in BeforeCopies /\ next \in BeforeCopies
         \/ at = "client_key" /\ next = "ovpn"
  PROVE  StampInv'
<1>1. CASE pc' = "idle"
  BY <1>1, StampOutside DEF BuildPcs
<1>2. CASE pc' = next /\ job' = job
  <2>1. dist' = dist /\ ovpn' = ovpn /\ pc = at
    BY DEF WriteKey
  <2>2. pc' \in {"client_key", "ovpn"} => job'.who \in job.todo
    BY <1>2, <2>1 DEF StampInv, ClientsInTurn, BeforeCopies
  <2>3. QED
    BY <1>2, <2>1, <2>2, StampStays DEF Building, BeforeCopies, Copies, Serving
<1>3. QED
  BY <1>1, <1>2 DEF WriteKey, Proceed, Halt

\* Each file of dist/server follows the one before it.
LEMMA WriteDistStamp ==
  ASSUME TypeInv, DistInv, StampInv, NEW f \in DistFiles \ {"stamp"},
         NEW content, content # NoFile, NEW next, WriteDist(f, content, next),
         \/ pc = "conf" /\ f = "conf" /\ next = "copy_ca"
         \/ pc = "copy_ca" /\ f = "ca" /\ next = "copy_crt"
         \/ pc = "copy_crt" /\ f = "crt" /\ next = "copy_key"
         \/ pc = "copy_key" /\ f = "key" /\ next = "copy_tls"
         \/ pc = "copy_tls" /\ f = "tls" /\ next = "shared"
  PROVE  StampInv'
<1>1. PICK torn \in Tearing : dist' = [dist EXCEPT ![f] = Written(torn, content)]
                              /\ Proceed(torn, next, job)
  BY DEF WriteDist
<1>2. CASE pc' = "idle"
  BY <1>2, StampOutside DEF BuildPcs
<1>3. CASE pc' = next /\ job' = job
  <2>1. dist'[f] # NoFile /\ \A g \in DistFiles \ {f} : dist'[g] = dist[g]
    BY <1>1, MissingAssumption DEF Written, TypeInv, TypeOK, DistServer, DistFiles
  <2>2. FilesInOrder'
    BY <1>3, <2>1 DEF StampInv, FilesInOrder, Building, BeforeCopies, Copies, Serving, DistFiles
  <2>3. ClientsInTurn'
    BY <1>3 DEF StampInv, ClientsInTurn, Serving, BuildPcs
  <2>4. QED
    BY <2>2, <2>3 DEF StampInv
<1>4. QED
  BY <1>1, <1>2, <1>3 DEF Proceed, Halt

\* A copy that finds its source.
LEMMA CopyStamp ==
  ASSUME TypeInv, DistInv, StampInv, NEW at, NEW source, NEW f \in DistFiles \ {"stamp"},
         NEW next, Copy(at, source, f, next),
         \/ at = "copy_ca" /\ f = "ca" /\ next = "copy_crt"
         \/ at = "copy_crt" /\ f = "crt" /\ next = "copy_key"
         \/ at = "copy_key" /\ f = "key" /\ next = "copy_tls"
         \/ at = "copy_tls" /\ f = "tls" /\ next = "shared"
  PROVE  StampInv'
<1>1. CASE source = NoFile
  BY <1>1, StampOutside DEF Copy, Fail, Halt, BuildPcs
<1>2. CASE source # NoFile
  <2>1. WriteDist(f, source, next) /\ pc = at
    BY <1>2 DEF Copy
  <2>2. QED
    BY <1>2, <2>1, WriteDistStamp
<1>3. QED
  BY <1>1, <1>2

\* The removal of dist/ and the files of dist/server keep StampInv.
LEMMA BuildServerStepStamp ==
  TypeInv /\ DistInv /\ StampInv /\ BuildServerStep => StampInv'
<1> SUFFICES ASSUME TypeInv, DistInv, StampInv, BuildServerStep PROVE StampInv'
  OBVIOUS
<1>1. CASE RemoveDist
  BY <1>1 DEF RemoveDist, StampInv, FilesInOrder, ClientsInTurn, Building, BeforeCopies,
              Copies, Serving, BuildPcs
<1>2. CASE CleanLocalDone \/ IssueServerFails \/ WriteConfFails
  BY <1>2, StampOutside DEF CleanLocalDone, IssueServerFails, WriteConfFails, Fail, Halt, BuildPcs
<1>3. CASE BuildDistRemoved
  <2>1. pc = "build_dist" /\ pc' = "server_crt" /\ job' = job /\ dist' = dist
    BY <1>3 DEF BuildDistRemoved, disk
  <2>2. dist.stamp = NoFile
    BY <1>3 DEF BuildDistRemoved, DistCleared, NoDist
  <2>3. QED
    BY <2>1, <2>2 DEF StampInv, FilesInOrder, ClientsInTurn, Building, BeforeCopies, Copies,
                      Serving, BuildPcs
<1>4. CASE IssueServer
  BY <1>4, IssueCrtStamp DEF IssueServer, Leaves, BeforeCopies
<1>5. CASE ReuseServer \/ ReuseTlsCrypt
  <2>1. /\ pc \in BeforeCopies /\ pc' \in BeforeCopies
        /\ dist' = dist /\ ovpn' = ovpn /\ job' = job
    BY <1>5 DEF ReuseServer, ReuseTlsCrypt, disk, BeforeCopies
  <2>2. QED
    BY <2>1, StampStays DEF Building, BeforeCopies
<1>6. CASE WriteServerKey
  BY <1>6, WriteKeyStamp DEF WriteServerKey, BeforeCopies
<1>7. CASE MakeTlsCrypt
  <2>1. CASE pc' = "idle"
    BY <2>1, StampOutside DEF BuildPcs
  <2>2. CASE pc' = "conf" /\ job' = job
    <3>1. pc = "tls" /\ dist' = dist /\ ovpn' = ovpn
      BY <1>7 DEF MakeTlsCrypt
    <3>2. QED
      BY <2>2, <3>1, StampStays DEF Building, BeforeCopies
  <2>3. QED
    BY <1>7, <2>1, <2>2 DEF MakeTlsCrypt, Proceed, Halt
<1>8. CASE WriteConf
  <2>1. job.cfg.server # NoFile
    BY <1>8, MissingAssumption
    DEF WriteConf, TypeInv, ConfigHeld, Configs, Missing
  <2>2. QED
    BY <1>8, <2>1, WriteDistStamp DEF WriteConf, DistFiles
<1>9. CASE CopyCa
  BY <1>9, CopyStamp DEF CopyCa, DistFiles
<1>10. CASE CopyCrt
  BY <1>10, CopyStamp DEF CopyCrt, DistFiles
<1>11. CASE CopyKey
  BY <1>11, CopyStamp DEF CopyKey, DistFiles
<1>12. CASE CopyTls
  BY <1>12, CopyStamp DEF CopyTls, DistFiles
<1>13. QED
  BY <1>1, <1>2, <1>3, <1>4, <1>5, <1>6, <1>7, <1>8, <1>9, <1>10, <1>11, <1>12
  DEF BuildServerStep

\* A profile is written for the client that is struck off.
LEMMA WriteOvpnStamp == TypeInv /\ StampInv /\ WriteOvpn => StampInv'
<1> SUFFICES ASSUME TypeInv, StampInv, WriteOvpn PROVE StampInv'
  OBVIOUS
<1> DEFINE profile == [ca |-> job.shared.ca, tls |-> job.shared.tls,
                       crt |-> job.leaf.crt, key |-> job.leaf.key,
                       server |-> job.cfg.server]
<1>1. PICK torn \in Tearing :
        /\ ovpn' = [ovpn EXCEPT ![job.who] = Written(torn, profile)]
        /\ Proceed(torn, "clients", [job EXCEPT !.todo = @ \ {job.who}])
  BY DEF WriteOvpn
<1>2. CASE pc' = "idle"
  BY <1>2, StampOutside DEF BuildPcs
<1>3. CASE pc' = "clients" /\ job' = [job EXCEPT !.todo = @ \ {job.who}]
  <2>1. pc = "ovpn" /\ dist' = dist /\ job.who \in job.todo /\ job.todo \subseteq job.cfg.clients
    BY DEF WriteOvpn, StampInv, ClientsInTurn, Serving
  <2>2. job'.cfg = job.cfg /\ job'.todo = job.todo \ {job.who}
    BY <1>3 DEF TypeInv, TypeOK, Jobs
  <2>3. profile # NoFile
    <3>1. profile \in Profiles
      BY <2>1 DEF Profiles, TypeInv, TypeOK, ConfigHeld, Jobs, Pairs, Configs
    <3>2. QED
      BY <3>1, MissingAssumption DEF Missing
  <2>4. ASSUME NEW n \in Clients
        PROVE  (ovpn'[n] # NoFile) <=> (n \in job'.cfg.clients \ job'.todo)
    BY <1>1, <2>1, <2>2, <2>3, MissingAssumption
    DEF Written, StampInv, ClientsInTurn, Serving, TypeInv, TypeOK
  <2>5. QED
    BY <1>3, <2>1, <2>2, <2>4
    DEF StampInv, FilesInOrder, ClientsInTurn, Building, BeforeCopies, Copies, Serving, BuildPcs
<1>4. QED
  BY <1>1, <1>2, <1>3 DEF Proceed, Halt

\* The profiles and the stamp keep StampInv.
LEMMA BuildClientStepStamp ==
  TypeInv /\ DistInv /\ StampInv /\ BuildClientStep => StampInv'
<1> SUFFICES ASSUME TypeInv, DistInv, StampInv, BuildClientStep PROVE StampInv'
  OBVIOUS
<1>1. CASE ReadShared
  <2>1. /\ pc = "shared" /\ pc' = "clients" /\ dist' = dist
        /\ \A n \in Clients : ovpn'[n] = NoFile
    BY <1>1 DEF ReadShared, disk, DistInv, NoProfileYet, Copies
  <2>2. job'.cfg = job.cfg /\ job'.todo = job.todo
    BY <1>1 DEF ReadShared, TypeInv, TypeOK, Jobs
  <2>3. job.todo = job.cfg.clients
    BY <2>1 DEF StampInv, ClientsInTurn, BuildPcs, Serving
  <2>4. QED
    BY <2>1, <2>2, <2>3
    DEF StampInv, FilesInOrder, ClientsInTurn, Building, BeforeCopies, Copies, Serving, BuildPcs
<1>2. ASSUME NEW n \in Clients, IssueClient(n)
      PROVE  StampInv'
  BY <1>2, IssueCrtStamp DEF IssueClient, Leaves, Serving
<1>3. ASSUME NEW n \in Clients, ReuseClient(n)
      PROVE  StampInv'
  <2>1. /\ pc = "clients" /\ pc' = "ovpn" /\ dist' = dist /\ ovpn' = ovpn
        /\ job'.cfg = job.cfg /\ job'.todo = job.todo /\ job'.who = n /\ n \in job.todo
    BY <1>3 DEF ReuseClient, disk, TypeInv, TypeOK, Jobs
  <2>2. QED
    BY <2>1, StampStays DEF Building, Serving
<1>4. ASSUME NEW n \in Clients, ClientFails(n)
      PROVE  StampInv'
  BY <1>4, StampOutside DEF ClientFails, Fail, Halt, BuildPcs
<1>5. CASE WriteClientKey
  BY <1>5, WriteKeyStamp DEF WriteClientKey
<1>6. CASE WriteOvpn
  BY <1>6, WriteOvpnStamp
<1>7. CASE WriteStamp
  BY <1>7, StampOutside DEF WriteStamp, Halt, BuildPcs
<1>8. QED
  BY <1>1, <1>2, <1>3, <1>4, <1>5, <1>6, <1>7 DEF BuildClientStep

\* A build begins with all its clients before it; nothing else starts a build.
LEMMA StartStamp == TypeInv /\ StampInv /\ Start => StampInv'
<1> SUFFICES ASSUME TypeInv, StampInv, Start PROVE StampInv'
  OBVIOUS
<1>1. CASE BuildStart
  <2>1. pc' = "build_dist" /\ job'.cfg = cfg /\ job'.todo = cfg.clients
    BY <1>1 DEF BuildStart, NoJob
  <2>2. QED
    BY <2>1 DEF StampInv, FilesInOrder, ClientsInTurn, Building, BeforeCopies, Copies, Serving
<1>2. CASE ~BuildStart
  <2>1. pc' \in {"init_clear", "init_ca", "edit_cfg", "clean_dist"}
    BY <1>2 DEF Start, InitStart, ConfigSet, ClientAdd, ClientRemove, Edit, CleanLocalStart
  <2>2. QED
    BY <2>1, StampOutside DEF BuildPcs
<1>3. QED
  BY <1>1, <1>2

\* StampInv is inductive beside TypeInv and DistInv.
LEMMA NextStamp == TypeInv /\ DistInv /\ StampInv /\ [Next]_vars => StampInv'
<1> SUFFICES ASSUME TypeInv, DistInv, StampInv, [Next]_vars PROVE StampInv'
  OBVIOUS
<1>1. CASE InitStep
  <2>1. pc' \notin BuildPcs
    BY <1>1 DEF InitStep, InitClear, InitCleared, InitGenerate, InitGenerateFails, SaveCaCrt,
         SaveCaKey, SaveConfig, Fail, Halt, Proceed, BuildPcs
  <2>2. QED
    BY <2>1, StampOutside
<1>2. CASE Abort
  BY <1>2, StampOutside DEF Abort, Fail, Halt, BuildPcs
<1>3. CASE UNCHANGED vars
  BY <1>3 DEF vars, StampInv, FilesInOrder, ClientsInTurn
<1>4. QED
  BY <1>1, <1>2, <1>3, StartStamp, BuildServerStepStamp, BuildClientStepStamp DEF Next, Step

\* Before its first command a project promises nothing of dist/.
LEMMA InitStamp == Init => StampInv
  BY DEF Init, StampInv, FilesInOrder, ClientsInTurn, Building, BeforeCopies, Copies, Serving,
         BuildPcs

\* No other step makes an intact stamp where there was none.
LEMMA OnlyWriteStamp ==
  ASSUME TypeInv, [Next]_vars, ~Intact(dist.stamp), Intact(dist'.stamp)
  PROVE  WriteStamp
<1>1. CASE dist' = dist
  BY <1>1
<1>2. ASSUME NEW f \in DistFiles \ {"stamp"}, NEW content, NEW next, WriteDist(f, content, next)
      PROVE  FALSE
  BY <1>2 DEF WriteDist, TypeInv, TypeOK, DistServer, DistFiles
<1>3. CASE RemoveDist
  BY <1>3 DEF RemoveDist, TypeInv, TypeOK, DistServer, DistFiles, Intact, Missing
<1>4. CASE Start \/ InitStep \/ Abort \/ UNCHANGED vars
  <2>1. dist' = dist
    BY <1>4 DEF Start, InitStart, ConfigSet, ClientAdd, ClientRemove, Edit, BuildStart,
         CleanLocalStart, InitStep, InitClear, InitCleared, InitGenerate, InitGenerateFails,
         SaveCaCrt, SaveCaKey, SaveConfig, Abort, Fail, disk, vars
  <2>2. QED
    BY <1>1, <2>1
<1>5. CASE BuildServerStep
  <2>1. \/ dist' = dist
        \/ RemoveDist
        \/ \E f \in DistFiles \ {"stamp"} : \E content, next : WriteDist(f, content, next)
    BY <1>5 DEF BuildServerStep, CleanLocalDone, BuildDistRemoved, IssueServer, IssueCrt,
         IssueServerFails, ReuseServer, WriteServerKey, WriteKey, MakeTlsCrypt, ReuseTlsCrypt,
         WriteConf, WriteConfFails, CopyCa, CopyCrt, CopyKey, CopyTls, Copy, Fail, disk, DistFiles
  <2>2. QED
    BY <1>1, <1>2, <1>3, <2>1
<1>6. CASE BuildClientStep
  <2>1. dist' = dist \/ WriteStamp
    BY <1>6 DEF BuildClientStep, ReadShared, IssueClient, IssueCrt, ReuseClient, ClientFails,
         WriteClientKey, WriteKey, WriteOvpn, Fail, disk
  <2>2. QED
    BY <1>1, <2>1
<1>7. QED
  BY <1>4, <1>5, <1>6 DEF Next, Step

\* Where build.json is written, what it vouches for is there.
LEMMA StampVouches ==
  ASSUME TypeInv, StampInv, WriteStamp, Intact(dist'.stamp)
  PROVE  Complete
<1>1. pc = "clients" /\ job.todo = {}
  BY DEF WriteStamp
<1>2. PICK torn \in Tearing : dist' = [dist EXCEPT !.stamp = Written(torn, "built")]
  BY DEF WriteStamp
<1>3. \A f \in DistFiles \ {"stamp"} : dist'[f] # NoFile
  BY <1>1, <1>2 DEF StampInv, FilesInOrder, Copies, Serving, TypeInv, TypeOK, DistServer, DistFiles
<1>4. \A n \in Clients : (ovpn[n] # NoFile) <=> (n \in job.cfg.clients)
  BY <1>1 DEF StampInv, ClientsInTurn, Serving
<1>5. QED
  BY <1>3, <1>4 DEF Complete, Intact, Missing, DistFiles

\* build.json comes last, for any clients and settings and whatever is
\* interrupted: it vouches for all of dist/server, and for a profile of each
\* client of the configuration the build read and of no other.
THEOREM StampComesLast == Spec => StampLast
<1> DEFINE Vouched == ~Intact(dist.stamp) /\ Intact(dist'.stamp) => Complete
<1>1. TypeInv /\ StampInv /\ [Next]_vars => Vouched
  BY OnlyWriteStamp, StampVouches
<1>2. Spec => [][Vouched]_vars
  BY <1>1, InitType, NextType, InitStamp, NextStamp, DistInvariant, PTL DEF Spec
<1>3. QED
  BY <1>2 DEF StampLast, Complete

-----------------------------------------------------------------------------
(* ShippedWorks, where only the edits of the configuration may be           *)
(* interrupted.  Then no file of pki/ is torn, and a certificate there has   *)
(* its key beside it, but for the pair that is being written; and dist/      *)
(* is, file by file, what pki/ holds until the stamp is written.            *)

OnlyEditsAbort == Abortable \subseteq {"edit"}

NothingTorn ==
  /\ \A o \in Owners : crt[o] # Torn /\ key[o] # Torn
  /\ tls # Torn

\* The owner whose certificate is written and whose key is not yet.
Waiting(o) == pc \in {"server_key", "client_key"} /\ o = job.who

PairsWhole ==
  pc # "init_clear" => \A o \in Leaves : crt[o] # NoFile => HasPair(o) \/ Waiting(o)

PairDue ==
  /\ pc \in {"server_key", "client_key"} =>
       /\ job.leaf.crt = crt[job.who] /\ job.leaf.crt \in Certs
       /\ job.leaf.key = job.leaf.crt.id
  /\ pc = "ovpn" =>
       /\ HasPair(job.who)
       /\ job.leaf = [crt |-> crt[job.who], key |-> key[job.who]]

PkiWhole == NothingTorn /\ PairsWhole /\ PairDue

\* Nothing but an edit is interrupted.
LEMMA NoTearing ==
  ASSUME OnlyEditsAbort
  PROVE  /\ pc # "edit_cfg" => Tearing = {FALSE}
         /\ Abort => pc = "edit_cfg"
BY DEF OnlyEditsAbort, Tearing, Abort, MayAbort, EditPcs, InitPcs, CleanPcs, BuildPcs

\* A step that leaves pki/ alone and is not amid a pair.
LEMMA PkiStays ==
  ASSUME PkiWhole, crt' = crt, key' = key, tls' = tls,
         pc \notin {"init_clear", "server_key", "client_key"},
         pc' \notin {"server_key", "client_key", "ovpn"}
  PROVE  PkiWhole'
<1>1. \A o : HasPair(o) <=> HasPair(o)'
  BY DEF HasPair, Intact
<1>2. QED
  BY <1>1 DEF PkiWhole, NothingTorn, PairsWhole, PairDue, Waiting

\* Starting a command leaves pki/ alone.
LEMMA StartPki == PkiWhole /\ Start => PkiWhole'
<1> SUFFICES ASSUME PkiWhole, Start PROVE PkiWhole'
  OBVIOUS
<1>1. crt' = crt /\ key' = key /\ tls' = tls /\ pc = "idle"
  BY DEF Start, InitStart, ConfigSet, ClientAdd, ClientRemove, Edit, BuildStart,
         CleanLocalStart, disk
<1>2. pc' \in {"init_clear", "init_ca", "edit_cfg", "build_dist", "clean_dist"}
  BY DEF Start, InitStart, ConfigSet, ClientAdd, ClientRemove, Edit, BuildStart,
         CleanLocalStart
<1>3. QED
  BY <1>1, <1>2, PkiStays

\* init writes the two files of the CA alone, and nothing of it is torn.
LEMMA InitStepPki ==
  ASSUME OnlyEditsAbort
  PROVE  TypeInv /\ ChainInv /\ PkiWhole /\ InitStep => PkiWhole'
<1> SUFFICES ASSUME TypeInv, ChainInv, PkiWhole, InitStep PROVE PkiWhole'
  OBVIOUS
<1>1. CASE InitClear
  <2>1. NothingTorn'
    BY <1>1, MissingAssumption
    DEF InitClear, PkiWhole, NothingTorn, TypeInv, TypeOK
  <2>2. QED
    BY <1>1, <2>1 DEF InitClear, PkiWhole, PairsWhole, PairDue
<1>2. CASE InitCleared
  <2>1. /\ crt' = crt /\ key' = key /\ tls' = tls /\ pc' = "init_ca"
        /\ \A o \in Owners : crt[o] = NoFile
    BY <1>2 DEF InitCleared, PkiCleared, disk
  <2>2. QED
    BY <2>1 DEF PkiWhole, NothingTorn, PairsWhole, PairDue, Owners, Leaves
<1>3. CASE InitGenerate \/ InitGenerateFails \/ SaveConfig
  <2>1. /\ crt' = crt /\ key' = key /\ tls' = tls
        /\ pc \in {"init_ca", "init_cfg", "edit_cfg"} /\ pc' \in {"ca_crt", "idle"}
    BY <1>3 DEF InitGenerate, InitGenerateFails, SaveConfig, Fail, Halt, disk
  <2>2. QED
    BY <2>1, PkiStays
<1>4. CASE SaveCaCrt
  <2>1. Tearing = {FALSE} /\ job.ca.crt \in Certs
    BY <1>4, NoTearing DEF SaveCaCrt, ChainInv, InitMakes
  <2>2. /\ crt' = [crt EXCEPT ![CA] = job.ca.crt] /\ key' = key /\ tls' = tls
        /\ pc = "ca_crt" /\ pc' = "ca_key"
    BY <1>4, <2>1 DEF SaveCaCrt, Written, Proceed
  <2>3. NothingTorn'
    BY <2>1, <2>2, MissingAssumption
    DEF PkiWhole, NothingTorn, TypeInv, TypeOK, Missing
  <2>4. \A o \in Leaves : crt'[o] = crt[o]
    BY <2>2, OwnersAssumption DEF TypeInv, TypeOK, Leaves, Owners
  <2>5. QED
    BY <2>2, <2>3, <2>4 DEF PkiWhole, PairsWhole, PairDue, HasPair, Intact, Waiting
<1>5. CASE SaveCaKey
  <2>1. Tearing = {FALSE} /\ job.ca.key \in Keys
    BY <1>5, NoTearing DEF SaveCaKey, ChainInv, InitMakes, Certs
  <2>2. /\ key' = [key EXCEPT ![CA] = job.ca.key] /\ crt' = crt /\ tls' = tls
        /\ pc = "ca_key" /\ pc' = "init_cfg"
    BY <1>5, <2>1 DEF SaveCaKey, Written, Proceed
  <2>3. NothingTorn'
    BY <2>1, <2>2, MissingAssumption
    DEF PkiWhole, NothingTorn, TypeInv, TypeOK, Missing
  <2>4. \A o \in Leaves : key'[o] = key[o]
    BY <2>2, OwnersAssumption DEF TypeInv, TypeOK, Leaves, Owners
  <2>5. QED
    BY <2>2, <2>3, <2>4 DEF PkiWhole, PairsWhole, PairDue, HasPair, Intact, Waiting
<1>6. QED
  BY <1>1, <1>2, <1>3, <1>4, <1>5 DEF InitStep

\* The first half of a pair: what was whole stays whole.
LEMMA IssueCrtPki ==
  ASSUME OnlyEditsAbort, TypeInv, PkiWhole, pc \in {"server_crt", "clients"},
         NEW o \in Leaves, NEW next \in {"server_key", "client_key"}, IssueCrt(o, next)
  PROVE  /\ PkiWhole' /\ pc' = next /\ key' = key /\ tls' = tls
         /\ job' = [job EXCEPT !.leaf = NewLeaf, !.who = o]
         /\ \A p \in Owners \ {o} : crt'[p] = crt[p]
<1>1. Tearing = {FALSE}
  BY NoTearing
<1>2. /\ crt' = [crt EXCEPT ![o] = NewLeaf.crt] /\ key' = key /\ tls' = tls
      /\ pc' = next /\ job' = [job EXCEPT !.leaf = NewLeaf, !.who = o]
      /\ CanIssue
  BY <1>1 DEF IssueCrt, Written, Proceed
<1>3. o \in Owners
  BY DEF Leaves, Owners
<1>4. NewLeaf.crt \in Certs /\ NewLeaf.key = NewLeaf.crt.id
  BY <1>2 DEF NewLeaf, CanIssue, Intact, Certs, TypeInv, TypeOK, Jobs, Pairs
<1>5. crt'[o] = NewLeaf.crt /\ \A p \in Owners \ {o} : crt'[p] = crt[p]
  BY <1>2, <1>3 DEF TypeInv, TypeOK
<1>6. job'.leaf = NewLeaf /\ job'.who = o
  BY <1>2 DEF TypeInv, TypeOK, Jobs
<1>7. NothingTorn'
  BY <1>2, <1>4, <1>5, MissingAssumption DEF PkiWhole, NothingTorn, Missing
<1>8. PairsWhole'
  <2> SUFFICES ASSUME NEW p \in Leaves, crt'[p] # NoFile PROVE HasPair(p)' \/ Waiting(p)'
    BY DEF PairsWhole
  <2>1. CASE p = o
    BY <1>2, <1>6, <2>1 DEF Waiting
  <2>2. CASE p # o
    BY <1>2, <1>5, <2>2 DEF PkiWhole, PairsWhole, Waiting, HasPair, Intact, Leaves, Owners
  <2>3. QED
    BY <2>1, <2>2
<1>9. PairDue'
  BY <1>2, <1>4, <1>5, <1>6 DEF PairDue
<1>10. QED
  BY <1>2, <1>5, <1>7, <1>8, <1>9 DEF PkiWhole

\* The second half makes the pair whole.
LEMMA WriteKeyPki ==
  ASSUME OnlyEditsAbort, TypeInv, PkiWhole,
         NEW at \in {"server_key", "client_key"}, NEW next \in {"tls", "ovpn"},
         WriteKey(at, next)
  PROVE  /\ PkiWhole' /\ pc' = next /\ job' = job /\ crt' = crt /\ tls' = tls
         /\ key' = [key EXCEPT ![job.who] = job.leaf.key]
<1>1. Tearing = {FALSE} /\ pc = at
  BY NoTearing DEF WriteKey
<1>2. /\ key' = [key EXCEPT ![job.who] = job.leaf.key] /\ crt' = crt /\ tls' = tls
      /\ pc' = next /\ job' = job
  BY <1>1 DEF WriteKey, Written, Proceed
<1>3. /\ job.who \in Owners /\ job.leaf.crt = crt[job.who] /\ job.leaf.crt \in Certs
      /\ job.leaf.key = job.leaf.crt.id /\ job.leaf.key \in Keys
  BY <1>1 DEF PkiWhole, PairDue, TypeInv, TypeOK, Jobs, Certs
<1>4. key'[job.who] = job.leaf.key /\ \A p \in Owners \ {job.who} : key'[p] = key[p]
  BY <1>2, <1>3 DEF TypeInv, TypeOK
<1>5. NothingTorn'
  BY <1>2, <1>3, <1>4, MissingAssumption DEF PkiWhole, NothingTorn, Missing
<1>6. HasPair(job.who)'
  BY <1>2, <1>3, <1>4, MissingAssumption DEF HasPair, Intact
<1>7. PairsWhole'
  <2> SUFFICES ASSUME NEW p \in Leaves, crt'[p] # NoFile PROVE HasPair(p)'
    BY DEF PairsWhole
  <2>1. CASE p = job.who
    BY <1>6, <2>1, <1>2
  <2>2. CASE p # job.who
    BY <1>1, <1>2, <1>4, <2>2 DEF PkiWhole, PairsWhole, Waiting, HasPair, Intact, Leaves, Owners
  <2>3. QED
    BY <2>1, <2>2
<1>8. PairDue'
  BY <1>2, <1>3, <1>4, <1>6 DEF PairDue, TypeInv, TypeOK, Jobs, Pairs
<1>9. QED
  BY <1>2, <1>5, <1>7, <1>8 DEF PkiWhole

\* The first half of build keeps PkiWhole.
LEMMA BuildServerStepPki ==
  ASSUME OnlyEditsAbort
  PROVE  TypeInv /\ PkiWhole /\ BuildServerStep => PkiWhole'
<1> SUFFICES ASSUME TypeInv, PkiWhole, BuildServerStep PROVE PkiWhole'
  OBVIOUS
<1>1. CASE IssueServer
  BY <1>1, IssueCrtPki DEF IssueServer, Leaves
<1>2. CASE WriteServerKey
  BY <1>2, WriteKeyPki DEF WriteServerKey
<1>3. CASE MakeTlsCrypt
  <2>1. Tearing = {FALSE}
    BY <1>3, NoTearing DEF MakeTlsCrypt
  <2>2. /\ tls' = fresh /\ crt' = crt /\ key' = key
        /\ pc = "tls" /\ pc' = "conf"
    BY <1>3, <2>1 DEF MakeTlsCrypt, Written, Proceed
  <2>3. fresh # Torn
    BY MissingAssumption DEF TypeInv, TypeOK, Missing
  <2>4. \A o : HasPair(o) <=> HasPair(o)'
    BY <2>2 DEF HasPair, Intact
  <2>5. QED
    BY <2>2, <2>3, <2>4 DEF PkiWhole, NothingTorn, PairsWhole, PairDue, Waiting
<1>4. CASE \/ RemoveDist \/ CleanLocalDone \/ BuildDistRemoved \/ IssueServerFails
           \/ ReuseServer \/ ReuseTlsCrypt \/ WriteConf \/ WriteConfFails
  <2>1. /\ crt' = crt /\ key' = key /\ tls' = tls
        /\ pc \in {"clean_dist", "build_dist", "server_crt", "tls", "conf"}
    BY <1>4 DEF RemoveDist, CleanLocalDone, BuildDistRemoved, IssueServerFails, ReuseServer,
                ReuseTlsCrypt, WriteConf, WriteConfFails, WriteDist, Fail, disk
  <2>2. pc' \in {"clean_dist", "build_dist", "server_crt", "tls", "conf", "copy_ca", "idle"}
    BY <1>4 DEF RemoveDist, CleanLocalDone, BuildDistRemoved, IssueServerFails, ReuseServer,
                ReuseTlsCrypt, WriteConf, WriteConfFails, WriteDist, Fail, Halt, Proceed
  <2>3. QED
    BY <2>1, <2>2, PkiStays
<1>5. CASE CopyCa \/ CopyCrt \/ CopyKey \/ CopyTls
  <2>1. /\ crt' = crt /\ key' = key /\ tls' = tls
        /\ pc \in {"copy_ca", "copy_crt", "copy_key", "copy_tls"}
    BY <1>5 DEF CopyCa, CopyCrt, CopyKey, CopyTls, Copy, WriteDist, Fail, disk
  <2>2. pc' \in {"copy_crt", "copy_key", "copy_tls", "shared", "idle"}
    BY <1>5 DEF CopyCa, CopyCrt, CopyKey, CopyTls, Copy, WriteDist, Fail, Halt, Proceed
  <2>3. QED
    BY <2>1, <2>2, PkiStays
<1>6. QED
  BY <1>1, <1>2, <1>3, <1>4, <1>5 DEF BuildServerStep

\* The client half of build keeps PkiWhole.
LEMMA BuildClientStepPki ==
  ASSUME OnlyEditsAbort
  PROVE  TypeInv /\ PkiWhole /\ BuildClientStep => PkiWhole'
<1> SUFFICES ASSUME TypeInv, PkiWhole, BuildClientStep PROVE PkiWhole'
  OBVIOUS
<1>1. ASSUME NEW n \in Clients, IssueClient(n)
      PROVE  PkiWhole'
  BY <1>1, IssueCrtPki DEF IssueClient, Leaves
<1>2. CASE WriteClientKey
  BY <1>2, WriteKeyPki DEF WriteClientKey
<1>3. ASSUME NEW n \in Clients, ReuseClient(n)
      PROVE  PkiWhole'
  <2>1. /\ pc = "clients" /\ pc' = "ovpn" /\ crt[n] # NoFile
        /\ crt' = crt /\ key' = key /\ tls' = tls
        /\ job'.leaf = [crt |-> crt[n], key |-> key[n]] /\ job'.who = n
    BY <1>3 DEF ReuseClient, disk, TypeInv, TypeOK, Jobs
  <2>2. \A o : HasPair(o) <=> HasPair(o)'
    BY <2>1 DEF HasPair, Intact
  <2>3. HasPair(n)
    BY <2>1 DEF PkiWhole, PairsWhole, Waiting, Leaves
  <2>4. HasPair(job.who)'
    BY <2>1, <2>3 DEF HasPair, Intact
  <2>5. QED
    BY <2>1, <2>2, <2>4 DEF PkiWhole, NothingTorn, PairsWhole, PairDue, Waiting
<1>4. CASE ReadShared \/ WriteOvpn \/ WriteStamp \/ \E n \in Clients : ClientFails(n)
  <2>1. /\ crt' = crt /\ key' = key /\ tls' = tls
        /\ pc \in {"shared", "clients", "ovpn"} /\ pc' \in {"clients", "idle"}
    BY <1>4 DEF ReadShared, WriteOvpn, WriteStamp, ClientFails, Fail, Halt, Proceed, disk
  <2>2. QED
    BY <2>1, PkiStays
<1>5. QED
  BY <1>1, <1>2, <1>3, <1>4 DEF BuildClientStep

\* PkiWhole is inductive beside TypeInv and ChainInv.
LEMMA NextPki ==
  ASSUME OnlyEditsAbort
  PROVE  TypeInv /\ ChainInv /\ PkiWhole /\ [Next]_vars => PkiWhole'
<1> SUFFICES ASSUME TypeInv, ChainInv, PkiWhole, [Next]_vars PROVE PkiWhole'
  OBVIOUS
<1>1. CASE Abort
  <2>1. crt' = crt /\ key' = key /\ tls' = tls /\ pc = "edit_cfg" /\ pc' = "idle"
    BY <1>1, NoTearing DEF Abort, Fail, Halt, disk
  <2>2. QED
    BY <2>1, PkiStays
<1>2. CASE UNCHANGED vars
  <2>1. \A o : HasPair(o) <=> HasPair(o)'
    BY <1>2 DEF vars, HasPair, Intact
  <2>2. HasPair(job.who) <=> HasPair(job.who)'
    BY <1>2 DEF vars, HasPair, Intact
  <2>3. QED
    BY <1>2, <2>1, <2>2 DEF vars, PkiWhole, NothingTorn, PairsWhole, PairDue, Waiting
<1>3. QED
  BY <1>1, <1>2, StartPki, InitStepPki, BuildServerStepPki, BuildClientStepPki DEF Next, Step

-----------------------------------------------------------------------------
(* What of dist/ is a copy of what.                                         *)

ServerCopied ==
  /\ pc \in {"copy_key", "copy_tls", "shared"} \union Serving => dist.crt = crt[Server]
  /\ pc \in {"copy_tls", "shared"} \union Serving => dist.key = key[Server]

ProfilesCopied ==
  pc \in Serving => \A n \in Clients : ovpn[n] # NoFile =>
    /\ Intact(ovpn[n]) /\ HasPair(n)
    /\ ovpn[n].crt = crt[n] /\ ovpn[n].key = key[n]

\* The conclusion of ShippedWorks, and where it holds: from the stamp until
\* dist/ is removed, whatever becomes of pki/ meanwhile.
Works ==
  /\ Intact(dist.conf) /\ Intact(dist.tls)
  /\ Accepted(dist.ca, dist.crt, dist.key)
  /\ \A n \in Clients : ovpn[n] # NoFile =>
       /\ Intact(ovpn[n])
       /\ Accepted(dist.ca, ovpn[n].crt, ovpn[n].key)
       /\ Accepted(ovpn[n].ca, dist.crt, dist.key)
       /\ ovpn[n].tls = dist.tls
Finished == (pc \notin {"clean_dist", "build_dist"} /\ Intact(dist.stamp)) => Works

CopyInv == ServerCopied /\ ProfilesCopied /\ Finished

\* All that is known where nothing but an edit is interrupted.
WholeInv == TypeInv /\ DistInv /\ StampInv /\ ChainInv /\ PkiWhole /\ CopyInv

\* While a build goes on there is no stamp to vouch for anything.
LEMMA UnfinishedBuild ==
  ASSUME StampInv', pc' \in Building
  PROVE  Finished'
BY DEF StampInv, FilesInOrder, Finished, Intact, Missing

\* A step that leaves dist/ alone and does not go on with a build.
LEMMA CopyOutside ==
  ASSUME CopyInv, dist' = dist, ovpn' = ovpn, pc' \notin Building,
         pc \notin {"clean_dist", "build_dist"} \/ pc' \in {"clean_dist", "build_dist"}
  PROVE  CopyInv'
<1>1. Works => Works'
  BY DEF Works, Accepted, Intact
<1>2. QED
  BY <1>1 DEF CopyInv, ServerCopied, ProfilesCopied, Finished, Building, Copies, Serving, Intact

\* A step of a build before the first copy is due.
LEMMA CopyNotYet ==
  ASSUME StampInv', pc' \in BeforeCopies \union {"copy_ca", "copy_crt"}
  PROVE  CopyInv'
<1>1. Finished'
  BY UnfinishedBuild DEF Building, Copies
<1>2. QED
  BY <1>1 DEF CopyInv, ServerCopied, ProfilesCopied, BeforeCopies, Serving

\* A copy that is not torn is its source.
LEMMA CopyIsSource ==
  ASSUME OnlyEditsAbort, TypeInv, NEW at \in Copies, NEW source, NEW f \in DistFiles,
         NEW next, Copy(at, source, f, next)
  PROVE  /\ crt' = crt /\ key' = key /\ tls' = tls /\ ovpn' = ovpn
         /\ \/ pc' = "idle" /\ dist' = dist
            \/ pc' = next /\ dist' = [dist EXCEPT ![f] = source]
<1>1. Tearing = {FALSE} /\ pc = at
  BY NoTearing DEF Copy, Copies
<1>2. CASE Fail
  BY <1>2 DEF Fail, Halt, disk
<1>3. CASE WriteDist(f, source, next)
  BY <1>1, <1>3 DEF WriteDist, Written, Proceed
<1>4. QED
  BY <1>2, <1>3 DEF Copy

\* The removal of dist/ and the files of dist/server keep CopyInv.
LEMMA BuildServerStepCopy ==
  ASSUME OnlyEditsAbort
  PROVE  WholeInv /\ StampInv' /\ BuildServerStep => CopyInv'
<1> SUFFICES ASSUME WholeInv, StampInv', BuildServerStep PROVE CopyInv'
  OBVIOUS
<1> USE DEF WholeInv
<1>1. CASE RemoveDist
  BY <1>1 DEF RemoveDist, CopyInv, ServerCopied, ProfilesCopied, Finished, Serving
<1>2. CASE CleanLocalDone
  <2>1. dist'.stamp = NoFile /\ pc' = "idle"
    BY <1>2 DEF CleanLocalDone, DistCleared, NoDist, Fail, Halt, disk
  <2>2. QED
    BY <2>1 DEF CopyInv, ServerCopied, ProfilesCopied, Finished, Serving, Intact, Missing
<1>3. CASE IssueServerFails \/ WriteConfFails
  BY <1>3, CopyOutside
  DEF IssueServerFails, WriteConfFails, Fail, Halt, disk, Building, BeforeCopies, Copies, Serving
<1>4. CASE BuildDistRemoved \/ ReuseServer \/ ReuseTlsCrypt
  BY <1>4, CopyNotYet DEF BuildDistRemoved, ReuseServer, ReuseTlsCrypt, BeforeCopies
<1>5. CASE IssueServer
  BY <1>5, IssueCrtPki, CopyNotYet DEF IssueServer, Leaves, BeforeCopies
<1>6. CASE WriteServerKey
  BY <1>6, WriteKeyPki, CopyNotYet DEF WriteServerKey, BeforeCopies
<1>7. CASE MakeTlsCrypt \/ WriteConf
  <2>1. Tearing = {FALSE}
    BY <1>7, NoTearing DEF MakeTlsCrypt, WriteConf
  <2>2. pc' \in {"conf", "copy_ca"}
    BY <1>7, <2>1 DEF MakeTlsCrypt, WriteConf, WriteDist, Proceed
  <2>3. QED
    BY <2>2, CopyNotYet DEF BeforeCopies
<1>8. CASE CopyCa
  <2>1. /\ pc = "copy_ca" /\ ovpn' = ovpn
        /\ \/ pc' = "idle" /\ dist' = dist
           \/ pc' = "copy_crt"
    BY <1>8, CopyIsSource DEF CopyCa, Copy, Copies, DistFiles
  <2>2. CASE pc' = "copy_crt"
    BY <2>2, CopyNotYet
  <2>3. CASE pc' = "idle" /\ dist' = dist
    BY <2>1, <2>3, CopyOutside DEF Building, BeforeCopies, Copies, Serving
  <2>4. QED
    BY <2>1, <2>2, <2>3
<1>9. CASE CopyCrt
  <2>1. /\ pc = "copy_crt" /\ crt' = crt /\ key' = key /\ ovpn' = ovpn
        /\ \/ pc' = "idle" /\ dist' = dist
           \/ pc' = "copy_key" /\ dist' = [dist EXCEPT !.crt = crt[Server]]
    BY <1>9, CopyIsSource DEF CopyCrt, Copy, Copies, DistFiles
  <2>2. CASE pc' = "idle" /\ dist' = dist
    BY <2>1, <2>2, CopyOutside DEF Building, BeforeCopies, Copies, Serving
  <2>3. CASE pc' = "copy_key" /\ dist' = [dist EXCEPT !.crt = crt[Server]]
    <3>1. dist'.crt = crt'[Server]
      BY <2>1, <2>3 DEF TypeInv, TypeOK, DistServer
    <3>2. QED
      BY <2>3, <3>1, UnfinishedBuild
      DEF CopyInv, ServerCopied, ProfilesCopied, Building, Copies, Serving
  <2>4. QED
    BY <2>1, <2>2, <2>3
<1>10. CASE CopyKey
  <2>1. /\ pc = "copy_key" /\ crt' = crt /\ key' = key /\ ovpn' = ovpn
        /\ \/ pc' = "idle" /\ dist' = dist
           \/ pc' = "copy_tls" /\ dist' = [dist EXCEPT !.key = key[Server]]
    BY <1>10, CopyIsSource DEF CopyKey, Copy, Copies, DistFiles
  <2>2. CASE pc' = "idle" /\ dist' = dist
    BY <2>1, <2>2, CopyOutside DEF Building, BeforeCopies, Copies, Serving
  <2>3. CASE pc' = "copy_tls" /\ dist' = [dist EXCEPT !.key = key[Server]]
    <3>1. dist'.crt = crt'[Server] /\ dist'.key = key'[Server]
      BY <2>1, <2>3 DEF CopyInv, ServerCopied, TypeInv, TypeOK, DistServer
    <3>2. QED
      BY <2>3, <3>1, UnfinishedBuild
      DEF CopyInv, ServerCopied, ProfilesCopied, Building, Copies, Serving
  <2>4. QED
    BY <2>1, <2>2, <2>3
<1>11. CASE CopyTls
  <2>1. /\ pc = "copy_tls" /\ crt' = crt /\ key' = key /\ ovpn' = ovpn
        /\ \/ pc' = "idle" /\ dist' = dist
           \/ pc' = "shared" /\ dist' = [dist EXCEPT !.tls = tls]
    BY <1>11, CopyIsSource DEF CopyTls, Copy, Copies, DistFiles
  <2>2. CASE pc' = "idle" /\ dist' = dist
    BY <2>1, <2>2, CopyOutside DEF Building, BeforeCopies, Copies, Serving
  <2>3. CASE pc' = "shared" /\ dist' = [dist EXCEPT !.tls = tls]
    <3>1. dist'.crt = crt'[Server] /\ dist'.key = key'[Server]
      BY <2>1, <2>3 DEF CopyInv, ServerCopied, TypeInv, TypeOK, DistServer
    <3>2. QED
      BY <2>3, <3>1, UnfinishedBuild
      DEF CopyInv, ServerCopied, ProfilesCopied, Building, Copies, Serving
  <2>4. QED
    BY <2>1, <2>2, <2>3
<1>12. QED
  BY <1>1, <1>2, <1>3, <1>4, <1>5, <1>6, <1>7, <1>8, <1>9, <1>10, <1>11 DEF BuildServerStep

\* A build goes on to its clients, or from one to the next, with the server's
\* files and the profiles it wrote as they were.
LEMMA CopyServing ==
  ASSUME WholeInv, StampInv', pc \in Serving, pc' \in Serving, dist' = dist, ovpn' = ovpn,
         crt'[Server] = crt[Server], key'[Server] = key[Server],
         \A n \in Clients : ovpn[n] # NoFile => crt'[n] = crt[n] /\ key'[n] = key[n]
  PROVE  CopyInv'
<1>1. Finished'
  BY UnfinishedBuild DEF Building
<1>2. ServerCopied'
  BY DEF WholeInv, CopyInv, ServerCopied, Serving
<1>3. ProfilesCopied'
  BY DEF WholeInv, CopyInv, ProfilesCopied, HasPair, Intact
<1>4. QED
  BY <1>1, <1>2, <1>3 DEF CopyInv

\* A profile holds the pair of its client.
LEMMA WriteOvpnCopy ==
  ASSUME OnlyEditsAbort
  PROVE  WholeInv /\ StampInv' /\ WriteOvpn => CopyInv'
<1> SUFFICES ASSUME WholeInv, StampInv', WriteOvpn PROVE CopyInv'
  OBVIOUS
<1> DEFINE profile == [ca |-> job.shared.ca, tls |-> job.shared.tls,
                       crt |-> job.leaf.crt, key |-> job.leaf.key,
                       server |-> job.cfg.server]
<1>1. Tearing = {FALSE} /\ pc = "ovpn"
  BY NoTearing DEF WriteOvpn
<1>2. /\ ovpn' = [ovpn EXCEPT ![job.who] = profile] /\ pc' = "clients"
      /\ dist' = dist /\ crt' = crt /\ key' = key
  BY <1>1 DEF WriteOvpn, Written, Proceed
<1>3. profile \in Profiles
  BY <1>1 DEF Profiles, WholeInv, TypeInv, TypeOK, ConfigHeld, Jobs, Pairs, Configs
<1>4. Intact(profile)
  BY <1>3, MissingAssumption DEF Intact
<1>5. /\ HasPair(job.who)
      /\ profile.crt = crt[job.who] /\ profile.key = key[job.who]
  BY <1>1 DEF WholeInv, PkiWhole, PairDue
<1>6. ProfilesCopied'
  <2> SUFFICES ASSUME NEW n \in Clients, ovpn'[n] # NoFile
               PROVE  /\ Intact(ovpn'[n]) /\ HasPair(n)'
                      /\ ovpn'[n].crt = crt'[n] /\ ovpn'[n].key = key'[n]
    BY DEF ProfilesCopied, Intact
  <2>0. HasPair(n) => HasPair(n)'
    BY <1>2 DEF HasPair, Intact
  <2>1. CASE n = job.who
    <3>1. ovpn'[n] = profile
      BY <1>2, <2>1 DEF WholeInv, TypeInv, TypeOK
    <3>2. QED
      BY <1>2, <1>4, <1>5, <2>0, <2>1, <3>1
  <2>2. CASE n # job.who
    <3>1. ovpn'[n] = ovpn[n]
      BY <1>2, <2>2 DEF WholeInv, TypeInv, TypeOK
    <3>2. QED
      BY <1>1, <1>2, <2>0, <3>1 DEF WholeInv, CopyInv, ProfilesCopied, Serving
  <2>3. QED
    BY <2>1, <2>2
<1>7. ServerCopied'
  BY <1>1, <1>2 DEF WholeInv, CopyInv, ServerCopied, Serving
<1>8. QED
  BY <1>2, <1>6, <1>7, UnfinishedBuild DEF CopyInv, Building, Serving

\* Where build.json is written, what is under dist/ works.
LEMMA StampMeansWorks ==
  ASSUME WholeInv, WriteStamp, Intact(dist'.stamp)
  PROVE  Works'
<1> USE DEF WholeInv
<1>1. /\ pc = "clients" /\ ovpn' = ovpn
      /\ \A f \in DistFiles \ {"stamp"} : dist'[f] = dist[f]
  BY DEF WriteStamp, TypeInv, TypeOK, DistServer, DistFiles
<1>2. /\ dist.conf = job.cfg.server /\ dist.ca = crt[CA] /\ dist.tls = tls
      /\ dist.crt = crt[Server] /\ dist.key = key[Server]
      /\ dist.tls # NoFile /\ dist.crt # NoFile
  BY <1>1 DEF DistInv, ServerMatches, CopyInv, ServerCopied, StampInv, FilesInOrder, Copies, Serving
<1>3. OneCa
  BY <1>1 DEF ChainInv, BuildPcs
<1>4. crt[CA] \in Certs /\ Intact(crt[CA])
  BY <1>3, MissingAssumption DEF OneCa, Intact
<1>5. HasPair(Server)
  BY <1>1, <1>2 DEF PkiWhole, PairsWhole, Waiting, Leaves
<1>6. Accepted(crt[CA], crt[Server], key[Server])
  BY <1>3, <1>4, <1>5 DEF Accepted, HasPair, OneCa, SignedBy, Leaves
<1>7. Intact(job.cfg.server)
  BY <1>1, MissingAssumption DEF TypeInv, ConfigHeld, Configs, Intact
<1>8. Intact(tls)
  BY <1>2 DEF PkiWhole, NothingTorn, Intact, Missing
<1>9. ASSUME NEW n \in Clients, ovpn[n] # NoFile
      PROVE  /\ Intact(ovpn[n])
             /\ Accepted(crt[CA], ovpn[n].crt, ovpn[n].key)
             /\ Accepted(ovpn[n].ca, crt[Server], key[Server])
             /\ ovpn[n].tls = tls
  <2>1. /\ Intact(ovpn[n]) /\ HasPair(n)
        /\ ovpn[n].crt = crt[n] /\ ovpn[n].key = key[n]
    BY <1>1, <1>9 DEF CopyInv, ProfilesCopied, Serving
  <2>2. ovpn[n].ca = crt[CA] /\ ovpn[n].tls = tls
    BY <1>1, <2>1 DEF DistInv, ProfilesMatch, Serving
  <2>3. Accepted(crt[CA], crt[n], key[n])
    BY <1>3, <1>4, <2>1 DEF Accepted, HasPair, OneCa, SignedBy, Leaves
  <2>4. QED
    BY <1>6, <2>1, <2>2, <2>3
<1>10. /\ dist'.conf = dist.conf /\ dist'.ca = dist.ca /\ dist'.tls = dist.tls
       /\ dist'.crt = dist.crt /\ dist'.key = dist.key
  BY <1>1 DEF DistFiles
<1>11. QED
  BY <1>1, <1>2, <1>6, <1>7, <1>8, <1>9, <1>10 DEF Works, Accepted, Intact

\* The client half of build keeps CopyInv.
LEMMA BuildClientStepCopy ==
  ASSUME OnlyEditsAbort
  PROVE  WholeInv /\ StampInv' /\ BuildClientStep => CopyInv'
<1> SUFFICES ASSUME WholeInv, StampInv', BuildClientStep PROVE CopyInv'
  OBVIOUS
<1> USE DEF WholeInv
<1>1. CASE ReadShared
  <2>1. /\ pc = "shared" /\ pc' = "clients" /\ dist' = dist /\ crt' = crt /\ key' = key
        /\ \A n \in Clients : ovpn'[n] = NoFile
    BY <1>1 DEF ReadShared, disk, DistInv, NoProfileYet, Copies
  <2>2. QED
    BY <2>1, UnfinishedBuild DEF CopyInv, ServerCopied, ProfilesCopied, Building, Serving
<1>2. ASSUME NEW n \in Clients, IssueClient(n)
      PROVE  CopyInv'
  <2>1. pc = "clients" /\ n \in job.todo /\ dist' = dist /\ ovpn' = ovpn
    BY <1>2 DEF IssueClient, IssueCrt
  <2>2. /\ pc' = "client_key" /\ key' = key
        /\ \A p \in Owners \ {n} : crt'[p] = crt[p]
    BY <1>2, IssueCrtPki DEF IssueClient, Leaves
  <2>3. ovpn[n] = NoFile
    BY <2>1 DEF StampInv, ClientsInTurn, Serving
  <2>4. QED
    BY <2>1, <2>2, <2>3, CopyServing, OwnersAssumption DEF Serving, Owners
<1>3. CASE WriteClientKey
  <2>1. pc = "client_key" /\ dist' = dist /\ ovpn' = ovpn
    BY <1>3 DEF WriteClientKey, WriteKey
  <2>2. job.who \in job.todo /\ job.who \in Clients /\ ovpn[job.who] = NoFile
    BY <2>1 DEF StampInv, ClientsInTurn, Serving, TypeInv, TypeOK, Jobs
  <2>3. /\ pc' = "ovpn" /\ crt' = crt
        /\ \A p \in Owners \ {job.who} : key'[p] = key[p]
    BY <1>3, WriteKeyPki DEF WriteClientKey, TypeInv, TypeOK
  <2>4. QED
    BY <2>1, <2>2, <2>3, CopyServing, OwnersAssumption DEF Serving, Owners
<1>4. ASSUME NEW n \in Clients, ReuseClient(n)
      PROVE  CopyInv'
  BY <1>4, CopyServing DEF ReuseClient, disk, Serving
<1>5. ASSUME NEW n \in Clients, ClientFails(n)
      PROVE  CopyInv'
  BY <1>5, CopyOutside DEF ClientFails, Fail, Halt, disk, Building, BeforeCopies, Copies, Serving
<1>6. CASE WriteOvpn
  BY <1>6, WriteOvpnCopy
<1>7. CASE WriteStamp
  <2>1. pc' = "idle"
    BY <1>7 DEF WriteStamp, Halt
  <2>2. Finished'
    BY <1>7, StampMeansWorks DEF Finished, Intact
  <2>3. QED
    BY <2>1, <2>2 DEF CopyInv, ServerCopied, ProfilesCopied, Serving
<1>8. QED
  BY <1>1, <1>2, <1>3, <1>4, <1>5, <1>6, <1>7 DEF BuildClientStep

\* CopyInv is inductive beside the rest of WholeInv.
LEMMA NextCopy ==
  ASSUME OnlyEditsAbort
  PROVE  WholeInv /\ StampInv' /\ [Next]_vars => CopyInv'
<1> SUFFICES ASSUME WholeInv, StampInv', [Next]_vars PROVE CopyInv'
  OBVIOUS
<1>1. CASE Start \/ InitStep \/ Abort
  <2>1. dist' = dist /\ ovpn' = ovpn /\ pc \notin {"clean_dist", "build_dist"}
    BY <1>1, NoTearing DEF Start, InitStart, ConfigSet, ClientAdd, ClientRemove, Edit,
         BuildStart, CleanLocalStart, InitStep, InitClear, InitCleared, InitGenerate,
         InitGenerateFails, SaveCaCrt, SaveCaKey, SaveConfig, Abort, Fail, disk
  <2>2. pc' \notin Building
    BY <1>1 DEF Start, InitStart, ConfigSet, ClientAdd, ClientRemove, Edit,
         BuildStart, CleanLocalStart, InitStep, InitClear, InitCleared, InitGenerate,
         InitGenerateFails, SaveCaCrt, SaveCaKey, SaveConfig, Abort, Fail, Halt, Proceed,
         Building, BeforeCopies, Copies, Serving
  <2>3. QED
    BY <2>1, <2>2, CopyOutside DEF WholeInv
<1>2. CASE UNCHANGED vars
  <2>1. Works => Works'
    BY <1>2 DEF vars, Works, Accepted, Intact
  <2>2. \A o : HasPair(o) => HasPair(o)'
    BY <1>2 DEF vars, HasPair, Intact
  <2>3. QED
    BY <1>2, <2>1, <2>2
    DEF vars, WholeInv, CopyInv, ServerCopied, ProfilesCopied, Finished, Intact
<1>3. QED
  BY <1>1, <1>2, BuildServerStepCopy, BuildClientStepCopy DEF Next, Step

\* As long as nothing but an edit is interrupted, what a finished build left
\* works until dist/ is removed, for any clients and settings: the server and
\* each client present certificates of the CA the other one was given, with
\* their private keys, and share the tls-crypt key.  Whatever happens to the
\* configuration and to pki/ in between changes nothing of it.
THEOREM WhatShipsWorks ==
  ASSUME OnlyEditsAbort
  PROVE  Spec => []ShippedWorks
<1>1. "init" \notin Abortable
  BY DEF OnlyEditsAbort
<1>2. Spec => [](TypeInv /\ ChainInv)
  BY <1>1, ChainInvariant
<1>3. Init => PkiWhole /\ CopyInv
  BY MissingAssumption DEF Init, PkiWhole, NothingTorn, PairsWhole, PairDue, CopyInv,
       ServerCopied, ProfilesCopied, Finished, Serving, NoDist, Intact, Missing, Leaves, Owners
<1>4. TypeInv /\ ChainInv /\ PkiWhole /\ [Next]_vars => PkiWhole'
  BY NextPki
<1>5. WholeInv /\ [Next]_vars => CopyInv'
  BY NextStamp, NextCopy DEF WholeInv
<1>6. WholeInv => ShippedWorks
  BY DEF WholeInv, CopyInv, Finished, Works, ShippedWorks
<1>7. WholeInv <=> TypeInv /\ DistInv /\ StampInv /\ ChainInv /\ PkiWhole /\ CopyInv
  BY DEF WholeInv
<1>8. QED
  BY <1>2, <1>3, <1>4, <1>5, <1>6, <1>7, DistInvariant, InitStamp, NextStamp, PTL DEF Spec
=============================================================================
