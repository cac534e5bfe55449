----------------------------- MODULE Workspace -----------------------------
(***************************************************************************)
(* The project directory of tunsmith: tunsmith.json, pki/ and dist/, and   *)
(* the commands that write them: init, config set, client add / remove,    *)
(* build and remote clean local.                                           *)
(*                                                                         *)
(* One command runs at a time.  A command is a sequence of steps, one per  *)
(* file it removes or writes, because the program takes no lock, renames   *)
(* no temporary file and undoes nothing: a command that is killed, or that *)
(* meets an I/O error, leaves what it has written so far.  fs::write       *)
(* truncates the file and then fills it, so the file being written may be  *)
(* left Torn.  CONSTANT Abortable names the commands that may stop so.     *)
(*                                                                         *)
(* Keys are numbers, each generated once.  A certificate is the number of  *)
(* its subject's key and of the key that signed it.  A server section of   *)
(* tunsmith.json is a member of Settings, of which the build's tests tell  *)
(* apart only an empty host, a host no certificate can name and a subnet   *)
(* no server.conf can be made from.                                        *)
(***************************************************************************)
EXTENDS Naturals, FiniteSets

CONSTANTS
  Clients,    \* client names
  Settings,   \* values of the "server" section of tunsmith.json
  NoHost,     \* the Settings whose host is empty
  BadHost,    \* the Settings whose host host_to_san refuses
  BadSubnet,  \* the Settings whose subnet build_server_config refuses
  CA, Server, \* owners of the certificates that are not a client's
  NoFile,     \* the file does not exist
  Torn,       \* the file exists with part of its content
  Abortable,  \* the commands that may be interrupted
  MaxKey      \* bound on the keys generated: no command starts that could pass it

Commands == {"init", "edit", "build", "clean"}

ASSUME SettingsAssumption ==
  NoHost \subseteq Settings /\ BadHost \subseteq Settings /\ BadSubnet \subseteq Settings
ASSUME OwnersAssumption == CA # Server /\ CA \notin Clients /\ Server \notin Clients
ASSUME BoundsAssumption ==
  IsFiniteSet(Clients) /\ Abortable \subseteq Commands /\ MaxKey \in Nat

Owners == Clients \union {CA, Server}
Leaves == Clients \union {Server}
Keys == Nat
Certs == [id : Keys, ca : Keys]
Configs == [server : Settings, clients : SUBSET Clients]
Missing == {NoFile, Torn}
Profiles == [ca : Certs \union Missing, tls : Keys \union Missing,
             crt : Certs \union Missing, key : Keys \union Missing,
             server : Settings]
Pairs == [crt : Certs \union Missing, key : Keys \union Missing]
DistServer == [conf : Settings \union Missing, ca : Certs \union Missing,
               crt : Certs \union Missing, key : Keys \union Missing,
               tls : Keys \union Missing, stamp : {"built"} \union Missing]
Jobs == [cfg : Configs \union Missing, ca : Pairs, leaf : Pairs,
         shared : [ca : Certs \union Missing, tls : Keys \union Missing],
         todo : SUBSET Clients, who : Owners]

\* A file that is there with all its content.
Intact(file) == file \notin Missing

ASSUME MissingAssumption ==
  /\ NoFile # Torn
  /\ \A m \in Missing : m \notin Certs \union Keys \union Settings \union Profiles

VARIABLES
  cfg,   \* tunsmith.json
  crt,   \* pki: the certificate of each owner
  key,   \* pki: the private key of each owner
  tls,   \* pki/server/tls-crypt.key
  dist,  \* dist/server/* and dist/build.json
  ovpn,  \* dist/clients/<client>.ovpn
  pc,    \* where the running command is; "idle" between commands
  job,   \* what the running command holds in memory
  fresh  \* the next key

disk == <<cfg, crt, key, tls, dist, ovpn>>
vars == <<cfg, crt, key, tls, dist, ovpn, pc, job, fresh>>

DistFiles == {"conf", "ca", "crt", "key", "tls", "stamp"}
NoDist == [conf |-> NoFile, ca |-> NoFile, crt |-> NoFile, key |-> NoFile,
           tls |-> NoFile, stamp |-> NoFile]
NoPair == [crt |-> NoFile, key |-> NoFile]
NoJob == [cfg |-> NoFile, ca |-> NoPair, leaf |-> NoPair,
          shared |-> [ca |-> NoFile, tls |-> NoFile], todo |-> {}, who |-> CA]

Init ==
  /\ cfg = NoFile
  /\ crt = [o \in Owners |-> NoFile]
  /\ key = [o \in Owners |-> NoFile]
  /\ tls = NoFile
  /\ dist = NoDist
  /\ ovpn = [n \in Clients |-> NoFile]
  /\ pc = "idle"
  /\ job = NoJob
  /\ fresh = 0

-----------------------------------------------------------------------------
(* Steps and interruptions.                                                *)

InitPcs  == {"init_clear", "init_ca", "ca_crt", "ca_key", "init_cfg"}
EditPcs  == {"edit_cfg"}
CleanPcs == {"clean_dist"}
\* The build before and after it has removed the previous dist/.
BuildPcs == {"build_dist", "server_crt", "server_key", "tls", "conf",
             "copy_ca", "copy_crt", "copy_key", "copy_tls", "shared",
             "clients", "client_key", "ovpn"}
Pcs == {"idle"} \union InitPcs \union EditPcs \union CleanPcs \union BuildPcs

\* The running command may be interrupted here.
MayAbort ==
  \/ pc \in InitPcs  /\ "init"  \in Abortable
  \/ pc \in EditPcs  /\ "edit"  \in Abortable
  \/ pc \in CleanPcs /\ "clean" \in Abortable
  \/ pc \in BuildPcs /\ "build" \in Abortable

Halt == pc' = "idle" /\ job' = NoJob

\* The command stops with no file written: an error return of its own.
Fail == Halt /\ UNCHANGED <<disk, fresh>>

\* The outcomes of a write: whole, or torn by an interruption.
Tearing == IF MayAbort THEN BOOLEAN ELSE {FALSE}
Written(torn, content) == IF torn THEN Torn ELSE content
Proceed(torn, next, memory) ==
  IF torn THEN Halt ELSE pc' = next /\ job' = memory

\* pki_exists: both CA files are there, whatever is in them.
PkiExists == crt[CA] # NoFile /\ key[CA] # NoFile
\* load_config: a torn file does not parse.
ConfigLoads == Intact(cfg)

-----------------------------------------------------------------------------
(* init.                                                                   *)

\* Mutant: --force writes a new CA into the pki/ that is there.
InitStartKeepsPki(force, s) ==
  /\ pc = "idle" /\ fresh < MaxKey
  /\ force \/ ~PkiExists
  /\ pc' = "init_ca"
  /\ job' = [NoJob EXCEPT !.cfg = [server |-> s, clients |-> {}]]
  /\ UNCHANGED <<disk, fresh>>

\* `init' on an initialized project without --force changes nothing and is
\* not a step.
InitStart(force, s) ==
  /\ pc = "idle" /\ fresh < MaxKey
  /\ force \/ ~PkiExists
  /\ pc' = IF force THEN "init_clear" ELSE "init_ca"
  /\ job' = [NoJob EXCEPT !.cfg = [server |-> s, clients |-> {}]]
  /\ UNCHANGED <<disk, fresh>>

\* remove_dir_all(pki): the files go one by one, in the order the directory
\* lists them, which nothing fixes.
InitClear ==
  /\ pc = "init_clear"
  /\ \/ \E o \in Owners :
          /\ crt[o] # NoFile
          /\ crt' = [crt EXCEPT ![o] = NoFile]
          /\ UNCHANGED <<key, tls>>
     \/ \E o \in Owners :
          /\ key[o] # NoFile
          /\ key' = [key EXCEPT ![o] = NoFile]
          /\ UNCHANGED <<crt, tls>>
     \/ tls # NoFile /\ tls' = NoFile /\ UNCHANGED <<crt, key>>
  /\ UNCHANGED <<cfg, dist, ovpn, pc, job, fresh>>

PkiCleared ==
  tls = NoFile /\ \A o \in Owners : crt[o] = NoFile /\ key[o] = NoFile

InitCleared ==
  /\ pc = "init_clear" /\ PkiCleared
  /\ pc' = "init_ca"
  /\ UNCHANGED <<disk, job, fresh>>

\* generate_root_ca: a new self-signed certificate.
InitGenerate ==
  /\ pc = "init_ca"
  /\ pc' = "ca_crt"
  /\ job' = [job EXCEPT !.ca = [crt |-> [id |-> fresh, ca |-> fresh], key |-> fresh]]
  /\ fresh' = fresh + 1
  /\ UNCHANGED disk

\* generate_root_ca refuses the country code, or overflows on the validity,
\* after the old pki/ is gone.
InitGenerateFails == pc = "init_ca" /\ Fail

SaveCaCrt ==
  /\ pc = "ca_crt"
  /\ \E torn \in Tearing :
       /\ crt' = [crt EXCEPT ![CA] = Written(torn, job.ca.crt)]
       /\ Proceed(torn, "ca_key", job)
  /\ UNCHANGED <<cfg, key, tls, dist, ovpn, fresh>>

\* Mutant: a ca.key that is there is kept.
SaveCaKeyIfMissing ==
  /\ pc = "ca_key"
  /\ \E torn \in Tearing :
       /\ key' = [key EXCEPT ![CA] = IF @ = NoFile THEN Written(torn, job.ca.key) ELSE @]
       /\ Proceed(torn, "init_cfg", job)
  /\ UNCHANGED <<cfg, crt, tls, dist, ovpn, fresh>>

SaveCaKey ==
  /\ pc = "ca_key"
  /\ \E torn \in Tearing :
       /\ key' = [key EXCEPT ![CA] = Written(torn, job.ca.key)]
       /\ Proceed(torn, "init_cfg", job)
  /\ UNCHANGED <<cfg, crt, tls, dist, ovpn, fresh>>

\* save_config, the last step of init and of every edit.
SaveConfig ==
  /\ pc \in {"init_cfg", "edit_cfg"}
  /\ \E torn \in Tearing : cfg' = Written(torn, job.cfg)
  /\ Halt
  /\ UNCHANGED <<crt, key, tls, dist, ovpn, fresh>>

-----------------------------------------------------------------------------
(* config set, client add, client remove: load, change, save.              *)

Edit(new) ==
  /\ pc' = "edit_cfg"
  /\ job' = [NoJob EXCEPT !.cfg = new]
  /\ UNCHANGED <<disk, fresh>>

ConfigSet(s) ==
  pc = "idle" /\ ConfigLoads /\ Edit([cfg EXCEPT !.server = s])

ClientAdd(n) ==
  /\ pc = "idle" /\ ConfigLoads /\ n \notin cfg.clients
  /\ Edit([cfg EXCEPT !.clients = @ \union {n}])

ClientRemove(n) ==
  /\ pc = "idle" /\ ConfigLoads /\ n \in cfg.clients
  /\ Edit([cfg EXCEPT !.clients = @ \ {n}])

-----------------------------------------------------------------------------
(* remote clean local, and the removal of dist/ that begins a build.       *)

DistCleared == dist = NoDist /\ \A n \in Clients : ovpn[n] = NoFile

CleanLocalStart ==
  /\ pc = "idle" /\ ~DistCleared
  /\ pc' = "clean_dist"
  /\ UNCHANGED <<disk, job, fresh>>

\* remove_dir_all(dist), one file at a time in any order.
RemoveDist ==
  /\ pc \in {"clean_dist", "build_dist"}
  /\ \/ \E f \in DistFiles :
          /\ dist[f] # NoFile
          /\ dist' = [dist EXCEPT ![f] = NoFile]
          /\ UNCHANGED ovpn
     \/ \E n \in Clients :
          /\ ovpn[n] # NoFile
          /\ ovpn' = [ovpn EXCEPT ![n] = NoFile]
          /\ UNCHANGED dist
  /\ UNCHANGED <<cfg, crt, key, tls, pc, job, fresh>>

CleanLocalDone == pc = "clean_dist" /\ DistCleared /\ Fail

-----------------------------------------------------------------------------
(* build.                                                                  *)

\* The keys a build makes: one for each pair it issues, and tls-crypt.
KeysNeeded ==
  Cardinality({o \in cfg.clients \union {Server} : crt[o] = NoFile})
    + (IF tls = NoFile THEN 1 ELSE 0)

\* Mutant: dist/ is not removed first.
BuildStartKeepsDist ==
  /\ pc = "idle"
  /\ PkiExists /\ ConfigLoads
  /\ cfg.server \notin NoHost
  /\ fresh + KeysNeeded <= MaxKey
  /\ pc' = "server_crt"
  /\ job' = [NoJob EXCEPT !.cfg = cfg,
                          !.ca = [crt |-> crt[CA], key |-> key[CA]],
                          !.todo = cfg.clients]
  /\ UNCHANGED <<disk, fresh>>

\* The checks, the configuration and the CA are read once, here.
BuildStart ==
  /\ pc = "idle"
  /\ PkiExists /\ ConfigLoads
  /\ cfg.server \notin NoHost
  /\ fresh + KeysNeeded <= MaxKey
  /\ pc' = "build_dist"
  /\ job' = [NoJob EXCEPT !.cfg = cfg,
                          !.ca = [crt |-> crt[CA], key |-> key[CA]],
                          !.todo = cfg.clients]
  /\ UNCHANGED <<disk, fresh>>

BuildDistRemoved ==
  /\ pc = "build_dist" /\ DistCleared
  /\ pc' = "server_crt"
  /\ UNCHANGED <<disk, job, fresh>>

\* Mutant: a torn CA key signs.
CanIssueUnparsed == Intact(job.ca.crt)

\* issue_*_cert parses both CA files and signs with the CA key it was given;
\* it does not compare that key with the CA certificate.
CanIssue == Intact(job.ca.crt) /\ Intact(job.ca.key)

\* Mutant: one key is generated for all the pairs of a build.
NewLeafHoisted ==
  LET k == IF Intact(job.leaf.key) THEN job.leaf.key ELSE fresh
  IN  [crt |-> [id |-> k, ca |-> job.ca.key], key |-> k]

NewLeaf == [crt |-> [id |-> fresh, ca |-> job.ca.key], key |-> fresh]

\* Mutant: a certificate that is there is issued again.
IssueCrtAgain(o, next) ==
  /\ CanIssue
  /\ \E torn \in Tearing :
       /\ crt' = [crt EXCEPT ![o] = Written(torn, NewLeaf.crt)]
       /\ Proceed(torn, next, [job EXCEPT !.leaf = NewLeaf, !.who = o])
  /\ fresh' = fresh + 1
  /\ UNCHANGED <<cfg, key, tls, dist, ovpn>>

\* Issue a pair for owner o and write its certificate, the first of the two.
IssueCrt(o, next) ==
  /\ crt[o] = NoFile /\ CanIssue
  /\ \E torn \in Tearing :
       /\ crt' = [crt EXCEPT ![o] = Written(torn, NewLeaf.crt)]
       /\ Proceed(torn, next, [job EXCEPT !.leaf = NewLeaf, !.who = o])
  /\ fresh' = fresh + 1
  /\ UNCHANGED <<cfg, key, tls, dist, ovpn>>

\* Mutant: the key of the pair is not saved.
IssueServerSkipsKey ==
  /\ pc = "server_crt" /\ job.cfg.server \notin BadHost
  /\ IssueCrt(Server, "tls")

IssueServer ==
  /\ pc = "server_crt" /\ job.cfg.server \notin BadHost
  /\ IssueCrt(Server, "server_key")

IssueServerFails ==
  /\ pc = "server_crt" /\ crt[Server] = NoFile
  /\ ~CanIssue \/ job.cfg.server \in BadHost
  /\ Fail

\* The certificate file is there: nothing is issued, nor its key looked at.
ReuseServer ==
  /\ pc = "server_crt" /\ crt[Server] # NoFile
  /\ pc' = "tls"
  /\ UNCHANGED <<disk, job, fresh>>

\* The second file of the pair that IssueCrt issued.
WriteKey(at, next) ==
  /\ pc = at
  /\ \E torn \in Tearing :
       /\ key' = [key EXCEPT ![job.who] = Written(torn, job.leaf.key)]
       /\ Proceed(torn, next, job)
  /\ UNCHANGED <<cfg, crt, tls, dist, ovpn, fresh>>

WriteServerKey == WriteKey("server_key", "tls")

\* Mutant: a tls-crypt key is made whether or not there is one.
MakeTlsCryptAlways ==
  /\ pc = "tls"
  /\ \E torn \in Tearing :
       /\ tls' = Written(torn, fresh)
       /\ Proceed(torn, "conf", job)
  /\ fresh' = fresh + 1
  /\ UNCHANGED <<cfg, crt, key, dist, ovpn>>

MakeTlsCrypt ==
  /\ pc = "tls" /\ tls = NoFile
  /\ \E torn \in Tearing :
       /\ tls' = Written(torn, fresh)
       /\ Proceed(torn, "conf", job)
  /\ fresh' = fresh + 1
  /\ UNCHANGED <<cfg, crt, key, dist, ovpn>>

ReuseTlsCrypt ==
  /\ pc = "tls" /\ tls # NoFile
  /\ pc' = "conf"
  /\ UNCHANGED <<disk, job, fresh>>

\* Write one file of dist/server.
WriteDist(f, content, next) ==
  /\ \E torn \in Tearing :
       /\ dist' = [dist EXCEPT ![f] = Written(torn, content)]
       /\ Proceed(torn, next, job)
  /\ UNCHANGED <<cfg, crt, key, tls, ovpn, fresh>>

WriteConf ==
  /\ pc = "conf" /\ job.cfg.server \notin BadSubnet
  /\ WriteDist("conf", job.cfg.server, "copy_ca")

WriteConfFails == pc = "conf" /\ job.cfg.server \in BadSubnet /\ Fail

\* A copy reads its source again and fails when it is not there.
Copy(at, source, f, next) ==
  /\ pc = at
  /\ IF source = NoFile THEN Fail ELSE WriteDist(f, source, next)

\* Mutant: the copy takes the wrong source.
CopyKeyOfCa == Copy("copy_key", key[CA], "key", "copy_tls")

CopyCa  == Copy("copy_ca", crt[CA], "ca", "copy_crt")
CopyCrt == Copy("copy_crt", crt[Server], "crt", "copy_key")
CopyKey == Copy("copy_key", key[Server], "key", "copy_tls")
CopyTls == Copy("copy_tls", tls, "tls", "shared")

\* ca.crt and tls-crypt.key are read once for all the client profiles.
ReadShared ==
  /\ pc = "shared"
  /\ pc' = "clients"
  /\ job' = [job EXCEPT !.shared = [ca |-> crt[CA], tls |-> tls]]
  /\ UNCHANGED <<disk, fresh>>

\* Mutant: the key of the pair is not saved.
IssueClientSkipsKey(n) ==
  pc = "clients" /\ n \in job.todo /\ IssueCrt(n, "ovpn")

\* The clients are served one by one; their order does not matter here.
IssueClient(n) ==
  pc = "clients" /\ n \in job.todo /\ IssueCrt(n, "client_key")

ReuseClient(n) ==
  /\ pc = "clients" /\ n \in job.todo
  /\ crt[n] # NoFile /\ key[n] # NoFile
  /\ pc' = "ovpn"
  /\ job' = [job EXCEPT !.leaf = [crt |-> crt[n], key |-> key[n]], !.who = n]
  /\ UNCHANGED <<disk, fresh>>

\* The certificate is there and its key is not, or no certificate can be
\* issued.
ClientFails(n) ==
  /\ pc = "clients" /\ n \in job.todo
  /\ IF crt[n] # NoFile THEN key[n] = NoFile ELSE ~CanIssue
  /\ Fail

WriteClientKey == WriteKey("client_key", "ovpn")

\* Mutant: a client that was served is not struck off.
WriteOvpnKeepsTodo ==
  /\ pc = "ovpn"
  /\ \E torn \in Tearing :
       /\ ovpn' = [ovpn EXCEPT ![job.who] =
            Written(torn, [ca |-> job.shared.ca, tls |-> job.shared.tls,
                           crt |-> job.leaf.crt, key |-> job.leaf.key,
                           server |-> job.cfg.server])]
       /\ Proceed(torn, "clients", job)
  /\ UNCHANGED <<cfg, crt, key, tls, dist, fresh>>

WriteOvpn ==
  /\ pc = "ovpn"
  /\ \E torn \in Tearing :
       /\ ovpn' = [ovpn EXCEPT ![job.who] =
            Written(torn, [ca |-> job.shared.ca, tls |-> job.shared.tls,
                           crt |-> job.leaf.crt, key |-> job.leaf.key,
                           server |-> job.cfg.server])]
       /\ Proceed(torn, "clients", [job EXCEPT !.todo = @ \ {job.who}])
  /\ UNCHANGED <<cfg, crt, key, tls, dist, fresh>>

\* Mutant: the stamp is written before the client profiles.
WriteStampEarly ==
  /\ pc = "clients"
  /\ \E torn \in Tearing : dist' = [dist EXCEPT !.stamp = Written(torn, "built")]
  /\ Halt
  /\ UNCHANGED <<cfg, crt, key, tls, ovpn, fresh>>

\* dist/build.json, the last file of a build.
WriteStamp ==
  /\ pc = "clients" /\ job.todo = {}
  /\ \E torn \in Tearing : dist' = [dist EXCEPT !.stamp = Written(torn, "built")]
  /\ Halt
  /\ UNCHANGED <<cfg, crt, key, tls, ovpn, fresh>>

-----------------------------------------------------------------------------

\* The process is killed, or an I/O call fails, between two files.
Abort == MayAbort /\ Fail

Start ==
  \/ \E force \in BOOLEAN, s \in Settings : InitStart(force, s)
  \/ \E s \in Settings : ConfigSet(s)
  \/ \E n \in Clients : ClientAdd(n) \/ ClientRemove(n)
  \/ BuildStart
  \/ CleanLocalStart

\* A step of the running command.
InitStep ==
  \/ InitClear \/ InitCleared \/ InitGenerate \/ InitGenerateFails
  \/ SaveCaCrt \/ SaveCaKey \/ SaveConfig

BuildServerStep ==
  \/ RemoveDist \/ CleanLocalDone \/ BuildDistRemoved
  \/ IssueServer \/ IssueServerFails \/ ReuseServer \/ WriteServerKey
  \/ MakeTlsCrypt \/ ReuseTlsCrypt
  \/ WriteConf \/ WriteConfFails
  \/ CopyCa \/ CopyCrt \/ CopyKey \/ CopyTls

BuildClientStep ==
  \/ ReadShared
  \/ \E n \in Clients : IssueClient(n) \/ ReuseClient(n) \/ ClientFails(n)
  \/ WriteClientKey \/ WriteOvpn \/ WriteStamp

Step == InitStep \/ BuildServerStep \/ BuildClientStep

Next == Start \/ Step \/ Abort

Spec == Init /\ [][Next]_vars

\* A running command is scheduled; nobody is obliged to start one, and no
\* interruption has to come.
FairSpec == Spec /\ WF_vars(Step)

\* Owner o holds a certificate and the private key it certifies.
HasPair(o) == Intact(crt[o]) /\ Intact(key[o]) /\ key[o] = crt[o].id

\* The credentials as the Ledger sees them: an owner holds a key when its
\* certificate and that key are both there and belong together, and the key of
\* a pair whose second file is not written is drawn and not held.
Authority == INSTANCE Ledger WITH
  Owners <- Leaves,
  None <- NoFile,
  issued <- [o \in Leaves |-> IF HasPair(o) THEN key[o] ELSE NoFile],
  shared <- IF Intact(tls) THEN tls ELSE NoFile,
  next <- fresh,
  drawn <- IF pc \in {"server_key", "client_key"} THEN job.leaf.key ELSE NoFile,
  resetting <- pc = "init_clear"

-----------------------------------------------------------------------------
(* Properties.                                                             *)

TypeOK ==
  /\ cfg \in Configs \union Missing
  /\ crt \in [Owners -> Certs \union Missing]
  /\ key \in [Owners -> Keys \union Missing]
  /\ tls \in Keys \union Missing
  /\ dist \in DistServer
  /\ ovpn \in [Clients -> Profiles \union Missing]
  /\ pc \in Pcs
  /\ job \in Jobs
  /\ fresh \in Keys

\* Whatever is interrupted, the intact files under dist/ come from one build:
\* every client profile embeds the CA certificate and the tls-crypt key that
\* lie in dist/server and was made for the settings of its server.conf, and
\* two profiles agree on all three.  (build removes dist/ before it writes
\* anything, commands/build.rs:49-51.)
SameBuild ==
  \A n \in Clients : Intact(ovpn[n]) =>
    /\ Intact(dist.ca)   => ovpn[n].ca = dist.ca
    /\ Intact(dist.tls)  => ovpn[n].tls = dist.tls
    /\ Intact(dist.conf) => ovpn[n].server = dist.conf
    /\ \A m \in Clients : Intact(ovpn[m]) =>
         /\ ovpn[m].ca = ovpn[n].ca
         /\ ovpn[m].tls = ovpn[n].tls
         /\ ovpn[m].server = ovpn[n].server

\* Once init is over, every certificate under pki/ is signed by the key that
\* pki/ca.crt certifies, and the CA key there is that key.
ChainOK ==
  (pc \notin InitPcs /\ Intact(crt[CA])) =>
    /\ Intact(key[CA]) => key[CA] = crt[CA].id
    /\ \A o \in Leaves : Intact(crt[o]) => crt[o].ca = crt[CA].id

\* A peer of owner o can present its certificate and is accepted by a peer
\* that trusts the certificate `ca'.
Accepted(ca, cert, private) ==
  /\ Intact(ca) /\ Intact(cert) /\ Intact(private)
  /\ cert.ca = ca.id /\ private = cert.id

\* After a build that reached its stamp, the server and each client of the
\* configuration it read accept each other: the chain, the private keys and
\* the tls-crypt key agree across the files that are copied to two machines.
ShippedWorks ==
  (pc = "idle" /\ Intact(dist.stamp)) =>
    /\ Intact(dist.conf) /\ Intact(dist.tls)
    /\ Accepted(dist.ca, dist.crt, dist.key)
    /\ \A n \in Clients : ovpn[n] # NoFile =>
         /\ Intact(ovpn[n])
         /\ Accepted(dist.ca, ovpn[n].crt, ovpn[n].key)
         /\ Accepted(ovpn[n].ca, dist.crt, dist.key)
         /\ ovpn[n].tls = dist.tls

\* build.json is written when everything it vouches for is in place: all of
\* dist/server, and a profile for exactly the clients of the configuration
\* the build read, so none of a client that was removed.
StampLast ==
  [][ (~Intact(dist.stamp) /\ Intact(dist'.stamp)) =>
        /\ \A f \in DistFiles : Intact(dist'[f]) \/ dist'[f] = Torn
        /\ \A n \in Clients : (ovpn[n] # NoFile) <=> (n \in job.cfg.clients) ]_vars

\* What was issued is never issued again: a certificate with its key, and the
\* tls-crypt key, stay as they are until `init --force' removes pki/, so a
\* profile handed to a client stays valid.  Holds whatever is interrupted.
IssuedStays ==
  [][ pc # "init_clear" =>
        /\ \A o \in Leaves : HasPair(o) => crt'[o] = crt[o] /\ key'[o] = key[o]
        /\ Intact(tls) => tls' = tls ]_vars

\* An init that comes to its end leaves a CA whose certificate and key belong
\* together beside its configuration, whatever half of a pki/ an earlier
\* init, interrupted or refused after it had deleted, left in its way.
InitRecovers ==
  [][ (pc = "init_cfg" /\ cfg' = job.cfg) =>
        Intact(crt'[CA]) /\ Intact(key'[CA]) /\ key'[CA] = crt'[CA].id ]_vars

\* The files of pki/, whatever is interrupted, keep the promises of Ledger:
\* numbers are drawn once, held until a reset and never taken over.
KeepsLedger == Authority!Spec

\* No two owners of intact pairs hold the same private key, also after init
\* --force and interrupted builds, and the tls-crypt key is none of theirs.
KeysAreOwn == Authority!InOneHand

\* A build finds the private key of the server certificate it reuses: the two
\* are issued on first need and reused as a pair.
BuildFindsServerKey == pc = "copy_key" => key[Server] # NoFile

\* A command that has started ends.
CommandEnds == pc # "idle" ~> pc = "idle"

\* A build that has passed its checks, on settings that can be built, leaves a
\* finished dist/: no state of pki/ that the commands can leave makes it fail
\* half way.
BuildDelivers ==
  \A s \in Settings \ (BadHost \union BadSubnet) :
    (pc = "build_dist" /\ job.cfg.server = s) ~> Intact(dist.stamp)
=============================================================================
