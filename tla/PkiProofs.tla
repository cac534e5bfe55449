---------------------------- MODULE PkiProofs ----------------------------
(***************************************************************************)
(* Theorems about Workspace and the files of pki/: that its credentials     *)
(* implement Ledger, for every set of clients and whatever is interrupted,  *)
(* and what follows from the theorem about Ledger; and what commands make   *)
(* of the pki/ that earlier commands left.                                 *)
(***************************************************************************)
EXTENDS WorkspaceProofs

-----------------------------------------------------------------------------
(* Ledger.                                                                 *)

Half == {"server_key", "client_key"}

\* Outside the removal of pki/, a step that touches neither pki/ nor the next
\* key draws nothing: it discards what was drawn, if anything was.
LEMMA QuietDiscards ==
  ASSUME crt' = crt, key' = key, tls' = tls, fresh' = fresh, pc' \notin Half,
         (pc = "init_clear") = (pc' = "init_clear")
  PROVE  Authority!Discard
BY DEF Authority!Discard, Authority!held, HasPair, Intact, Half

\* The files of the CA are nobody's credential.
LEMMA CaDiscards ==
  ASSUME TypeInv, SaveCaCrt \/ SaveCaKey
  PROVE  Authority!Discard
<1>1. \A o \in Leaves : crt'[o] = crt[o] /\ key'[o] = key[o]
  BY OwnersAssumption DEF SaveCaCrt, SaveCaKey, TypeInv, TypeOK, Leaves, Owners
<1>2. /\ tls' = tls /\ fresh' = fresh /\ pc' \notin Half
      /\ pc # "init_clear" /\ pc' # "init_clear"
  BY DEF SaveCaCrt, SaveCaKey, Proceed, Halt, Half
<1>3. QED
  BY <1>1, <1>2 DEF Authority!Discard, Authority!held, HasPair, Intact, Half

\* The certificate of a pair is written: its key is drawn, and is lost at once
\* when the file is torn.
LEMMA IssueCrtDraws ==
  ASSUME TypeInv, PairInv, NEW o \in Leaves, NEW next \in Half, pc \notin Half,
         pc # "init_clear", IssueCrt(o, next)
  PROVE  Authority!Draw
<1>1. \A p \in Leaves : ~HasPair(o) /\ ~HasPair(o)' /\ (p # o => HasPair(p)' <=> HasPair(p))
  <2>1. \A p \in Leaves \ {o} : crt'[p] = crt[p]
    BY DEF IssueCrt, TypeInv, TypeOK, Leaves, Owners
  <2>2. crt'[o] = Torn \/ crt'[o].id = fresh
    BY DEF IssueCrt, Written, NewLeaf, TypeInv, TypeOK, Leaves, Owners
  <2>3. key' = key /\ crt[o] = NoFile
    BY DEF IssueCrt
  <2>4. Intact(key[o]) => key[o] < fresh /\ key[o] \in Nat
    BY DEF PairInv, KeysOld, Leaves, Owners, Intact, TypeInv, TypeOK, Keys
  <2>5. fresh \in Nat
    BY DEF TypeInv, TypeOK, Keys
  <2>6. QED
    BY <2>1, <2>2, <2>3, <2>4, <2>5 DEF HasPair, Intact, Missing
<1>2. \/ pc' = next /\ job'.leaf.key = fresh
      \/ pc' = "idle"
  <2>1. [job EXCEPT !.leaf = NewLeaf, !.who = o].leaf.key = fresh
    <3>1. job \in Jobs
      BY DEF TypeInv, TypeOK
    <3>2. [job EXCEPT !.leaf = NewLeaf, !.who = o].leaf = NewLeaf
      BY <3>1 DEF Jobs
    <3>3. QED
      BY <3>2 DEF NewLeaf
  <2>2. QED
    BY <2>1 DEF IssueCrt, Proceed, Halt
<1>3. key' = key /\ tls' = tls /\ fresh' = fresh + 1
  BY DEF IssueCrt
<1>4. QED
  BY <1>1, <1>2, <1>3 DEF Authority!Draw, Authority!held, Half, Intact

\* The key of a pair is written: its owner holds it, or it is lost.
LEMMA WriteKeyIssues ==
  ASSUME TypeInv, PairInv, NEW at \in Half, NEW next \in {"tls", "ovpn"},
         WriteKey(at, next)
  PROVE  Authority!Next
<1>0. PICK w : w = job.who
  OBVIOUS
<1>1. /\ crt' = crt /\ tls' = tls /\ fresh' = fresh /\ pc = at
      /\ pc' \notin Half /\ pc' # "init_clear" /\ pc # "init_clear"
  BY DEF WriteKey, Proceed, Halt, Half
<1>2. /\ w \in Owners /\ ~HasPair(w)
      /\ \A o \in Owners \ {w} : key'[o] = key[o]
      /\ key'[w] = Torn \/ key'[w] = job.leaf.key
  BY <1>0, <1>1 DEF WriteKey, Written, TypeInv, TypeOK, Jobs, PairInv, HalfIssued, Half
<1>3. \A o \in Leaves \ {w} : HasPair(o)' <=> HasPair(o)
  BY <1>1, <1>2 DEF HasPair, Intact, Leaves, Owners
<1>4. CASE w \in Leaves /\ HasPair(w)'
  <2>1. key'[w] = job.leaf.key /\ Intact(job.leaf.key)
    BY <1>2, <1>4 DEF HasPair, Intact, Missing
  <2>2. [p \in Leaves |-> IF HasPair(p)' THEN key'[p] ELSE NoFile]
          = [[p \in Leaves |-> IF HasPair(p) THEN key[p] ELSE NoFile]
               EXCEPT ![w] = job.leaf.key]
    BY <1>2, <1>3, <1>4, <2>1 DEF Leaves, Owners
  <2>3. Authority!Issue(w)
    <3>1. job.leaf.key # NoFile
      BY <2>1 DEF Intact, Missing
    <3>2. QED
      BY <1>1, <1>2, <1>4, <2>2, <3>1 DEF Authority!Issue, Half
  <2>4. QED
    BY <1>4, <2>3 DEF Authority!Next
<1>5. CASE ~(w \in Leaves /\ HasPair(w)')
  <2>1. \A o \in Leaves : /\ HasPair(o)' <=> HasPair(o)
                          /\ HasPair(o) => key'[o] = key[o]
    BY <1>2, <1>3, <1>5 DEF Leaves, Owners
  <2>2. Authority!Discard
    BY <1>1, <2>1 DEF Authority!Discard, Authority!held, Half, Intact
  <2>3. QED
    BY <2>2 DEF Authority!Next
<1>6. QED
  BY <1>4, <1>5

\* The tls-crypt key is made, whole or torn.
LEMMA TlsSeals ==
  ASSUME TypeInv, MakeTlsCrypt
  PROVE  Authority!Seal \/ Authority!Draw
<1>1. /\ crt' = crt /\ key' = key /\ fresh' = fresh + 1 /\ tls = NoFile
      /\ tls' = Torn \/ tls' = fresh
      /\ pc = "tls" /\ pc' \in {"idle", "conf"}
  BY DEF MakeTlsCrypt, Written, Proceed, Halt
<1>2. fresh \in Keys
  BY DEF TypeInv, TypeOK
<1>3. fresh \notin Missing
  BY <1>2, MissingAssumption
<1>4. QED
  BY <1>1, <1>3 DEF Authority!Seal, Authority!Draw, Authority!held, HasPair, Intact, Missing

\* init --force takes files of pki/ away one by one.
LEMMA ClearForgets ==
  ASSUME TypeInv, InitClear
  PROVE  Authority!Forget \/ Authority!Discard
<1>1. /\ pc = "init_clear" /\ pc' = pc /\ fresh' = fresh
  BY DEF InitClear
<1>2. CASE tls' = NoFile /\ UNCHANGED <<crt, key>>
  BY <1>1, <1>2 DEF Authority!Forget, HasPair, Intact, Missing
<1>3. ASSUME NEW o \in Owners,
             \/ crt' = [crt EXCEPT ![o] = NoFile] /\ key' = key
             \/ key' = [key EXCEPT ![o] = NoFile] /\ crt' = crt,
             tls' = tls
      PROVE  Authority!Forget \/ Authority!Discard
  <2>1. \A p \in Owners \ {o} : crt'[p] = crt[p] /\ key'[p] = key[p]
    BY <1>3 DEF TypeInv, TypeOK
  <2>2. ~HasPair(o)'
    BY <1>3 DEF HasPair, Intact, Missing, TypeInv, TypeOK
  <2>3. CASE o \in Leaves
    <3>1. [p \in Leaves |-> IF HasPair(p)' THEN key'[p] ELSE NoFile]
            = [[p \in Leaves |-> IF HasPair(p) THEN key[p] ELSE NoFile] EXCEPT ![o] = NoFile]
      BY <2>1, <2>2, <2>3 DEF HasPair, Intact, Leaves, Owners
    <3>2. QED
      BY <1>1, <1>3, <2>3, <3>1 DEF Authority!Forget, Intact
  <2>4. CASE o \notin Leaves
    BY <1>1, <1>3, <2>1, <2>4
    DEF Authority!Discard, Authority!held, HasPair, Intact, Leaves, Owners
  <2>5. QED
    BY <2>3, <2>4
<1>4. QED
  BY <1>2, <1>3 DEF InitClear
\* What a step that is neither of init's nor of issuing leaves alone.
PkiStays ==
  crt' = crt /\ key' = key /\ tls' = tls /\ fresh' = fresh /\ pc' \notin Half

\* Starting a command draws nothing; init --force begins a reset.
LEMMA StartImplements == Start => Authority!Next
<1> SUFFICES ASSUME Start PROVE Authority!Next
  OBVIOUS
<1>1. pc = "idle" /\ PkiStays
  BY DEF Start, InitStart, ConfigSet, ClientAdd, ClientRemove, Edit, BuildStart,
         CleanLocalStart, disk, PkiStays, Half
<1>2. CASE pc' = "init_clear"
  BY <1>1, <1>2
  DEF Authority!Next, Authority!StartReset, Authority!held, PkiStays, HasPair, Intact, Half
<1>3. CASE pc' # "init_clear"
  BY <1>1, <1>3, QuietDiscards DEF Authority!Next, PkiStays
<1>4. QED
  BY <1>2, <1>3

\* An error or an interruption loses what was drawn, and ends a reset.
LEMMA FailImplements == Fail => Authority!Next
<1> SUFFICES ASSUME Fail PROVE Authority!Next
  OBVIOUS
<1>1. PkiStays /\ pc' = "idle"
  BY DEF Fail, Halt, disk, PkiStays, Half
<1>2. CASE pc = "init_clear"
  BY <1>1, <1>2
  DEF Authority!Next, Authority!EndReset, Authority!held, PkiStays, HasPair, Intact, Half
<1>3. CASE pc # "init_clear"
  BY <1>1, <1>3, QuietDiscards DEF Authority!Next, PkiStays
<1>4. QED
  BY <1>2, <1>3

\* The steps of init.
LEMMA InitStepImplements == TypeInv /\ InitStep => Authority!Next
<1> SUFFICES ASSUME TypeInv, InitStep PROVE Authority!Next
  OBVIOUS
<1>1. CASE InitClear
  BY <1>1, ClearForgets DEF Authority!Next
<1>2. CASE InitCleared
  BY <1>2 DEF InitCleared, disk, Authority!Next, Authority!EndReset, Authority!held, HasPair,
              Intact
<1>3. CASE InitGenerate
  BY <1>3 DEF InitGenerate, disk, Authority!Next, Authority!Draw, Authority!held, HasPair,
              Intact
<1>4. CASE InitGenerateFails
  BY <1>4, FailImplements DEF InitGenerateFails
<1>5. CASE SaveCaCrt \/ SaveCaKey
  BY <1>5, CaDiscards DEF Authority!Next
<1>6. CASE SaveConfig
  BY <1>6, QuietDiscards DEF SaveConfig, Halt, Half, Authority!Next
<1>7. QED
  BY <1>1, <1>2, <1>3, <1>4, <1>5, <1>6 DEF InitStep

\* The steps of a build.
LEMMA BuildStepImplements ==
  TypeInv /\ PairInv /\ (BuildServerStep \/ BuildClientStep) => Authority!Next
<1> SUFFICES ASSUME TypeInv, PairInv, BuildServerStep \/ BuildClientStep
             PROVE  Authority!Next
  OBVIOUS
<1>1. CASE IssueServer \/ \E n \in Clients : IssueClient(n)
  <2>1. Authority!Draw
    BY <1>1, IssueCrtDraws DEF IssueServer, IssueClient, Leaves, Half
  <2>2. QED
    BY <2>1 DEF Authority!Next
<1>2. CASE WriteServerKey \/ WriteClientKey
  BY <1>2, WriteKeyIssues DEF WriteServerKey, WriteClientKey, Half
<1>3. CASE MakeTlsCrypt
  BY <1>3, TlsSeals DEF Authority!Next
<1>4. CASE Fail
  BY <1>4, FailImplements
<1>5. CASE PkiStays /\ pc # "init_clear" /\ pc' # "init_clear"
  BY <1>5, QuietDiscards DEF PkiStays, Authority!Next
<1>6. CASE RemoveDist \/ BuildDistRemoved \/ ReuseServer \/ ReuseTlsCrypt \/ WriteConf
           \/ ((CopyCa \/ CopyCrt \/ CopyKey \/ CopyTls) /\ ~Fail)
  BY <1>5, <1>6 DEF RemoveDist, BuildDistRemoved, ReuseServer, ReuseTlsCrypt, WriteConf,
     CopyCa, CopyCrt, CopyKey, CopyTls, Copy, WriteDist, Proceed, Halt, PkiStays, Half, disk
<1>7. CASE ReadShared \/ (\E n \in Clients : ReuseClient(n)) \/ WriteOvpn \/ WriteStamp
  BY <1>5, <1>7 DEF ReadShared, ReuseClient, WriteOvpn, WriteStamp, Proceed, Halt, PkiStays,
     Half, disk
<1>8. QED
  BY <1>1, <1>2, <1>3, <1>4, <1>6, <1>7
  DEF BuildServerStep, BuildClientStep, CleanLocalDone, IssueServerFails, WriteConfFails,
      ClientFails

\* Workspace implements Ledger: every file that a command writes or removes,
\* whole or torn, is a step of the Ledger or none.
THEOREM ImplementsLedger == Spec => KeepsLedger
<1>1. Init => Authority!Init
  BY MissingAssumption
  DEF Init, Authority!Init, HasPair, Intact, Missing, Leaves, Owners
<1>2. TypeInv /\ PairInv /\ [Next]_vars => [Authority!Next]_(Authority!vars)
  <2> SUFFICES ASSUME TypeInv, PairInv, [Next]_vars
               PROVE  [Authority!Next]_(Authority!vars)
    OBVIOUS
  <2>1. CASE UNCHANGED vars
    BY <2>1 DEF vars, Authority!vars, HasPair, Intact
  <2>2. CASE Next
    BY <2>2, StartImplements, FailImplements, InitStepImplements, BuildStepImplements
    DEF Next, Step, Abort
  <2>3. QED
    BY <2>1, <2>2
<1>3. QED
  BY <1>1, <1>2, PairInvariant, PTL DEF Spec, KeepsLedger, Authority!Spec
\* No two owners of intact pairs ever hold the same private key, whatever was
\* interrupted: NumbersApart, carried over by the refinement.
THEOREM KeysNeverShared == Spec => []KeysAreOwn
<1>1. NoFile \notin Nat
  BY MissingAssumption DEF Missing, Keys
<1>2. Authority!Spec => []Authority!InOneHand
  BY <1>1, Authority!NumbersApart
<1>3. Authority!InOneHand => KeysAreOwn
  BY DEF KeysAreOwn
<1>4. QED
  BY <1>2, <1>3, ImplementsLedger, PTL DEF KeepsLedger

-----------------------------------------------------------------------------
(* init.                                                                   *)

Saving == {"ca_crt", "ca_key", "init_cfg"}

\* From the moment the CA is generated init holds a pair, and has saved as
\* much of it as its position says.
CaSaved ==
  /\ pc \in Saving =>
       /\ job.ca.crt \in Certs /\ job.ca.key \in Keys
       /\ job.ca.key = job.ca.crt.id
  /\ pc \in Saving \ {"ca_crt"} => crt[CA] = job.ca.crt
  /\ pc = "init_cfg" => key[CA] = job.ca.key

\* No other command gets to where init saves.
LEMMA OthersSaveNothing ==
  ASSUME Start \/ BuildServerStep \/ BuildClientStep \/ Fail
  PROVE  pc' \notin Saving
<1>1. CASE Start
  BY <1>1 DEF Start, InitStart, ConfigSet, ClientAdd, ClientRemove, Edit, BuildStart,
         CleanLocalStart, Saving
<1>2. CASE Fail
  BY <1>2 DEF Fail, Halt, Saving
<1>3. CASE RemoveDist \/ CleanLocalDone \/ BuildDistRemoved
  BY <1>2, <1>3 DEF RemoveDist, CleanLocalDone, BuildDistRemoved, Saving
<1>4. CASE IssueServer \/ WriteServerKey
  BY <1>4 DEF IssueServer, WriteServerKey, IssueCrt, WriteKey, Proceed, Halt, Saving
<1>5. CASE IssueServerFails \/ ReuseServer \/ MakeTlsCrypt \/ ReuseTlsCrypt
  BY <1>2, <1>5 DEF IssueServerFails, ReuseServer, MakeTlsCrypt, ReuseTlsCrypt, Proceed, Halt,
         Saving
<1>6. CASE WriteConf \/ WriteConfFails \/ CopyCa \/ CopyCrt \/ CopyKey \/ CopyTls
  BY <1>2, <1>6 DEF WriteConf, WriteConfFails, CopyCa, CopyCrt, CopyKey, CopyTls, Copy,
         WriteDist, Proceed, Halt, Saving
<1>7. CASE ReadShared \/ WriteClientKey \/ WriteOvpn \/ WriteStamp
  BY <1>7 DEF ReadShared, WriteClientKey, WriteKey, WriteOvpn, WriteStamp, Proceed, Halt, Saving
<1>8. CASE \E n \in Clients : IssueClient(n) \/ ReuseClient(n) \/ ClientFails(n)
  BY <1>2, <1>8 DEF IssueClient, IssueCrt, ReuseClient, ClientFails, Proceed, Halt, Saving
<1>9. QED
  BY <1>1, <1>2, <1>3, <1>4, <1>5, <1>6, <1>7, <1>8 DEF BuildServerStep, BuildClientStep

\* The steps of init.
LEMMA InitStepSaves == TypeInv /\ CaSaved /\ InitStep => CaSaved'
<1> SUFFICES ASSUME TypeInv, CaSaved, InitStep PROVE CaSaved'
  OBVIOUS
<1> USE DEF CaSaved, Saving
<1>1. CASE InitClear \/ InitCleared
  BY <1>1 DEF InitClear, InitCleared
<1>2. CASE InitGenerate
  <2>1. fresh \in Keys /\ job \in Jobs
    BY DEF TypeInv, TypeOK
  <2>2. /\ pc' = "ca_crt" /\ job'.ca.crt = [id |-> fresh, ca |-> fresh]
        /\ job'.ca.key = fresh
    BY <1>2, <2>1 DEF InitGenerate, Jobs
  <2>3. QED
    BY <2>1, <2>2 DEF Certs
<1>3. CASE InitGenerateFails
  BY <1>3 DEF InitGenerateFails, Fail, Halt
<1>4. CASE SaveCaCrt
  BY <1>4, OwnersAssumption DEF SaveCaCrt, Proceed, Halt, Written, TypeInv, TypeOK, Owners
<1>5. CASE SaveCaKey
  BY <1>5, OwnersAssumption DEF SaveCaKey, Proceed, Halt, Written, TypeInv, TypeOK, Owners
<1>6. CASE SaveConfig
  BY <1>6 DEF SaveConfig, Halt
<1>7. QED
  BY <1>1, <1>2, <1>3, <1>4, <1>5, <1>6 DEF InitStep

\* At its last position init does nothing to pki/, nor does its interruption.
LEMMA LastStep == [Next]_vars /\ pc = "init_cfg" => crt' = crt /\ key' = key
<1> SUFFICES ASSUME [Next]_vars, pc = "init_cfg" PROVE crt' = crt /\ key' = key
  OBVIOUS
<1>1. CASE UNCHANGED vars
  BY <1>1 DEF vars
<1>2. CASE Abort
  BY <1>2 DEF Abort, Fail, disk
<1>3. CASE Step
  <2>1. ~BuildServerStep
    BY DEF BuildServerStep, RemoveDist, CleanLocalDone, BuildDistRemoved, IssueServer,
       IssueServerFails, ReuseServer, WriteServerKey, WriteKey, MakeTlsCrypt, ReuseTlsCrypt,
       WriteConf, WriteConfFails, CopyCa, CopyCrt, CopyKey, CopyTls, Copy
  <2>2. ~BuildClientStep
    BY DEF BuildClientStep, ReadShared, IssueClient, ReuseClient, ClientFails,
       WriteClientKey, WriteKey, WriteOvpn, WriteStamp
  <2>3. InitStep => SaveConfig
    BY DEF InitStep, InitClear, InitCleared, InitGenerate, InitGenerateFails, SaveCaCrt,
       SaveCaKey
  <2>4. QED
    BY <1>3, <2>1, <2>2, <2>3 DEF Step, SaveConfig
<1>4. ~Start
  BY DEF Start, InitStart, ConfigSet, ClientAdd, ClientRemove, BuildStart, CleanLocalStart
<1>5. QED
  BY <1>1, <1>2, <1>3, <1>4 DEF Next

\* InitRecovers as a relation between a state and the next.
Recovered ==
  (pc = "init_cfg" /\ cfg' = job.cfg) =>
    Intact(crt'[CA]) /\ Intact(key'[CA]) /\ key'[CA] = crt'[CA].id

\* Every init that comes to its end leaves a CA that is whole, for any
\* settings and clients and whatever was interrupted before it.
THEOREM InitAlwaysRecovers == Spec => InitRecovers
<1>1. Init => CaSaved
  BY DEF Init, CaSaved, Saving
<1>2. TypeInv /\ CaSaved /\ [Next]_vars => CaSaved'
  <2> SUFFICES ASSUME TypeInv, CaSaved, [Next]_vars PROVE CaSaved'
    OBVIOUS
  <2>1. CASE UNCHANGED vars
    BY <2>1 DEF vars, CaSaved
  <2>2. CASE Start \/ BuildServerStep \/ BuildClientStep \/ Abort
    BY <2>2, OthersSaveNothing DEF Abort, CaSaved, Saving
  <2>3. QED
    BY <2>1, <2>2, InitStepSaves DEF Next, Step
<1>3. CaSaved /\ [Next]_vars => Recovered
  <2> SUFFICES ASSUME CaSaved, [Next]_vars, pc = "init_cfg"
               PROVE  Intact(crt'[CA]) /\ Intact(key'[CA]) /\ key'[CA] = crt'[CA].id
    BY DEF Recovered
  <2>1. crt' = crt /\ key' = key
    BY LastStep
  <2>2. /\ crt[CA] \in Certs /\ key[CA] \in Keys /\ key[CA] = crt[CA].id
    BY DEF CaSaved, Saving
  <2>3. QED
    BY <2>1, <2>2, MissingAssumption DEF Intact
<1>4. Spec => [][Recovered]_vars
  BY <1>1, <1>2, <1>3, InitType, NextType, PTL DEF Spec
<1>5. QED
  BY <1>4 DEF InitRecovers, Recovered

-----------------------------------------------------------------------------
(* build.                                                                  *)

\* From where the server certificate is dealt with to where its key is copied.
KeyDue == {"tls", "conf", "copy_ca", "copy_crt", "copy_key"}

\* The server has its key file when it has its certificate file, but while
\* the two go or come one after the other.
ServerKept ==
  /\ pc \notin {"init_clear", "server_key"} =>
       (crt[Server] # NoFile => key[Server] # NoFile)
  /\ pc \in KeyDue => key[Server] # NoFile
  /\ pc = "server_key" => job.who = Server
  /\ pc \in {"server_key", "client_key"} => job.leaf.key \in Keys

\* A step that leaves the server's files alone and gets to no position that
\* promises more of them.
LEMMA ServerStays ==
  ASSUME ServerKept, crt'[Server] = crt[Server], key'[Server] = key[Server],
         pc \notin {"init_clear", "server_key"},
         pc' \notin {"server_key", "client_key"},
         pc' \in KeyDue => pc \in KeyDue
  PROVE  ServerKept'
BY DEF ServerKept

\* Without interruptions, init keeps ServerKept.
LEMMA InitStepServer ==
  ASSUME "init" \notin Abortable
  PROVE  TypeInv /\ ServerKept /\ InitStep => ServerKept'
<1> SUFFICES ASSUME TypeInv, ServerKept, InitStep PROVE ServerKept'
  OBVIOUS
<1>1. CASE InitClear
  BY <1>1 DEF InitClear, ServerKept, KeyDue
<1>2. CASE InitCleared
  BY <1>2 DEF InitCleared, PkiCleared, disk, ServerKept, KeyDue, Owners
<1>3. CASE InitGenerate \/ InitGenerateFails \/ SaveConfig
  <2>1. crt' = crt /\ key' = key /\ pc \in {"init_ca", "init_cfg", "edit_cfg"}
    BY <1>3 DEF InitGenerate, InitGenerateFails, SaveConfig, Fail, disk
  <2>2. pc' \in {"ca_crt", "idle"}
    BY <1>3 DEF InitGenerate, InitGenerateFails, SaveConfig, Fail, Halt
  <2>3. QED
    BY <2>1, <2>2, ServerStays DEF KeyDue
<1>4. CASE SaveCaCrt \/ SaveCaKey
  <2>1. crt'[Server] = crt[Server] /\ key'[Server] = key[Server] /\ pc \in {"ca_crt", "ca_key"}
    BY <1>4, OwnersAssumption DEF SaveCaCrt, SaveCaKey, TypeInv, TypeOK, Owners
  <2>2. pc' \in {"ca_key", "init_cfg", "idle"}
    BY <1>4 DEF SaveCaCrt, SaveCaKey, Proceed, Halt
  <2>3. QED
    BY <2>1, <2>2, ServerStays DEF KeyDue
<1>5. QED
  BY <1>1, <1>2, <1>3, <1>4 DEF InitStep

\* Without interruptions, the issuing of a pair gets to its second file.
LEMMA IssueCrtGoesOn ==
  ASSUME "build" \notin Abortable, TypeInv, pc \in {"server_crt", "clients"},
         NEW o \in Leaves, NEW next, IssueCrt(o, next)
  PROVE  /\ pc' = next /\ key' = key
         /\ \A p \in Owners \ {o} : crt'[p] = crt[p]
         /\ job'.who = o /\ job'.leaf.key \in Keys
<1>1. Tearing = {FALSE}
  BY DEF Tearing, MayAbort, InitPcs, EditPcs, CleanPcs
<1>2. /\ crt' = [crt EXCEPT ![o] = NewLeaf.crt] /\ key' = key
      /\ pc' = next /\ job' = [job EXCEPT !.leaf = NewLeaf, !.who = o]
  BY <1>1 DEF IssueCrt, Written, Proceed
<1>3. NewLeaf.key \in Keys
  BY DEF NewLeaf, TypeInv, TypeOK
<1>4. QED
  BY <1>2, <1>3 DEF TypeInv, TypeOK, Jobs, Owners, Leaves

\* Without interruptions, the first half of build keeps ServerKept.
LEMMA BuildServerStepServer ==
  ASSUME "build" \notin Abortable
  PROVE  TypeInv /\ ServerKept /\ BuildServerStep => ServerKept'
<1> SUFFICES ASSUME TypeInv, ServerKept, BuildServerStep PROVE ServerKept'
  OBVIOUS
<1>1. CASE IssueServer
  <2>1. pc' = "server_key" /\ job'.who = Server /\ job'.leaf.key \in Keys
    BY <1>1, IssueCrtGoesOn DEF IssueServer, Leaves
  <2>2. QED
    BY <2>1 DEF ServerKept, KeyDue
<1>2. CASE WriteServerKey
  <2>1. pc = "server_key" /\ Tearing = {FALSE} /\ job.who = Server /\ job.leaf.key \in Keys
    BY <1>2 DEF WriteServerKey, WriteKey, Tearing, MayAbort, InitPcs, EditPcs, CleanPcs,
       ServerKept
  <2>2. key' = [key EXCEPT ![Server] = job.leaf.key] /\ pc' = "tls"
    BY <1>2, <2>1 DEF WriteServerKey, WriteKey, Written, Proceed
  <2>3. key'[Server] # NoFile
    BY <2>1, <2>2, MissingAssumption DEF TypeInv, TypeOK, Owners, Missing
  <2>4. QED
    BY <2>2, <2>3 DEF ServerKept, KeyDue
<1>3. CASE ReuseServer
  BY <1>3 DEF ReuseServer, disk, ServerKept, KeyDue
<1>4. CASE RemoveDist \/ CleanLocalDone \/ BuildDistRemoved \/ IssueServerFails
  <2>1. crt' = crt /\ key' = key /\ pc \in {"clean_dist", "build_dist", "server_crt"}
    BY <1>4 DEF RemoveDist, CleanLocalDone, BuildDistRemoved, IssueServerFails, Fail, disk
  <2>2. pc' \in {"clean_dist", "build_dist", "server_crt", "idle"}
    BY <1>4 DEF RemoveDist, CleanLocalDone, BuildDistRemoved, IssueServerFails, Fail, Halt
  <2>3. QED
    BY <2>1, <2>2, ServerStays DEF KeyDue
<1>5. CASE MakeTlsCrypt \/ ReuseTlsCrypt \/ WriteConf \/ WriteConfFails
  <2>1. crt' = crt /\ key' = key /\ pc \in KeyDue
    BY <1>5 DEF MakeTlsCrypt, ReuseTlsCrypt, WriteConf, WriteConfFails, WriteDist, Fail, disk,
       KeyDue
  <2>2. pc' \in {"conf", "copy_ca", "idle"}
    BY <1>5 DEF MakeTlsCrypt, ReuseTlsCrypt, WriteConf, WriteConfFails, WriteDist, Fail, Halt,
       Proceed
  <2>3. QED
    BY <2>1, <2>2, ServerStays DEF KeyDue
<1>6. CASE CopyCa \/ CopyCrt \/ CopyKey \/ CopyTls
  <2>1. crt' = crt /\ key' = key /\ pc \in {"copy_ca", "copy_crt", "copy_key", "copy_tls"}
    BY <1>6 DEF CopyCa, CopyCrt, CopyKey, CopyTls, Copy, WriteDist, Fail, disk
  <2>2. pc' \in {"idle", "copy_tls", "shared"} \/ (pc # "copy_tls" /\ pc' \in KeyDue)
    <3>1. CASE CopyCa
      BY <3>1 DEF CopyCa, Copy, WriteDist, Fail, Halt, Proceed, KeyDue
    <3>2. CASE CopyCrt
      BY <3>2 DEF CopyCrt, Copy, WriteDist, Fail, Halt, Proceed, KeyDue
    <3>3. CASE CopyKey
      BY <3>3 DEF CopyKey, Copy, WriteDist, Fail, Halt, Proceed, KeyDue
    <3>4. CASE CopyTls
      BY <3>4 DEF CopyTls, Copy, WriteDist, Fail, Halt, Proceed
    <3>5. QED
      BY <1>6, <3>1, <3>2, <3>3, <3>4
  <2>3. QED
    BY <2>1, <2>2, ServerStays DEF KeyDue
<1>7. QED
  BY <1>1, <1>2, <1>3, <1>4, <1>5, <1>6 DEF BuildServerStep

\* Without interruptions, the client half of build keeps ServerKept.
LEMMA BuildClientStepServer ==
  ASSUME "build" \notin Abortable
  PROVE  TypeInv /\ ServerKept /\ BuildClientStep => ServerKept'
<1> SUFFICES ASSUME TypeInv, ServerKept, BuildClientStep PROVE ServerKept'
  OBVIOUS
<1>1. ASSUME NEW n \in Clients, IssueClient(n)
      PROVE  ServerKept'
  <2>1. /\ pc = "clients" /\ pc' = "client_key" /\ crt'[Server] = crt[Server] /\ key' = key
        /\ job'.leaf.key \in Keys
    BY <1>1, IssueCrtGoesOn, OwnersAssumption DEF IssueClient, Leaves, Owners
  <2>2. QED
    BY <2>1 DEF ServerKept, KeyDue
<1>2. CASE WriteClientKey
  <2>1. pc = "client_key" /\ Tearing = {FALSE} /\ job.leaf.key \in Keys
    BY <1>2 DEF WriteClientKey, WriteKey, Tearing, MayAbort, InitPcs, EditPcs, CleanPcs,
       ServerKept
  <2>2. key' = [key EXCEPT ![job.who] = job.leaf.key] /\ crt' = crt /\ pc' = "ovpn"
    BY <1>2, <2>1 DEF WriteClientKey, WriteKey, Written, Proceed
  <2>3. key[Server] # NoFile => key'[Server] # NoFile
    BY <2>1, <2>2, MissingAssumption DEF TypeInv, TypeOK, Owners, Missing
  <2>4. QED
    BY <2>1, <2>2, <2>3 DEF ServerKept, KeyDue
<1>3. CASE \/ ReadShared \/ WriteOvpn \/ WriteStamp
           \/ \E n \in Clients : ReuseClient(n) \/ ClientFails(n)
  <2>1. crt' = crt /\ key' = key /\ pc \in {"shared", "clients", "ovpn"}
    BY <1>3 DEF ReadShared, WriteOvpn, WriteStamp, ReuseClient, ClientFails, Fail, disk
  <2>2. pc' \in {"clients", "ovpn", "idle"}
    BY <1>3 DEF ReadShared, WriteOvpn, WriteStamp, ReuseClient, ClientFails, Fail, Halt, Proceed
  <2>3. QED
    BY <2>1, <2>2, ServerStays DEF KeyDue
<1>4. QED
  BY <1>1, <1>2, <1>3 DEF BuildClientStep

\* When neither init nor build is interrupted, every build that gets to the
\* copy of the server key finds it, for any settings and clients.
THEOREM ServerKeyFound ==
  ASSUME "init" \notin Abortable, "build" \notin Abortable
  PROVE  Spec => []BuildFindsServerKey
<1>1. Init => ServerKept
  BY DEF Init, ServerKept, KeyDue, Owners
<1>2. TypeInv /\ ServerKept /\ [Next]_vars => ServerKept'
  <2> SUFFICES ASSUME TypeInv, ServerKept, [Next]_vars PROVE ServerKept'
    OBVIOUS
  <2>1. CASE UNCHANGED vars
    BY <2>1 DEF vars, ServerKept
  <2>2. CASE Start
    <3>1. crt' = crt /\ key' = key /\ pc = "idle"
      BY <2>2 DEF Start, InitStart, ConfigSet, ClientAdd, ClientRemove, Edit, BuildStart,
         CleanLocalStart, disk
    <3>2. pc' \in {"init_clear", "init_ca", "edit_cfg", "build_dist", "clean_dist"}
      BY <2>2 DEF Start, InitStart, ConfigSet, ClientAdd, ClientRemove, Edit, BuildStart,
         CleanLocalStart
    <3>3. QED
      BY <3>1, <3>2, ServerStays DEF KeyDue
  <2>3. CASE Abort
    <3>1. crt' = crt /\ key' = key /\ pc' = "idle" /\ pc \in {"edit_cfg", "clean_dist"}
      BY <2>3 DEF Abort, MayAbort, EditPcs, CleanPcs, Fail, Halt, disk
    <3>2. QED
      BY <3>1, ServerStays DEF KeyDue
  <2>4. QED
    BY <2>1, <2>2, <2>3, InitStepServer, BuildServerStepServer, BuildClientStepServer
       DEF Next, Step
<1>3. ServerKept => BuildFindsServerKey
  BY DEF ServerKept, BuildFindsServerKey, KeyDue
<1>4. QED
  BY <1>1, <1>2, <1>3, InitType, NextType, PTL DEF Spec
=============================================================================
