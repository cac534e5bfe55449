--------------------------- MODULE ConnectProofs ---------------------------
(***************************************************************************)
(* Theorems about Connect: whom a session trusts, what a build is made for, *)
(* and what the profiles remember, for any hosts, keys, banners and texts   *)
(* and any first known_hosts.                                              *)
(***************************************************************************)
EXTENDS Connect, SequenceTheorems, WellFoundedInduction, TLAPS

-----------------------------------------------------------------------------
(* Versions.                                                               *)

\* A text is read as a version or as none.
LEMMA ParseDottedType ==
  ASSUME NEW s, NEW i
  PROVE  ParseDottedAt(s, i) \in Versions \union {NoVersion}
<1> DEFINE a == RunEnd(s, i)
           b == RunEnd(s, a + 1)
           c == RunEnd(s, b + 1)
<1>1. 0 \in Parts
  BY PartAssumption DEF Parts
<1>2. PartAt(s, i) => Number(s, i, a) \in Parts
  BY DEF PartAt
<1>3. PartAt(s, a + 1) => Number(s, a + 1, b) \in Parts
  BY DEF PartAt
<1>4. PartAt(s, b + 1) => Number(s, b + 1, c) \in Parts
  BY DEF PartAt
<1> HIDE DEF a, b, c
<1>5. ParseDottedAt(s, i) =
        IF ~(PartAt(s, i) /\ DotAt(s, a) /\ PartAt(s, a + 1)) THEN NoVersion
        ELSE IF ~DotAt(s, b) THEN <<Number(s, i, a), Number(s, a + 1, b), 0>>
        ELSE IF PartAt(s, b + 1)
               THEN <<Number(s, i, a), Number(s, a + 1, b), Number(s, b + 1, c)>>
        ELSE NoVersion
  BY DEF ParseDottedAt, a, b, c
<1>6. QED
  BY <1>1, <1>2, <1>3, <1>4, <1>5 DEF Versions

LEMMA ParseVersionType ==
  ASSUME NEW s
  PROVE  ParseVersion(s) \in Versions \union {NoVersion}
BY ParseDottedType DEF ParseVersion

\* What --openvpn-version accepts is a version, 2.4 or newer, and the trimmed
\* text is that version written out.
LEMMA ParseCliType ==
  ASSUME NEW s, ParseCli(s) # NoVersion
  PROVE  /\ ParseCli(s) \in Versions /\ MeetsMinimum(ParseCli(s))
         /\ Trim(s) = Short(ParseCli(s)) \/ Trim(s) = Long(ParseCli(s))
BY ParseDottedType DEF ParseCli, ParseExact

\* A set of numbers has a least one, and a bounded one a greatest.
LEMMA Least ==
  ASSUME NEW T, T \subseteq Nat, T # {}
  PROVE  \E x \in T : \A y \in T : x <= y
<1>1. IsWellFoundedOn(OpToRel(<, Nat), Nat)
  BY NatLessThanWellFounded
<1>2. PICK x \in T : \A y \in T : <<y, x>> \notin OpToRel(<, Nat)
  BY <1>1, WFMin, Zenon
<1>3. \A y \in T : ~(y < x)
  BY <1>2 DEF OpToRel
<1>4. QED
  BY <1>3

LEMMA Greatest ==
  ASSUME NEW n \in Nat, NEW T, T \subseteq 1 .. n, T # {}
  PROVE  \E x \in T : \A y \in T : y <= x
<1> DEFINE U == {n - t : t \in T}
<1>1. U \subseteq Nat /\ U # {}
  <2>1. \A t \in 1 .. n : n - t \in Nat
    OBVIOUS
  <2>2. QED
    BY <2>1
<1> HIDE DEF U
<1>2. PICK m \in U : \A u \in U : m <= u
  BY <1>1, Least
<1>3. PICK x \in T : m = n - x
  BY DEF U
<1>4. \A y \in T : n - x <= n - y
  BY <1>2, <1>3 DEF U
<1>5. QED
  BY <1>4

\* What the trim takes away is white space.
LEMMA TrimPadded ==
  ASSUME NEW S, NEW s \in Seq(S)
  PROVE  Padded(s, Trim(s))
<1> DEFINE inked == {i \in DOMAIN s : s[i] # Blank}
           first == CHOOSE i \in inked : \A j \in inked : i <= j
           last  == CHOOSE i \in inked : \A j \in inked : j <= i
<1>1. Len(s) \in Nat /\ DOMAIN s = 1 .. Len(s)
  BY LenProperties
<1>2. Trim(s) = IF inked = {} THEN <<>> ELSE SubSeq(s, first, last)
  BY DEF Trim
<1>3. CASE inked = {}
  <2>1. Trim(s) = <<>> /\ Len(<<>>) = 0
    BY <1>2, <1>3
  <2>2. SubSeq(s, 1, 1 + 0 - 1) = <<>>
    BY SubSeqEmpty
  <2>3. 1 \in 1 .. Len(s) - 0 + 1 /\ \A j \in DOMAIN s : s[j] = Blank
    BY <1>1, <1>3
  <2>4. QED
    BY <2>1, <2>2, <2>3 DEF Padded
<1>4. CASE inked # {}
  <2>1. inked \subseteq 1 .. Len(s) /\ inked \subseteq Nat
    BY <1>1
  <2>2. \A j \in DOMAIN s : j \notin inked => s[j] = Blank
    OBVIOUS
  <2> HIDE DEF inked
  <2>3. first \in inked /\ \A j \in inked : first <= j
    BY <1>4, <2>1, Least
  <2>4. last \in inked /\ \A j \in inked : j <= last
    BY <1>1, <1>4, <2>1, Greatest
  <2> HIDE DEF first, last
  <2>5. Trim(s) = SubSeq(s, first, last) /\ first \in 1 .. Len(s) /\ last \in first .. Len(s)
    BY <1>2, <1>4, <2>1, <2>3, <2>4
  <2>6. Len(Trim(s)) = last - first + 1
    BY <1>1, <2>5
  <2>7. first + Len(Trim(s)) - 1 = last /\ first \in 1 .. Len(s) - Len(Trim(s)) + 1
    BY <1>1, <2>5, <2>6
  <2>8. \A j \in DOMAIN s : j \notin first .. last => s[j] = Blank
    BY <1>1, <2>1, <2>2, <2>3, <2>4
  <2>9. QED
    BY <2>5, <2>7, <2>8 DEF Padded
<1>5. QED
  BY <1>3, <1>4

\* A build's target is a version from one of the three sources.
LEMMA TargetType ==
  ASSUME NEW flag \in Versions \union {NoVersion}, NEW seen
  PROVE  Target(flag, seen) \in [version : Versions, source : Sources]
<1>1. Baseline \in Versions
  BY PartAssumption DEF Baseline, Versions, Parts
<1>2. QED
  BY <1>1, ParseVersionType DEF Target, Sources

-----------------------------------------------------------------------------
(* The file known_hosts.                                                   *)

\* A file with one line more has the lines it had, and that one.
LEMMA AppendLine ==
  ASSUME NEW f \in Files, NEW line \in Lines, NEW ended \in BOOLEAN,
         NEW g, g = [lines |-> Append(f.lines, line), ended |-> ended]
  PROVE  /\ g \in Files
         /\ DOMAIN g.lines = DOMAIN f.lines \union {Len(f.lines) + 1}
         /\ \A i \in DOMAIN f.lines : g.lines[i] = f.lines[i]
         /\ g.lines[Len(f.lines) + 1] = line
<1>1. f.lines \in Seq(Lines) /\ g.lines = Append(f.lines, line) /\ g.ended = ended
  BY DEF Files
<1>2. Append(f.lines, line) \in Seq(Lines) /\ Len(Append(f.lines, line)) = Len(f.lines) + 1
  BY <1>1, AppendProperties
<1>3. \A i \in 1 .. Len(f.lines) : Append(f.lines, line)[i] = f.lines[i]
  BY <1>1, AppendProperties
<1>4. Append(f.lines, line)[Len(f.lines) + 1] = line
  BY <1>1, AppendProperties
<1>5. DOMAIN f.lines = 1 .. Len(f.lines) /\ Len(f.lines) \in Nat
      /\ DOMAIN Append(f.lines, line) = 1 .. Len(f.lines) + 1
  BY <1>1, <1>2, LenProperties
<1>6. QED
  BY <1>1, <1>2, <1>3, <1>4, <1>5 DEF Files

\* Changing the last line leaves the other lines as they are.
LEMMA LastLine ==
  ASSUME NEW f \in Files, f.lines # <<>>, NEW line \in Lines, NEW ended \in BOOLEAN,
         NEW g, g = [lines |-> [f.lines EXCEPT ![Len(f.lines)] = line], ended |-> ended]
  PROVE  /\ g \in Files
         /\ DOMAIN g.lines = DOMAIN f.lines
         /\ Len(f.lines) \in DOMAIN f.lines /\ f.lines[Len(f.lines)] \in Lines
         /\ \A i \in DOMAIN f.lines : i # Len(f.lines) => g.lines[i] = f.lines[i]
         /\ g.lines[Len(f.lines)] = line
<1> DEFINE last == Len(f.lines)
<1>1. f.lines \in Seq(Lines) /\ last \in Nat /\ DOMAIN f.lines = 1 .. last
  BY LenProperties DEF Files
<1>2. last \in 1 .. last
  BY <1>1, EmptySeq
<1>3. f.lines[last] \in Lines
  BY <1>1, <1>2, ElementOfSeq
<1>4. g.lines = [f.lines EXCEPT ![last] = line] /\ g.ended = ended
  OBVIOUS
<1>5. [f.lines EXCEPT ![last] = line] \in Seq(Lines)
  BY <1>1, <1>2, ExceptSeq
<1>6. QED
  BY <1>1, <1>2, <1>3, <1>4, <1>5 DEF Files

\* The last line of a file is a line.
LEMMA LastIsLine ==
  ASSUME NEW f \in Files, f.lines # <<>>
  PROVE  f.lines[Len(f.lines)] \in Lines
<1>1. f.lines \in Seq(Lines) /\ Len(f.lines) \in Nat
  BY LenProperties DEF Files
<1>2. Len(f.lines) \in 1 .. Len(f.lines)
  BY <1>1, EmptySeq
<1>3. QED
  BY <1>1, <1>2, ElementOfSeq

\* The line is one about k and e, if it has a key and is whole.
About(line, e, k) ==
  /\ line \in Lines
  /\ \A x \in HostKeys : line.keys = {x} =>
       x = k /\ line.names = {e} /\ line.marker = "none"

\* The line that trusts a key for an endpoint is one about them, hashed or not.
LEMMA TrustLineType ==
  ASSUME NEW e \in Endpoints, NEW k \in HostKeys, NEW hashed \in BOOLEAN
  PROVE  /\ About([TrustLine(e, k) EXCEPT !.hashed = hashed], e, k)
         /\ About(TrustLine(e, k), e, k) /\ ~TrustLine(e, k).hashed
BY DEF About, TrustLine, Lines

\* So is what is left of it when it is cut short.
LEMMA CutLineType ==
  ASSUME NEW e \in Endpoints, NEW k \in HostKeys, NEW line \in CutLines(e, k)
  PROVE  About(line, e, k) /\ ~line.hashed
<1>1. ASSUME NEW keys \in SUBSET HostKeys, k \in keys,
             line = [TrustLine(e, k) EXCEPT !.keys = keys]
      PROVE  About(line, e, k) /\ ~line.hashed
  <2>1. line = [marker |-> "none", names |-> {e}, hashed |-> FALSE, keys |-> keys]
    BY <1>1 DEF TrustLine
  <2>2. line \in Lines
    BY <2>1 DEF Lines
  <2>3. \A x : keys = {x} => x = k
    BY <1>1
  <2>4. QED
    BY <2>1, <2>2, <2>3 DEF About
<1>2. ASSUME NEW names \in SUBSET Endpoints,
             line = [TrustLine(e, k) EXCEPT !.names = names, !.keys = {}]
      PROVE  About(line, e, k) /\ ~line.hashed
  <2>1. line = [marker |-> "none", names |-> names, hashed |-> FALSE, keys |-> {}]
    BY <1>2 DEF TrustLine
  <2>2. QED
    BY <2>1 DEF About, Lines
<1>3. CASE line \in {[TrustLine(e, k) EXCEPT !.keys = keys] : keys \in {K \in SUBSET HostKeys : k \in K}}
  BY <1>1, <1>3
<1>4. CASE line \in {[TrustLine(e, k) EXCEPT !.names = names, !.keys = {}] :
                      names \in {{}, {e}} \union {{f} : f \in {g \in Endpoints : <<e, g>> \in NameBegins}}}
  <2>1. {{}, {e}} \union {{f} : f \in {g \in Endpoints : <<e, g>> \in NameBegins}}
          \subseteq SUBSET Endpoints
    OBVIOUS
  <2>2. QED
    BY <1>2, <1>4, <2>1
<1>5. QED
  BY <1>3, <1>4 DEF CutLines

\* A spoilt line has no key.
LEMMA SpoiltType ==
  ASSUME NEW line \in Lines, NEW spoilt \in Spoilt(line)
  PROVE  spoilt \in Lines /\ spoilt.keys = {}
<1>1. PICK names \in SUBSET Endpoints : spoilt = [line EXCEPT !.names = names, !.keys = {}]
  BY DEF Spoilt, Lines
<1>2. QED
  BY <1>1 DEF Lines

\* What a write at the end of the file gives is a file.
LEMMA WrittenType ==
  ASSUME NEW f \in Files, NEW lines \in SUBSET Lines, NEW ended \in BOOLEAN,
         NEW g \in Written(f, lines, ended)
  PROVE  g \in Files
<1>1. CASE f.ended \/ f.lines = <<>>
  BY <1>1, AppendLine DEF Written
<1>2. CASE ~(f.ended \/ f.lines = <<>>)
  <2>1. PICK line \in Spoilt(f.lines[Len(f.lines)]) :
          g = [lines |-> [f.lines EXCEPT ![Len(f.lines)] = line], ended |-> ended]
    BY <1>2 DEF Written
  <2>2. line \in Lines
    BY <1>2, <2>1, LastIsLine, SpoiltType
  <2>3. QED
    BY <1>2, <2>1, <2>2, LastLine
<1>3. QED
  BY <1>1, <1>2

\* Extending known_hosts, in whole or in part, gives a known_hosts.
LEMMA AppendKnownType ==
  ASSUME NEW f \in Files, NEW e \in Endpoints, NEW k \in HostKeys
  PROVE  AppendKnown(f, e, k) \subseteq Files /\ AppendCut(f, e, k) \subseteq Files
<1>1. {TrustLine(e, k)} \subseteq Lines /\ CutLines(e, k) \subseteq Lines
  BY TrustLineType, CutLineType DEF About
<1>2. QED
  BY <1>1, WrittenType DEF AppendKnown, AppendCut

-----------------------------------------------------------------------------
(* Types.                                                                  *)

\* A running command has an endpoint, and a key from the moment the server
\* has presented one; it is at a position of its own course; there is a build
\* at the gate and a profile to forget the setup of.
InHand ==
  /\ pc # "idle" => job.cmd \in Commands /\ job.at \in Reached
  /\ pc \in {"ask"} \union InSession => job.key \in HostKeys
  /\ pc \in {"deps", "build", "record"} => job.cmd = "setup"
  /\ pc = "live" => job.cmd \in {"setup", "update"}
  /\ pc # "idle" /\ job.cmd = "update" => dist # NoFile
  /\ pc \in {"gate", "upload"} => dist # NoFile
  /\ pc = "forget" => profile[HostOf(job.at)] \in Profiles

TypeInv == TypeOK /\ InHand

LEMMA NoJobType == NoJob \in Jobs
BY ConnectAssumption DEF NoJob, Jobs, Commands

\* The host of an endpoint is a host.
LEMMA HostOfType == \A e \in Endpoints : HostOf(e) \in Hosts
BY DEF Endpoints, HostOf

\* What a build leaves is a stamp.
LEMMA StampType ==
  ASSUME NEW h \in Hosts \union {NoFile}, NEW flag \in Versions \union {NoVersion}
  PROVE  StampFor(h, flag) \in Stamps
BY TargetType DEF StampFor, Stamps

LEMMA LegacyType == Legacy \in Stamps
BY PartAssumption DEF Legacy, Stamps, Baseline, Versions, Parts, Sources

\* The error return that any step may take.
LEMMA FailsType == TypeInv /\ Fails => TypeInv'
BY NoJobType DEF Fails, Return, Goto, NoJob, TypeInv, TypeOK, InHand, InSession, Pcs, hostVars, trustVars

\* Each command that the operator starts is typed.
LEMMA OperatorType == TypeInv /\ Operator => TypeInv'
<1> SUFFICES ASSUME TypeInv, Operator PROVE TypeInv'
  OBVIOUS
<1> USE DEF TypeInv, TypeOK, InHand, hostVars, trustVars
<1>1. ASSUME NEW h \in Hosts \union {NoFile}, NEW given \in Flags, BuildAlone(h, given)
      PROVE  TypeInv'
  <2>1. \E flag \in Versions \union {NoVersion} : dist' = StampFor(h, flag)
    BY <1>1, ParseCliType DEF BuildAlone, BuildFor
  <2>2. dist' \in Stamps
    BY <2>1, StampType
  <2>3. QED
    BY <1>1, <2>2 DEF BuildAlone, InSession
<1>2. CASE BuildAloneFails
  BY <1>2, LegacyType DEF BuildAloneFails, BuildLeaves, InSession
<1>3. CASE BuiltElsewhere
  <2>1. [Legacy EXCEPT !.dialect = OldDialect] \in Stamps
    BY LegacyType DEF Stamps
  <2>2. QED
    BY <1>3, <2>1 DEF BuiltElsewhere, InSession
<1>4. ASSUME NEW cmd \in Commands, NEW e \in Reached, Start(cmd, e)
      PROVE  TypeInv'
  <2>1. (HostOf(e) \in Remotes /\ profile[HostOf(e)].setup) \in BOOLEAN
    BY <1>4 DEF Start, Remotes, Profiles
  <2>2. job' \in Jobs /\ job'.cmd = cmd /\ job'.at = e /\ pc' = "verify"
    BY <1>4, <2>1, NoJobType DEF Start, Goto, Jobs, NoJob
  <2>3. QED
    BY <1>4, <2>2 DEF Start, Pcs, InSession
<1>5. QED
  BY <1>1, <1>2, <1>3, <1>4 DEF Operator

\* Saving a profile is typed.
LEMMA SaveProfileType ==
  ASSUME TypeInv, job.at \in Reached, NEW seen \in Banners, NEW setup \in BOOLEAN,
         SaveProfile(seen, setup)
  PROVE  /\ profile' \in [Hosts -> Profiles \union {NoFile, Torn}]
         /\ profile'[HostOf(job.at)] = [seen |-> seen, setup |-> setup]
         /\ profile'[HostOf(job.at)] \in Profiles
         /\ \A h \in Hosts : h # HostOf(job.at) => profile'[h] = profile[h]
<1>1. HostOf(job.at) \in Hosts
  BY HostOfType, ConnectAssumption
<1>2. [seen |-> seen, setup |-> setup] \in Profiles
  BY DEF Profiles
<1>3. QED
  BY <1>1, <1>2, NoFileAssumption DEF SaveProfile, TypeInv, TypeOK

\* So is saving it in part: the file of that host is torn, the others stay.
LEMMA SaveCutType ==
  ASSUME TypeInv, job.at \in Reached, SaveCut
  PROVE  /\ profile' \in [Hosts -> Profiles \union {NoFile, Torn}]
         /\ profile'[HostOf(job.at)] = Torn
         /\ \A h \in Hosts : h # HostOf(job.at) => profile'[h] = profile[h]
<1>1. HostOf(job.at) \in Hosts
  BY HostOfType, ConnectAssumption
<1>2. QED
  BY <1>1 DEF SaveCut, TypeInv, TypeOK

\* A profile is saved by a command that runs.
LEMMA SavesWithin == Saves => pc # "idle"
BY DEF Saves

\* What the program reads of a host is a banner.
LEMMA ReadingType == TypeInv /\ job.at \in Reached => Reading \subseteq Banners
BY HostOfType, ConnectAssumption DEF Reading, TypeInv, TypeOK

\* Each step of a command is typed.
LEMMA StepType == TypeInv /\ Step => TypeInv'
<1> SUFFICES ASSUME TypeInv, Step PROVE TypeInv'
  OBVIOUS
<1> USE DEF TypeInv, TypeOK, InHand, hostVars, trustVars, Pcs, InSession
<1>0. pc # "idle" => job.at \in Reached /\ job.at \in Endpoints
  BY ConnectAssumption
<1>1. CASE Verify
  <2>1. [job EXCEPT !.key = presented[job.at]] \in Jobs
    BY <1>0, <1>1 DEF Verify, Jobs
  <2>2. QED
    BY <1>0, <1>1, <2>1, NoJobType DEF Verify, Goto, Return, Jobs, NoJob
<1>2. CASE Answer
  BY <1>0, <1>2, AppendKnownType DEF Answer, Goto
<1>2a. CASE AnswerCut
  <2>1. file' \in Files
    BY <1>0, <1>2a, AppendKnownType DEF AnswerCut
  <2>2. QED
    BY <1>0, <1>2a, <2>1, NoJobType DEF AnswerCut, Return, Goto, NoJob
<1>2b. CASE SaveCut
  <2>1. pc # "idle" /\ profile' \in [Hosts -> Profiles \union {NoFile, Torn}]
    BY <1>0, <1>2b, SavesWithin, SaveCutType DEF SaveCut
  <2>2. QED
    BY <1>2b, <2>1, NoJobType DEF SaveCut, Return, Goto, NoJob
<1>3. CASE Authenticate
  BY <1>3 DEF Authenticate, Goto
<1>4. CASE Inspect
  <2>1. PICK seen \in Reading : SaveProfile(seen, job.setup)
    BY <1>4 DEF Inspect
  <2>2. job.setup \in BOOLEAN /\ seen \in Banners
    BY <1>0, <1>4, <2>1, ReadingType DEF Inspect, Jobs
  <2>3. /\ profile' \in [Hosts -> Profiles \union {NoFile, Torn}]
        /\ profile'[HostOf(job.at)] \in Profiles
    BY <1>0, <1>4, <2>1, <2>2, SaveProfileType DEF Inspect
  <2>4. \/ AfterInspect \in {"forget", "idle"}
        \/ AfterInspect = "deps" /\ job.cmd = "setup"
        \/ AfterInspect = "live" /\ job.cmd = "update"
    BY DEF AfterInspect
  <2>5. CASE AfterInspect = "idle"
    BY <1>4, <2>3, <2>5, NoJobType DEF Inspect, Goto, Return, NoJob
  <2>6. CASE AfterInspect # "idle"
    <3>1. job' = job /\ pc' = AfterInspect
      BY <1>4, <2>6 DEF Inspect, Goto
    <3>2. QED
      BY <1>4, <2>3, <2>4, <2>6, <3>1 DEF Inspect
  <2>7. QED
    BY <2>5, <2>6
<1>5. CASE Installed
  BY <1>5 DEF Installed, Goto
<1>6. CASE AptInstall
  <2>1. AptBanners \union (Reading \ {NotInstalled}) \subseteq Banners
    BY <1>0, <1>6, ReadingType, ConnectAssumption DEF AptInstall
  <2>2. QED
    BY <1>6, <2>1 DEF AptInstall, Goto
<1>7. CASE ReadLive
  <2>1. PICK seen \in Reading :
          IF job.cmd = "setup"
            THEN SaveProfile(seen, job.setup) /\ Goto("build", [job EXCEPT !.live = seen])
            ELSE Goto("gate", [job EXCEPT !.live = seen]) /\ UNCHANGED profile
    BY <1>7 DEF ReadLive
  <2>2. job.setup \in BOOLEAN /\ seen \in Banners
    BY <1>0, <1>7, <2>1, ReadingType DEF ReadLive, Jobs
  <2>3. [job EXCEPT !.live = seen] \in Jobs
    BY <2>2 DEF Jobs
  <2>4. profile' \in [Hosts -> Profiles \union {NoFile, Torn}]
    BY <1>0, <1>7, <2>1, <2>2, SaveProfileType DEF ReadLive
  <2>5. QED
    BY <1>7, <2>1, <2>3, <2>4 DEF ReadLive, Goto, Jobs
<1>8. CASE SetupBuild
  <2>1. dist' = StampFor(HostOf(job.at), NoVersion) /\ HostOf(job.at) \in Hosts
    BY <1>0, <1>8, HostOfType DEF SetupBuild, BuildFor
  <2>2. dist' \in Stamps
    BY <2>1, StampType
  <2>3. QED
    BY <1>8, <2>2, NoFileAssumption DEF SetupBuild, Goto
<1>9. CASE SetupBuildFails
  BY <1>9, LegacyType, NoJobType DEF SetupBuildFails, BuildLeaves, Return, Goto, NoJob
<1>10. CASE Gate \/ Upload
  BY <1>10, NoJobType DEF Gate, Upload, Return, Goto, NoJob
<1>11. CASE Record
  <2>1. profile' \in [Hosts -> Profiles \union {NoFile, Torn}]
    BY <1>0, <1>11, SaveProfileType DEF Record, Jobs
  <2>2. QED
    BY <1>11, <2>1, NoJobType DEF Record, Return, Goto, NoJob
<1>12. CASE Forget
  <2>1. profile[HostOf(job.at)].seen \in Banners
    BY <1>0, <1>12, HostOfType DEF Forget, Profiles
  <2>2. profile' \in [Hosts -> Profiles \union {NoFile, Torn}]
    BY <1>0, <1>12, <2>1, SaveProfileType DEF Forget
  <2>3. QED
    BY <1>12, <2>2, NoJobType DEF Forget, Return, Goto, NoJob
<1>13. CASE Fails
  BY <1>13, FailsType
<1>14. QED
  BY <1>1, <1>2, <1>2a, <1>2b, <1>3, <1>4, <1>5, <1>6, <1>7, <1>8, <1>9, <1>10, <1>11, <1>12,
     <1>13 DEF Step

\* What happens around the program is typed.
LEMMA WorldType == TypeInv /\ World => TypeInv'
<1> SUFFICES ASSUME TypeInv, World PROVE TypeInv'
  OBVIOUS
<1> USE DEF TypeInv, TypeOK, InHand, hostVars, trustVars
<1>1. ASSUME NEW h \in Hosts, NEW k \in HostKeys, Reinstall(h, k)
      PROVE  TypeInv'
  BY <1>1 DEF Reinstall
<1>2. ASSUME NEW h \in Hosts, NEW b \in Banners, Upgrade(h, b)
      PROVE  TypeInv'
  BY <1>2 DEF Upgrade
<1>3. ASSUME NEW e \in Reached, NEW hashed \in BOOLEAN, SshClient(e, hashed)
      PROVE  TypeInv'
  <2>1. e \in Endpoints /\ presented[e] \in HostKeys
    BY ConnectAssumption
  <2>2. file' \in Files
    BY <1>3, <2>1, TrustLineType, AppendLine DEF SshClient, About
  <2>3. others' \subseteq Endpoints \X HostKeys
    BY <1>3, <2>1 DEF SshClient
  <2>4. QED
    BY <1>3, <2>2, <2>3 DEF SshClient
<1>4. QED
  BY <1>1, <1>2, <1>3 DEF World

LEMMA InitType == Init => TypeInv
BY NoJobType, ConnectAssumption DEF Init, TypeInv, TypeOK, InHand, InSession, Pcs

LEMMA NextType == TypeInv /\ [Next]_vars => TypeInv'
<1>1. TypeInv /\ UNCHANGED vars => TypeInv'
  BY DEF TypeInv, TypeOK, InHand, vars
<1>2. QED
  BY <1>1, OperatorType, StepType, WorldType DEF Next

\* Every state that the commands reach is typed, for any hosts, keys, banners
\* and texts.
THEOREM TypeCorrect == Spec => []TypeOK
<1>1. TypeInv => TypeOK
  BY DEF TypeInv
<1>2. QED
  BY <1>1, InitType, NextType, PTL DEF Spec

-----------------------------------------------------------------------------
(* Trust.  Every key on a line that counts was vouched for, and stays so.   *)

\* What a step may do to known_hosts: extend it by a line about a key and an
\* endpoint, which somebody vouches for, or
Extended(line, e, k, ended) ==
  /\ About(line, e, k)
  /\ file' = [lines |-> Append(file.lines, line), ended |-> ended]
  /\ \/ ~line.hashed /\ accepted' = accepted \union {<<e, k>>} /\ others' = others
     \/ accepted' = accepted /\ others' = others \union {<<e, k>>}

\* glue one to its last line, while no session is open.
Glued(line, ended) ==
  /\ file.lines # <<>> /\ line \in Lines /\ line.keys = {}
  /\ file' = [lines |-> [file.lines EXCEPT ![Len(file.lines)] = line], ended |-> ended]
  /\ accepted \subseteq accepted' /\ others' = others
  /\ pc \notin InSession

\* The operator's yes does one or the other, whether the write is cut or not.
LEMMA WrittenStep ==
  ASSUME TypeInv, pc = "ask", NEW lines \in SUBSET Lines, NEW ended \in BOOLEAN,
         file' \in Written(file, lines, ended),
         \A line \in lines : About(line, job.at, job.key) /\ ~line.hashed,
         accepted' = accepted \union {<<job.at, job.key>>}, others' = others
  PROVE  \/ \E line \in Lines : Extended(line, job.at, job.key, ended)
         \/ \E line \in Lines : Glued(line, ended)
<1>1. CASE file.ended \/ file.lines = <<>>
  BY <1>1 DEF Written, Extended
<1>2. CASE ~(file.ended \/ file.lines = <<>>)
  <2>1. PICK line \in Spoilt(file.lines[Len(file.lines)]) :
          file' = [lines |-> [file.lines EXCEPT ![Len(file.lines)] = line], ended |-> ended]
    BY <1>2 DEF Written
  <2>2. line \in Lines /\ line.keys = {}
    BY <1>2, <2>1, LastIsLine, SpoiltType DEF TypeInv, TypeOK
  <2>3. QED
    BY <1>2, <2>1, <2>2 DEF Glued, InSession
<1>3. QED
  BY <1>1, <1>2

LEMMA FileStep ==
  ASSUME TypeInv, [Next]_vars
  PROVE  \/ UNCHANGED trustVars
         \/ \E line \in Lines, e \in Endpoints, k \in HostKeys, ended \in BOOLEAN :
              Extended(line, e, k, ended)
         \/ \E line \in Lines, ended \in BOOLEAN : Glued(line, ended)
<1>1. CASE UNCHANGED vars
  BY <1>1 DEF vars, trustVars
<1>2. CASE Operator
  BY <1>2 DEF Operator, BuildAlone, BuildAloneFails, BuiltElsewhere, Start
<1>3. CASE Answer \/ AnswerCut
  <2>1. pc = "ask" /\ job.at \in Endpoints /\ job.key \in HostKeys
    BY <1>3, ConnectAssumption DEF Answer, AnswerCut, TypeInv, InHand
  <2>2. accepted' = accepted \union {<<job.at, job.key>>} /\ others' = others
    BY <1>3 DEF Answer, AnswerCut
  <2>3. CASE file' \in Written(file, {TrustLine(job.at, job.key)}, TRUE)
    <3>1. {TrustLine(job.at, job.key)} \in SUBSET Lines
      BY <2>1, TrustLineType DEF About
    <3>2. QED
      BY <2>1, <2>2, <2>3, <3>1, TrustLineType, WrittenStep
  <2>4. CASE file' \in Written(file, CutLines(job.at, job.key), FALSE)
    <3>1. CutLines(job.at, job.key) \in SUBSET Lines
      BY <2>1, CutLineType DEF About
    <3>2. QED
      BY <2>1, <2>2, <2>4, <3>1, CutLineType, WrittenStep
  <2>5. QED
    BY <1>3, <2>3, <2>4 DEF Answer, AnswerCut, AppendKnown, AppendCut
<1>4. CASE Step /\ ~Answer /\ ~AnswerCut
  BY <1>4 DEF Step, Verify, Authenticate, Inspect, SaveCut, Installed, AptInstall, ReadLive,
     SetupBuild, SetupBuildFails, Gate, Upload, Record, Forget, Fails
<1>5. ASSUME NEW e \in Reached, NEW hashed \in BOOLEAN, SshClient(e, hashed)
      PROVE  /\ e \in Endpoints /\ presented[e] \in HostKeys
             /\ \E line \in Lines : Extended(line, e, presented[e], TRUE)
  <2>1. e \in Endpoints /\ presented[e] \in HostKeys
    BY ConnectAssumption DEF TypeInv, TypeOK
  <2>2. About([TrustLine(e, presented[e]) EXCEPT !.hashed = hashed], e, presented[e])
    BY <2>1, TrustLineType
  <2>3. QED
    BY <1>5, <2>1, <2>2 DEF SshClient, Extended, About
<1>6. CASE World
  BY <1>5, <1>6 DEF World, Reinstall, Upgrade
<1>7. QED
  BY <1>1, <1>2, <1>3, <1>4, <1>6 DEF Next

\* Somebody vouched for the key of each whole line that counts, for each
\* endpoint it names.
FileVouched ==
  \A i \in DOMAIN file.lines : \A e \in file.lines[i].names : \A k \in HostKeys :
    (Counted(file.lines[i]) /\ file.lines[i].keys = {k}) => Vouched(e, k)

\* What was vouched for stays so.
LEMMA VouchedStays ==
  ASSUME TypeInv, [Next]_vars
  PROVE  accepted \union others \subseteq accepted' \union others'
BY FileStep DEF Extended, Glued, trustVars

LEMMA FileVouchedInit == Init => FileVouched
BY FirstLinesAssumption DEF Init, FileVouched, Vouched

LEMMA FileVouchedStep == TypeInv /\ FileVouched /\ [Next]_vars => FileVouched'
<1> SUFFICES ASSUME TypeInv, FileVouched, [Next]_vars PROVE FileVouched'
  OBVIOUS
<1>0. file \in Files
  BY DEF TypeInv, TypeOK
<1>1. CASE UNCHANGED trustVars
  BY <1>1 DEF FileVouched, Vouched, trustVars
<1>2. ASSUME NEW line \in Lines, NEW e \in Endpoints, NEW k \in HostKeys, NEW ended \in BOOLEAN,
             Extended(line, e, k, ended)
      PROVE  FileVouched'
  <2>1. \A x \in HostKeys : line.keys = {x} => x = k /\ line.names = {e}
    BY <1>2 DEF Extended, About
  <2>2. file' = [lines |-> Append(file.lines, line), ended |-> ended]
    BY <1>2 DEF Extended
  <2>3. /\ DOMAIN file'.lines = DOMAIN file.lines \union {Len(file.lines) + 1}
        /\ \A i \in DOMAIN file.lines : file'.lines[i] = file.lines[i]
        /\ file'.lines[Len(file.lines) + 1] = line
    BY <1>0, <2>2, AppendLine
  <2>4. <<e, k>> \in accepted' \union others'
    BY <1>2 DEF Extended
  <2>5. \A i \in DOMAIN file.lines : \A d \in file.lines[i].names : \A x \in HostKeys :
          (Counted(file.lines[i]) /\ file.lines[i].keys = {x}) =>
            <<d, x>> \in accepted' \union others'
    BY VouchedStays DEF FileVouched, Vouched
  <2>6. QED
    BY <2>1, <2>3, <2>4, <2>5 DEF FileVouched, Vouched
<1>3. ASSUME NEW line \in Lines, NEW ended \in BOOLEAN, Glued(line, ended)
      PROVE  FileVouched'
  <2>1. file.lines # <<>> /\ line.keys = {}
        /\ file' = [lines |-> [file.lines EXCEPT ![Len(file.lines)] = line], ended |-> ended]
    BY <1>3 DEF Glued
  <2>2. /\ DOMAIN file'.lines = DOMAIN file.lines
        /\ \A i \in DOMAIN file.lines : i # Len(file.lines) => file'.lines[i] = file.lines[i]
        /\ file'.lines[Len(file.lines)] = line
    BY <1>0, <2>1, LastLine
  <2>3. QED
    BY <2>1, <2>2, VouchedStays DEF FileVouched, Vouched
<1>4. QED
  BY <1>1, <1>2, <1>3, FileStep

\* The key on a whole line about an endpoint was vouched for, there or for
\* the bare host.
LEMMA NamedVouched ==
  ASSUME FileVouched, NEW e, NEW k \in HostKeys, NEW i \in Naming(file, e),
         file.lines[i].keys = {k}
  PROVE  Vouched(e, k) \/ Vouched(Bare(e), k)
BY DEF FileVouched, Naming, Names

\* The endpoint itself and its bare host are on the host, each on a port.
LEMMA OwnPort ==
  ASSUME NEW e \in Endpoints, NEW k, Vouched(e, k) \/ Vouched(Bare(e), k)
  PROVE  \E port \in Ports : Vouched(<<HostOf(e), port>>, k)
<1>1. PICK h \in Hosts, port \in Ports : e = <<h, port>>
  BY DEF Endpoints
<1>2. e = <<HostOf(e), port>>
  BY <1>1 DEF HostOf
<1>3. QED
  BY <1>1, <1>2, KnownHostsAssumption DEF Bare

\* The lines that are there while a session is open stay as they are.
LEMMA LinesStay ==
  ASSUME TypeInv, [Next]_vars, pc \in InSession, NEW i \in DOMAIN file.lines
  PROVE  i \in DOMAIN file'.lines /\ file'.lines[i] = file.lines[i]
<1>0. file \in Files
  BY DEF TypeInv, TypeOK
<1>1. ASSUME NEW line \in Lines, NEW e, NEW k, NEW ended \in BOOLEAN, Extended(line, e, k, ended)
      PROVE  i \in DOMAIN file'.lines /\ file'.lines[i] = file.lines[i]
  BY <1>0, <1>1, AppendLine DEF Extended
<1>2. QED
  BY <1>1, FileStep DEF Glued, trustVars

\* A session is open only with a host whose key the operator, or whoever else
\* wrote known_hosts, vouched for, or which begins as a line does that breaks
\* off within its key: no interleaving with the ssh client, with reinstalled
\* hosts, cut lines or failing commands opens another.
THEOREM TrustSound == Spec => []TrustIsExplicit
<1>1. Init => TrustIsExplicit
  BY DEF Init, TrustIsExplicit, InSession
<1>2. TypeInv /\ FileVouched /\ TrustIsExplicit /\ [Next]_vars => TrustIsExplicit'
  <2> SUFFICES ASSUME TypeInv, FileVouched, TrustIsExplicit, [Next]_vars, pc' \in InSession
               PROVE  TrustIsExplicit'
    BY DEF TrustIsExplicit
  <2>1. CASE pc \in InSession /\ job'.at = job.at /\ job'.key = job.key
    <3>1. CASE \E port \in Ports : Vouched(<<HostOf(job.at), port>>, job.key)
      BY <2>1, <3>1, VouchedStays DEF TrustIsExplicit, Vouched
    <3>2. CASE \E i \in DOMAIN file.lines : CutLineMatches(file.lines[i])
      BY <2>1, <3>2, LinesStay DEF TrustIsExplicit, CutLineMatches
    <3>3. QED
      BY <2>1, <3>1, <3>2 DEF TrustIsExplicit
  <2>2. CASE Verify
    <3> DEFINE k == presented[job.at]
    <3>1. /\ k \in Listed(file, job.at)
          /\ job' = [job EXCEPT !.key = k]
          /\ trustVars' = trustVars
      BY <2>2 DEF Verify, Lookup, Goto, Return, InSession
    <3>2. job.at \in Endpoints /\ job.at \in Reached /\ job \in Jobs /\ k \in HostKeys
      BY <2>2, ConnectAssumption DEF Verify, TypeInv, TypeOK, InHand
    <3>3. job'.at = job.at /\ job'.key = k
      BY <3>1, <3>2 DEF Jobs
    <3> HIDE DEF k
    <3>4. PICK i \in Naming(file, job.at) : k \in file.lines[i].keys
      BY <3>1 DEF Listed
    <3>5. CASE file.lines[i].keys = {k}
      <4>1. \E port \in Ports : Vouched(<<HostOf(job.at), port>>, k)
        BY <3>2, <3>5, NamedVouched, OwnPort
      <4>2. QED
        BY <3>1, <3>3, <4>1 DEF TrustIsExplicit, Vouched, trustVars
    <3>6. CASE file.lines[i].keys # {k}
      <4>1. i \in DOMAIN file.lines /\ Counted(file.lines[i]) /\ Names(file.lines[i], job.at)
        BY DEF Naming
      <4>2. QED
        BY <3>1, <3>3, <3>4, <3>6, <4>1 DEF TrustIsExplicit, CutLineMatches, trustVars
    <3>7. QED
      BY <3>5, <3>6
  <2>3. CASE Answer
    <3>1. job' = job /\ Vouched(job.at, job.key)'
      BY <2>3 DEF Answer, Goto, Vouched
    <3>2. job.at \in Endpoints
      BY <2>3, ConnectAssumption DEF Answer, TypeInv, InHand
    <3>3. PICK h \in Hosts, port \in Ports : job.at = <<h, port>>
      BY <3>2 DEF Endpoints
    <3>4. <<HostOf(job.at), port>> = job.at
      BY <3>3 DEF HostOf
    <3>5. QED
      BY <3>1, <3>4 DEF TrustIsExplicit
  <2>4. CASE pc \in InSession /\ (Step \/ World \/ UNCHANGED vars)
    <3>1. job'.at = job.at /\ job'.key = job.key
      BY <2>4 DEF Step, Verify, Answer, AnswerCut, SaveCut, Authenticate, Inspect, Installed, AptInstall, ReadLive,
         SetupBuild, SetupBuildFails, Gate, Upload, Record, Forget, Fails, Goto, Return,
         InSession, World, Reinstall, Upgrade, SshClient, vars, TypeInv, TypeOK, Jobs
    <3>2. QED
      BY <2>1, <2>4, <3>1
  <2>5. CASE pc \notin InSession /\ ~Verify /\ ~Answer
    BY <2>5 DEF Next, Operator, BuildAlone, BuildAloneFails, BuiltElsewhere, Start, Goto,
       Step, AnswerCut, SaveCut, Authenticate, Inspect, Installed, AptInstall, ReadLive, SetupBuild,
       SetupBuildFails, Gate, Upload, Record, Forget, Fails, Return, InSession,
       World, Reinstall, Upgrade, SshClient, vars
  <2>6. CASE Operator
    BY <2>6 DEF Operator, BuildAlone, BuildAloneFails, BuiltElsewhere, Start, Goto, InSession
  <2>7. QED
    BY <2>2, <2>3, <2>4, <2>5, <2>6 DEF Next
<1>3. QED
  BY <1>1, <1>2, InitType, NextType, FileVouchedInit, FileVouchedStep, PTL DEF Spec

-----------------------------------------------------------------------------
(* What the operator accepted is found again.                               *)

\* Every key the operator accepted is on a line that counts.
Remembered == Whole => \A t \in accepted : t[2] \in Listed(file, t[1])

LEMMA RememberedStep == TypeInv /\ Remembered /\ [Next]_vars => Remembered'
<1> SUFFICES ASSUME TypeInv, Remembered, [Next]_vars, Whole'
             PROVE  (\A t \in accepted : t[2] \in Listed(file, t[1]))'
  BY DEF Remembered
<1>0. file \in Files
  BY DEF TypeInv, TypeOK
<1>1. CASE UNCHANGED trustVars
  BY <1>1 DEF Remembered, Whole, trustVars
<1>2. ASSUME NEW line \in Lines, NEW e \in Endpoints, NEW k \in HostKeys, NEW ended \in BOOLEAN,
             Extended(line, e, k, ended)
      PROVE  (\A t \in accepted : t[2] \in Listed(file, t[1]))'
  <2>1. file' = [lines |-> Append(file.lines, line), ended |-> ended]
    BY <1>2 DEF Extended
  <2>2. /\ DOMAIN file'.lines = DOMAIN file.lines \union {Len(file.lines) + 1}
        /\ \A i \in DOMAIN file.lines : file'.lines[i] = file.lines[i]
        /\ file'.lines[Len(file.lines) + 1] = line
    BY <1>0, <2>1, AppendLine
  <2>3. \E x \in HostKeys : line.keys = {x}
    BY <2>2 DEF Whole
  <2>4. line.keys = {k} /\ line.names = {e} /\ line.marker = "none"
    BY <1>2, <2>3 DEF Extended, About
  <2>5. Whole
    BY <2>2 DEF Whole
  <2>6. \A d : Naming(file, d) \subseteq Naming(file', d)
    BY <2>2 DEF Naming
  <2>7. \A d : Listed(file, d) \subseteq Listed(file', d)
    <3> SUFFICES ASSUME NEW d, NEW x \in Listed(file, d) PROVE x \in Listed(file', d)
      OBVIOUS
    <3>1. PICK i \in Naming(file, d) : x \in file.lines[i].keys
      BY DEF Listed
    <3>2. file'.lines[i] = file.lines[i] /\ i \in Naming(file', d)
      BY <2>2, <2>6 DEF Naming
    <3>3. QED
      BY <3>1, <3>2 DEF Listed
  <2>8. ~line.hashed => k \in Listed(file', e)
    <3>1. ~line.hashed => Len(file.lines) + 1 \in Naming(file', e)
      BY <2>2, <2>4 DEF Naming, Counted, Names
    <3>2. QED
      BY <2>2, <2>4, <3>1 DEF Listed
  <2>9. accepted' = accepted \/ (~line.hashed /\ accepted' = accepted \union {<<e, k>>})
    BY <1>2 DEF Extended
  <2>10. QED
    BY <2>5, <2>7, <2>8, <2>9 DEF Remembered
<1>3. ASSUME NEW line \in Lines, NEW ended \in BOOLEAN, Glued(line, ended)
      PROVE  FALSE
  <2>1. file.lines # <<>> /\ line.keys = {}
        /\ file' = [lines |-> [file.lines EXCEPT ![Len(file.lines)] = line], ended |-> ended]
    BY <1>3 DEF Glued
  <2>2. /\ DOMAIN file'.lines = DOMAIN file.lines
        /\ file'.lines[Len(file.lines)] = line
        /\ Len(file.lines) \in DOMAIN file.lines
    BY <1>0, <2>1, LastLine
  <2>3. QED
    BY <2>1, <2>2 DEF Whole
<1>4. QED
  BY <1>1, <1>2, <1>3, FileStep

LEMMA RememberedInvariant == Spec => [](TypeInv /\ FileVouched /\ Remembered)
<1>1. Init => Remembered
  BY DEF Init, Remembered
<1>2. QED
  BY <1>1, InitType, NextType, FileVouchedInit, FileVouchedStep, RememberedStep, PTL DEF Spec

\* What the operator accepted matches ever after, whatever the ssh client
\* appends and whichever lines stand before it, in a file with no line cut
\* short or glued.
THEOREM AcceptedIsKept == Spec => []TrustRemembered
<1>1. Remembered => TrustRemembered
  BY DEF Remembered, TrustRemembered, Lookup
<1>2. QED
  BY <1>1, RememberedInvariant, PTL

\* A host is refused only where somebody vouched for another key, for that
\* endpoint or for the bare host.
THEOREM RefusalSound == Spec => []RefusalIsEarned
<1>1. TypeInv /\ FileVouched => RefusalIsEarned
  <2> SUFFICES ASSUME TypeInv, FileVouched, Whole, NEW e \in Reached,
                      Lookup(file, e, presented[e]) = "mismatch"
               PROVE  \E k \in HostKeys \ {presented[e]} : Vouched(e, k) \/ Vouched(Bare(e), k)
    BY DEF RefusalIsEarned
  <2>1. PICK i \in Naming(file, e) : TRUE
    BY DEF Lookup
  <2>2. PICK k \in HostKeys : file.lines[i].keys = {k}
    BY DEF Naming, Whole
  <2>3. k \in Listed(file, e) /\ presented[e] \notin Listed(file, e)
    BY <2>2 DEF Listed, Lookup
  <2>4. QED
    BY <2>2, <2>3, NamedVouched
<1>2. QED
  BY <1>1, RememberedInvariant, PTL

\* NeverAskedTwice as a relation between a state and the next.
AsksNews ==
  (pc = "verify" /\ pc' = "ask" /\ Whole) =>
    \A t \in accepted : t[1] # job.at /\ t[1] # Bare(job.at)

\* Where the operator has accepted a key, for the endpoint or for the bare
\* host, tunsmith does not ask about another.
THEOREM AskedOnce == Spec => NeverAskedTwice
<1>1. TypeInv /\ Remembered /\ [Next]_vars => AsksNews
  <2> SUFFICES ASSUME TypeInv, Remembered, [Next]_vars, pc = "verify", pc' = "ask", Whole,
                      NEW t \in accepted
               PROVE  t[1] # job.at /\ t[1] # Bare(job.at)
    BY DEF AsksNews
  <2>1. Verify
    BY DEF Next, Operator, BuildAlone, BuildAloneFails, BuiltElsewhere, Start, Goto,
       Step, Answer, AnswerCut, SaveCut, Authenticate, Inspect, Installed, AptInstall, ReadLive, SetupBuild,
       SetupBuildFails, Gate, Upload, Record, Forget, Fails, Return, InSession,
       World, Reinstall, Upgrade, SshClient, vars
  <2>2. Naming(file, job.at) = {}
    BY <2>1 DEF Verify, Lookup, Goto, Return
  <2>3. Naming(file, t[1]) # {}
    BY DEF Remembered, Listed
  <2>4. Bare(Bare(job.at)) = Bare(job.at)
    BY DEF Bare, HostOf
  <2>5. Naming(file, Bare(job.at)) \subseteq Naming(file, job.at)
    BY <2>4 DEF Naming, Names
  <2>6. QED
    BY <2>2, <2>3, <2>5
<1>2. Spec => [][AsksNews]_vars
  BY <1>1, RememberedInvariant, PTL DEF Spec
<1>3. QED
  BY <1>2 DEF NeverAskedTwice, AsksNews

-----------------------------------------------------------------------------
(* Versions, from the command line and from the host.                       *)

\* Every dist/ was built for an OpenVPN that can run it, and for the version
\* that was typed if one was.
DistSound ==
  dist # NoFile =>
    /\ MeetsMinimum(dist.version)
    /\ dist.source = "flag" =>
         \E s \in Flags : Padded(s, Short(dist.version)) \/ Padded(s, Long(dist.version))

LEMMA LegacySound == MeetsMinimum(Legacy.version) /\ Legacy.source = "baseline"
BY DEF Legacy, MeetsMinimum, Baseline

\* A build has a target that meets the minimum, taken from the flag if there
\* is one.
LEMMA TargetSound ==
  ASSUME NEW h, NEW flag, HasTarget(flag, SeenBy(h)), flag # NoVersion => MeetsMinimum(flag)
  PROVE  /\ MeetsMinimum(StampFor(h, flag).version)
         /\ StampFor(h, flag).source = "flag" => StampFor(h, flag).version = flag
                                                 /\ flag # NoVersion
<1>1. MeetsMinimum(Baseline)
  BY DEF MeetsMinimum, Baseline
<1>2. QED
  BY <1>1 DEF StampFor, Target, HasTarget

LEMMA DistSoundStep == TypeInv /\ DistSound /\ [Next]_vars => DistSound'
<1> SUFFICES ASSUME TypeInv, DistSound, [Next]_vars, dist' # dist PROVE DistSound'
  BY DEF DistSound
<1>1. ASSUME NEW h, NEW given \in Flags, BuildAlone(h, given)
      PROVE  DistSound'
  <2> DEFINE flag == IF given = <<>> THEN NoVersion ELSE ParseCli(given)
  <2>1. /\ HasTarget(flag, SeenBy(h)) /\ dist' = StampFor(h, flag)
        /\ given # <<>> => flag # NoVersion
    BY <1>1 DEF BuildAlone, BuildFor
  <2>2. flag # NoVersion => /\ MeetsMinimum(flag)
                            /\ Padded(given, Short(flag)) \/ Padded(given, Long(flag))
    <3>1. Padded(given, Trim(given))
      BY TrimPadded, ConnectAssumption
    <3>2. QED
      BY <3>1, ParseCliType
  <2> HIDE DEF flag
  <2>3. QED
    BY <2>1, <2>2, TargetSound DEF DistSound
<1>2. CASE SetupBuild
  <2>1. /\ HasTarget(NoVersion, SeenBy(HostOf(job.at)))
        /\ dist' = StampFor(HostOf(job.at), NoVersion)
    BY <1>2 DEF SetupBuild, BuildFor
  <2>2. QED
    BY <2>1, TargetSound DEF DistSound
<1>3. CASE BuildLeaves
  BY <1>3, LegacySound DEF BuildLeaves, DistSound
<1>4. CASE BuiltElsewhere
  <2>1. dist'.version = Legacy.version /\ dist'.source = Legacy.source
    BY <1>4 DEF BuiltElsewhere, Legacy
  <2>2. QED
    BY <2>1, LegacySound DEF DistSound
<1>5. QED
  BY <1>1, <1>2, <1>3, <1>4 DEF Next, Operator, BuildAloneFails, Start,
     Step, Verify, Answer, AnswerCut, SaveCut, Authenticate, Inspect, Installed, AptInstall, ReadLive,
     SetupBuildFails, Gate, Upload, Record, Forget, Fails,
     World, Reinstall, Upgrade, SshClient, vars

LEMMA DistInvariant == Spec => [](TypeInv /\ DistSound)
<1>1. Init => DistSound
  BY DEF Init, DistSound
<1>2. QED
  BY <1>1, InitType, NextType, DistSoundStep, PTL DEF Spec

\* A version that a build took from the command line was typed as it is, with
\* nothing but white space around it.
THEOREM FlagsVerbatim == Spec => []FlagIsVerbatim
<1>1. DistSound => FlagIsVerbatim
  BY DEF DistSound, FlagIsVerbatim
<1>2. QED
  BY <1>1, DistInvariant, PTL

\* No build targets an OpenVPN older than 2.4.
THEOREM TargetsNew == Spec => []NoOldTarget
<1>1. TypeInv /\ DistSound => NoOldTarget
  <2> SUFFICES ASSUME TypeInv, DistSound, dist # NoFile
               PROVE  1000 * dist.version[1] + dist.version[2] >= 2004
    BY DEF NoOldTarget
  <2>1. dist.version \in Versions
    BY DEF TypeInv, TypeOK, Stamps
  <2>2. dist.version[1] \in Nat /\ dist.version[2] \in Nat
    BY <2>1, PartAssumption DEF Versions, Parts
  <2>3. MeetsMinimum(dist.version)
    BY DEF DistSound
  <2>4. Baseline[1] = 2 /\ Baseline[2] = 4
    BY DEF Baseline
  <2>5. \/ dist.version[1] > Baseline[1]
        \/ dist.version[1] = Baseline[1] /\ dist.version[2] >= Baseline[2]
    BY <2>3 DEF MeetsMinimum
  <2>6. QED
    BY <2>2, <2>4, <2>5
<1>2. QED
  BY <1>1, DistInvariant, PTL

-----------------------------------------------------------------------------
(* Setup: what it builds for, and what the profile remembers.               *)

\* From the reading after apt to the build, the profile on disk says what the
\* session holds; from the build on dist/ is for it; past the gate it is a
\* version.
BuiltForLive ==
  /\ pc = "build" =>
       /\ job.cmd = "setup" /\ profile[HostOf(job.at)] \in Profiles
       /\ profile[HostOf(job.at)].seen = job.live
  /\ (pc \in {"gate", "upload"} /\ job.cmd = "setup") =>
       /\ dist # NoFile /\ dist.host = HostOf(job.at)
       /\ dist.version = Target(NoVersion, job.live).version
       /\ dist.source = Target(NoVersion, job.live).source
  /\ pc = "upload" => ParseVersion(job.live) # NoVersion

\* A build for a host that a session holds is for what its profile says.
LEMMA StampOfHost ==
  ASSUME NEW h \in Hosts
  PROVE  /\ StampFor(h, NoVersion).host = h
         /\ StampFor(h, NoVersion).version = Target(NoVersion, profile[h].seen).version
         /\ StampFor(h, NoVersion).source = Target(NoVersion, profile[h].seen).source
BY NoFileAssumption DEF StampFor, SeenBy

LEMMA BuiltForLiveStep == TypeInv /\ BuiltForLive /\ [Next]_vars => BuiltForLive'
<1> SUFFICES ASSUME TypeInv, BuiltForLive, [Next]_vars PROVE BuiltForLive'
  OBVIOUS
<1> DEFINE h == HostOf(job.at)
<1>t. pc # "idle" => h \in Hosts
  BY HostOfType, ConnectAssumption DEF TypeInv, InHand
<1>1. CASE ReadLive
  <2>1. PICK seen \in Reading :
          IF job.cmd = "setup"
            THEN SaveProfile(seen, job.setup) /\ Goto("build", [job EXCEPT !.live = seen])
            ELSE Goto("gate", [job EXCEPT !.live = seen]) /\ UNCHANGED profile
    BY <1>1 DEF ReadLive
  <2>2. job' = [job EXCEPT !.live = seen] /\ job \in Jobs
    BY <2>1 DEF Goto, TypeInv, TypeOK
  <2>3. job'.live = seen /\ job'.at = job.at /\ job'.cmd = job.cmd
    BY <2>2 DEF Jobs
  <2>4. CASE job.cmd = "setup"
    <3>1. SaveProfile(seen, job.setup) /\ pc' = "build"
      BY <2>1, <2>4 DEF Goto
    <3>2. job.at \in Reached /\ seen \in Banners /\ job.setup \in BOOLEAN
      BY <1>1, <2>1, ReadingType DEF ReadLive, TypeInv, TypeOK, InHand, Jobs
    <3>3. profile'[h] = [seen |-> seen, setup |-> job.setup] /\ profile'[h] \in Profiles
      BY <3>1, <3>2, SaveProfileType
    <3>4. QED
      BY <2>3, <2>4, <3>1, <3>3 DEF BuiltForLive
  <2>5. CASE job.cmd # "setup"
    BY <2>1, <2>3, <2>5 DEF BuiltForLive, Goto
  <2>6. QED
    BY <2>4, <2>5
<1>2. CASE SetupBuild
  <2>1. /\ pc = "build" /\ pc' = "gate" /\ job' = job
        /\ dist' = StampFor(h, NoVersion)
    BY <1>2 DEF SetupBuild, BuildFor, Goto
  <2>2. h \in Hosts
    BY <2>1, <1>t
  <2>3. dist' # NoFile
    BY <2>1, <2>2, StampType, NoFileAssumption
  <2>4. profile[h].seen = job.live
    BY <2>1 DEF BuiltForLive
  <2> HIDE DEF h
  <2>5. /\ dist'.host = h
        /\ dist'.version = Target(NoVersion, job.live).version
        /\ dist'.source = Target(NoVersion, job.live).source
    BY <2>1, <2>2, <2>4, StampOfHost
  <2>6. QED
    BY <2>1, <2>3, <2>5 DEF BuiltForLive, h
<1>3. CASE Gate
  <2>1. pc = "gate" /\ dist' = dist
        /\ \/ pc' = "upload" /\ job' = job /\ CanRunOn(dist.dialect, ParseVersion(job.live))
           \/ pc' = "idle"
    BY <1>3 DEF Gate, Goto, Return
  <2>2. CanRunOn(dist.dialect, ParseVersion(job.live)) => ParseVersion(job.live) # NoVersion
    BY DEF CanRunOn
  <2>3. QED
    BY <2>1, <2>2 DEF BuiltForLive
<1>4. CASE Inspect
  <2>1. pc' \notin {"build", "gate", "upload"}
    BY <1>4 DEF Inspect, AfterInspect, Goto, Return
  <2>2. QED
    BY <2>1 DEF BuiltForLive
<1>5. CASE \/ Verify \/ Answer \/ AnswerCut \/ SaveCut \/ Authenticate \/ Installed \/ AptInstall \/ SetupBuildFails
           \/ Upload \/ Record \/ Forget \/ Fails
  <2>1. pc' \notin {"build", "gate", "upload"}
    BY <1>5 DEF Verify, Answer, AnswerCut, SaveCut, Authenticate, Installed, AptInstall,
       SetupBuildFails, Upload, Record, Forget, Fails, Goto, Return
  <2>2. QED
    BY <2>1 DEF BuiltForLive
<1>6. CASE Operator
  <2>1. pc' \in {"idle", "verify"}
    BY <1>6 DEF Operator, BuildAlone, BuildAloneFails, BuiltElsewhere, Start, Goto
  <2>2. QED
    BY <2>1 DEF BuiltForLive
<1>7. CASE World \/ UNCHANGED vars
  <2>1. UNCHANGED <<profile, dist, pc, job>>
    BY <1>7 DEF World, Reinstall, Upgrade, SshClient, vars
  <2>2. QED
    BY <2>1 DEF BuiltForLive
<1>8. QED
  BY <1>1, <1>2, <1>3, <1>4, <1>5, <1>6, <1>7 DEF Next, Step

\* What setup deploys was built for the OpenVPN that it found on this host
\* after apt.
THEOREM SetupIsLive == Spec => []StampIsLive
<1>1. Init => BuiltForLive
  BY DEF Init, BuiltForLive
<1>2. TypeInv /\ BuiltForLive => StampIsLive
  BY DEF BuiltForLive, StampIsLive, Target
<1>3. QED
  BY <1>1, <1>2, InitType, NextType, BuiltForLiveStep, PTL DEF Spec

\* The profile of the session's host can be read, or does not exist, and a
\* setup it has on record is in the session's memory.
SetupHeld ==
  pc # "idle" =>
    \/ profile[HostOf(job.at)] = NoFile
    \/ profile[HostOf(job.at)] \in Profiles /\ (profile[HostOf(job.at)].setup => job.setup)

\* Saving a profile saves the setup in it, and no other host's.
LEMMA SavedSetup ==
  ASSUME TypeInv, job.at \in Reached, NEW seen \in Banners, NEW has \in BOOLEAN,
         SaveProfile(seen, has)
  PROVE  /\ \A h \in Hosts : h # HostOf(job.at) => profile'[h] = profile[h]
         /\ profile'[HostOf(job.at)] \in Profiles
         /\ profile'[HostOf(job.at)].setup = has
<1>1. profile'[HostOf(job.at)] = [seen |-> seen, setup |-> has]
  BY SaveProfileType
<1>2. QED
  BY <1>1, SaveProfileType

\* Where a step writes a profile, and what with.
LEMMA ProfileStep ==
  ASSUME TypeInv, [Next]_vars
  PROVE  \/ UNCHANGED profile
         \/ /\ pc # "idle" /\ job.at \in Reached
            /\ \A h \in Hosts : h # HostOf(job.at) => profile'[h] = profile[h]
            /\ \/ /\ profile'[HostOf(job.at)] \in Profiles
                  /\ \/ profile'[HostOf(job.at)].setup = job.setup /\ pc \in {"inspect", "live"}
                     \/ profile'[HostOf(job.at)].setup = TRUE /\ pc' = "idle"
                     \/ /\ profile'[HostOf(job.at)].setup = FALSE
                        /\ pc = "forget" /\ pc' = "idle"
               \/ profile'[HostOf(job.at)] = Torn /\ Saves /\ pc' = "idle"
<1>1. pc # "idle" => job.at \in Reached
  BY DEF TypeInv, InHand
<1>2. job.setup \in BOOLEAN /\ job.live \in Banners
  BY DEF TypeInv, TypeOK, Jobs
<1>3. CASE Inspect \/ ReadLive
  <2>1. pc \in {"inspect", "live"}
    BY <1>3 DEF Inspect, ReadLive
  <2>2. CASE \E seen \in Reading : SaveProfile(seen, job.setup)
    <3>1. PICK seen \in Banners : SaveProfile(seen, job.setup)
      BY <1>1, <2>1, <2>2, ReadingType
    <3>2. QED
      BY <1>1, <1>2, <2>1, <3>1, SavedSetup
  <2>3. QED
    BY <1>3, <2>2 DEF Inspect, ReadLive
<1>4. CASE Record
  <2>1. SaveProfile(job.live, TRUE) /\ pc = "record" /\ pc' = "idle"
    BY <1>4 DEF Record, Return, Goto
  <2>2. QED
    BY <1>1, <1>2, <2>1, SavedSetup
<1>5. CASE Forget
  <2>1. SaveProfile(profile[HostOf(job.at)].seen, FALSE) /\ pc = "forget" /\ pc' = "idle"
    BY <1>5 DEF Forget, Return, Goto
  <2>2. HostOf(job.at) \in Hosts
    BY <1>1, <2>1, HostOfType, ConnectAssumption
  <2>3. profile[HostOf(job.at)].seen \in Banners
    BY <2>1, <2>2 DEF TypeInv, TypeOK, InHand, Profiles
  <2>4. QED
    BY <1>1, <2>1, <2>3, SavedSetup
<1>6. CASE SaveCut
  <2>1. Saves /\ pc # "idle" /\ pc' = "idle"
    BY <1>6, SavesWithin DEF SaveCut, Return, Goto
  <2>2. QED
    BY <1>1, <1>6, <2>1, SaveCutType
<1>7. QED
  BY <1>3, <1>4, <1>5, <1>6 DEF Next, Operator, BuildAlone, BuildAloneFails, BuiltElsewhere, Start,
     Step, Verify, Answer, AnswerCut, Authenticate, Installed, AptInstall, SetupBuild,
     SetupBuildFails, Gate, Upload, Fails, World, Reinstall, Upgrade, SshClient, vars

\* A session keeps what it read of the profile at its start.
LEMMA MemoryStep ==
  ASSUME TypeInv, [Next]_vars, pc # "idle", pc' # "idle"
  PROVE  job'.at = job.at /\ job'.setup = job.setup
<1>1. job \in Jobs
  BY DEF TypeInv, TypeOK
<1>2. \/ job' = job
      \/ \E k : job' = [job EXCEPT !.key = k]
      \/ \E seen : job' = [job EXCEPT !.live = seen]
  BY DEF Next, Operator, BuildAlone, BuildAloneFails, BuiltElsewhere, Start,
     Step, Verify, Answer, AnswerCut, SaveCut, Authenticate, Inspect, Installed, AptInstall, ReadLive, SetupBuild,
     SetupBuildFails, Gate, Upload, Record, Forget, Fails, World, Reinstall, Upgrade,
     SshClient, vars, Goto, Return
<1>3. QED
  BY <1>1, <1>2 DEF Jobs

LEMMA SetupHeldStep == TypeInv /\ SetupHeld /\ [Next]_vars => SetupHeld'
<1> SUFFICES ASSUME TypeInv, SetupHeld, [Next]_vars, pc' # "idle" PROVE SetupHeld'
  BY DEF SetupHeld
<1>1. CASE pc = "idle"
  <2>1. PICK cmd \in Commands, e \in Reached : Start(cmd, e)
    BY <1>1, SavesWithin DEF Next, Operator, BuildAlone, BuildAloneFails, BuiltElsewhere,
       Step, Verify, Answer, AnswerCut, SaveCut, Authenticate, Inspect, Installed, AptInstall, ReadLive, SetupBuild,
       SetupBuildFails, Gate, Upload, Record, Forget, Fails, World, Reinstall, Upgrade,
       SshClient, vars
  <2>2. /\ job'.at = e /\ UNCHANGED profile /\ profile[HostOf(e)] # Torn
        /\ job'.setup = (HostOf(e) \in Remotes /\ profile[HostOf(e)].setup)
    BY <2>1 DEF Start, Goto, NoJob
  <2>3. HostOf(e) \in Hosts
    BY HostOfType, ConnectAssumption
  <2>4. profile[HostOf(e)] \in Profiles \union {NoFile}
    BY <2>2, <2>3 DEF TypeInv, TypeOK
  <2>5. QED
    BY <2>2, <2>3, <2>4 DEF SetupHeld, Remotes
<1>2. CASE pc # "idle"
  <2>1. job'.at = job.at /\ job'.setup = job.setup
    BY <1>2, MemoryStep
  <2>2. HostOf(job'.at) = HostOf(job.at)
    BY <2>1 DEF HostOf
  <2>3. QED
    BY <1>2, <2>1, <2>2, ProfileStep DEF SetupHeld
<1>3. QED
  BY <1>1, <1>2

\* A profile that can be read keeps the setup it has on record unless a clean
\* takes it off; a save that is cut, of whichever command, leaves a file that
\* cannot be read, and no command writes over it.
THEOREM SetupStays == Spec => SetupRemembered
<1> DEFINE Keeps ==
      \A h \in Hosts :
        /\ (profile[h] \in Profiles /\ profile[h].setup) =>
             \/ profile'[h] \in Profiles /\ profile'[h].setup
             \/ profile'[h] \in Profiles /\ pc = "forget" /\ HostOf(job.at) = h
             \/ profile'[h] = Torn /\ Saves /\ HostOf(job.at) = h
        /\ profile[h] = Torn => profile'[h] = Torn
<1>1. TypeInv /\ SetupHeld /\ [Next]_vars => Keeps
  <2> SUFFICES ASSUME TypeInv, SetupHeld, [Next]_vars, ~UNCHANGED profile
               PROVE  Keeps
    <3>1. UNCHANGED profile => Keeps
      OBVIOUS
    <3>2. QED
      BY <3>1
  <2>1. pc # "idle" /\ (profile[HostOf(job.at)] = NoFile \/ profile[HostOf(job.at)] \in Profiles)
    BY ProfileStep DEF SetupHeld
  <2>2. profile[HostOf(job.at)] # Torn
    BY <2>1, NoFileAssumption
  <2>3. profile[HostOf(job.at)] \in Profiles /\ profile[HostOf(job.at)].setup => job.setup
    BY <2>1, NoFileAssumption DEF SetupHeld
  <2>4. QED
    BY <2>1, <2>2, <2>3, ProfileStep, NoFileAssumption
<1>2. Init => SetupHeld
  BY DEF Init, SetupHeld
<1> HIDE DEF Keeps
<1>3. Spec => [][Keeps]_vars
  BY <1>1, <1>2, InitType, NextType, SetupHeldStep, PTL DEF Spec
<1>4. QED
  BY <1>3 DEF SetupRemembered, Keeps
=============================================================================
