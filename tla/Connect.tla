------------------------------ MODULE Connect ------------------------------
(***************************************************************************)
(* The way from a command line to a host, and what it decides: preview,     *)
(* remote setup, remote update and remote clean connect, verify the host    *)
(* key, inspect the host, keep remotes/<host>.json, build for the OpenVPN   *)
(* they found and pass the version gate; build picks its target from the    *)
(* same profiles.                                                          *)
(*                                                                         *)
(* What these commands do to the host once they are through is Deploy; how  *)
(* a build writes dist/ is Workspace.  Here both are one step.  One command *)
(* of the project runs at a time, beside the user's own ssh client, which   *)
(* extends known_hosts too, and hosts that are reinstalled and upgraded.    *)
(* Any step of a command may fail or be interrupted.                       *)
(***************************************************************************)
EXTENDS KnownHosts, OvpnVersion, FiniteSets

CONSTANTS
  Banners,      \* what `openvpn --version' and the package managers may print
  NotInstalled, \* the text "Not installed"
  AptBanners,   \* what apt installs
  AptHosts,     \* the hosts that run Debian or Ubuntu
  Flags,        \* the texts given to --openvpn-version
  Reached,      \* the endpoints where a server listens
  Changeable,   \* the hosts that may be reinstalled, upgraded or downgraded
  FirstWorlds,  \* hosts and known_hosts before the first command
  OldDialect,   \* the dialect of a dist/ that another release built
  NoFile,       \* the file does not exist
  Torn,         \* a profile whose write was cut short
  MaxLines      \* bound on the lines of known_hosts that is extended further

ASSUME ConnectAssumption ==
  /\ NotInstalled \in Banners /\ AptBanners \subseteq Banners
  /\ AptHosts \subseteq Hosts /\ Changeable \subseteq Hosts
  /\ Reached \subseteq Endpoints
  /\ \A s \in Flags : s \in Seq({s[i] : i \in DOMAIN s})
  /\ FirstWorlds \subseteq [presented : [Reached -> HostKeys], ovpn : [Hosts -> Banners],
                           file : Files, others : SUBSET (Endpoints \X HostKeys)]
  /\ OldDialect # Dialect24
  /\ MaxLines \in Nat

\* Whoever put a whole line in the first file vouched for it: this is what
\* `others' means before the first command.
ASSUME FirstLinesAssumption ==
  \A w \in FirstWorlds : \A i \in DOMAIN w.file.lines : \A e \in w.file.lines[i].names :
    \A k \in HostKeys :
      (Counted(w.file.lines[i]) /\ w.file.lines[i].keys = {k}) => <<e, k>> \in w.others

\* version and source of dist/build.json, and the host of the profile it used.
Stamps == [version : Versions, source : Sources,
           host : Hosts \union {NoFile}, dialect : {Dialect24, OldDialect}]
Profiles == [seen : Banners, setup : BOOLEAN]
Commands == {"preview", "setup", "update", "clean"}
Jobs == [cmd : Commands \union {"none"},
         at : Reached \union {NoFile},
         key : HostKeys \union {NoFile},
         setup : BOOLEAN,
         live : Banners]

ASSUME NoFileAssumption ==
  /\ NoFile \notin Reached \union HostKeys \union Hosts
  /\ NoFile \notin Profiles \union Stamps
  /\ Torn \notin Profiles \union {NoFile}

VARIABLES
  presented, \* the key that the server at each endpoint presents
  ovpn,      \* what each host prints as the version of its OpenVPN
  file,      \* known_hosts
  accepted,  \* the endpoints and keys that the operator said yes to
  others,    \* those that the ssh client, or the user, put in the file
  profile,   \* remotes/<host>.json
  dist,      \* the stamp of dist/, of which build.json may be missing
  pc,        \* where the running command is
  job        \* what it holds in memory

hostVars == <<presented, ovpn>>
trustVars == <<file, accepted, others>>
vars == <<presented, ovpn, file, accepted, others, profile, dist, pc, job>>

NoJob == [cmd |-> "none", at |-> NoFile, key |-> NoFile, setup |-> FALSE,
          live |-> NotInstalled]

Init ==
  /\ \E first \in FirstWorlds :
       /\ presented = first.presented /\ ovpn = first.ovpn
       /\ file = first.file /\ others = first.others
  /\ accepted = {}
  /\ profile = [h \in Hosts |-> NoFile]
  /\ dist = NoFile
  /\ pc = "idle" /\ job = NoJob

Goto(next, memory) == pc' = next /\ job' = memory
Return == Goto("idle", NoJob)

-----------------------------------------------------------------------------
(* The profiles and the build.                                             *)

\* list_remote_hosts looks at the names of the files only.
Remotes == {h \in Hosts : profile[h] # NoFile}

\* The stamp of a dist/ whose build.json is missing is taken for this
\* (BuildStamp::legacy_openvpn_2_4).
Legacy == [version |-> Baseline, source |-> "baseline", host |-> NoFile,
           dialect |-> Dialect24]

\* load_selected_profile: --host, or the only remote, or none.  A profile that
\* was cut short cannot be loaded, and stands in the way of a choice.
Selectable(h) ==
  \/ h \in Remotes /\ profile[h] # Torn
  \/ h = NoFile /\ Remotes = {}

SeenBy(h) == IF h = NoFile THEN <<>> ELSE profile[h].seen

StampFor(h, flag) ==
  [version |-> Target(flag, SeenBy(h)).version,
   source |-> Target(flag, SeenBy(h)).source,
   host |-> h, dialect |-> Dialect24]

\* build::run for the profile of h: the target comes first, and a build that
\* has none leaves dist/ alone.
BuildFor(h, flag) ==
  /\ HasTarget(flag, SeenBy(h))
  /\ dist' = StampFor(h, flag)

\* A build that is interrupted, or fails, after it has removed dist/: without
\* server.conf, or with a stamp cut short, nothing can be deployed; without a
\* stamp it can.
BuildLeaves == dist' \in {dist, NoFile, Legacy}

\* build --host, or without it when there is at most one remote.
BuildAlone(h, given) ==
  /\ pc = "idle" /\ Selectable(h)
  /\ LET flag == IF given = <<>> THEN NoVersion ELSE ParseCli(given) IN
     /\ given # <<>> => flag # NoVersion
     /\ BuildFor(h, flag)
  /\ UNCHANGED <<hostVars, trustVars, profile, pc, job>>

\* The same, interrupted.
BuildAloneFails ==
  /\ pc = "idle" /\ BuildLeaves
  /\ UNCHANGED <<hostVars, trustVars, profile, pc, job>>

\* dist/ comes with a project directory that another release has built in.
BuiltElsewhere ==
  /\ pc = "idle" /\ dist = NoFile
  /\ dist' = [Legacy EXCEPT !.dialect = OldDialect]
  /\ UNCHANGED <<hostVars, trustVars, profile, pc, job>>

-----------------------------------------------------------------------------
(* Connecting.                                                             *)

\* The command reads the profile of its host before it connects, and ends
\* there if it cannot.  update wants one, and a dist/server/server.conf; clean
\* asks first.
Start(cmd, e) ==
  /\ pc = "idle" /\ profile[HostOf(e)] # Torn
  /\ cmd = "update" => HostOf(e) \in Remotes /\ dist # NoFile
  /\ Goto("verify",
       [NoJob EXCEPT !.cmd = cmd, !.at = e,
          !.setup = HostOf(e) \in Remotes /\ profile[HostOf(e)].setup])
  /\ UNCHANGED <<hostVars, trustVars, profile, dist>>

\* Mutant: a key that does not match is asked about like an unknown one.
VerifyAsks ==
  /\ pc = "verify"
  /\ LET k == presented[job.at]
         status == Lookup(file, job.at, k)
     IN Goto(IF status = "match" THEN "auth" ELSE "ask", [job EXCEPT !.key = k])
  /\ UNCHANGED <<hostVars, trustVars, profile, dist>>

\* verify_known_host: go on, refuse, or ask.
Verify ==
  /\ pc = "verify"
  /\ LET k == presented[job.at]
         status == Lookup(file, job.at, k)
     IN \/ status = "match" /\ Goto("auth", [job EXCEPT !.key = k])
        \/ status = "unknown" /\ Goto("ask", [job EXCEPT !.key = k])
        \/ status = "mismatch" /\ Return
  /\ UNCHANGED <<hostVars, trustVars, profile, dist>>

\* Mutant: the connection goes on whatever the answer.
AnswerIgnored ==
  /\ pc = "ask"
  /\ Goto("auth", job)
  /\ UNCHANGED <<hostVars, trustVars, profile, dist>>

\* The operator trusts the host; the line is written before the key is
\* accepted.  No, and a line that cannot be written, end the command (Fails).
Answer ==
  /\ pc = "ask"
  /\ file' \in AppendKnown(file, job.at, job.key)
  /\ accepted' = accepted \union {<<job.at, job.key>>}
  /\ Goto("auth", job)
  /\ UNCHANGED <<hostVars, others, profile, dist>>

\* The same, but the line is only written in part, and the command ends.
AnswerCut ==
  /\ pc = "ask" /\ Len(file.lines) < MaxLines
  /\ file' \in AppendCut(file, job.at, job.key)
  /\ accepted' = accepted \union {<<job.at, job.key>>}
  /\ Return
  /\ UNCHANGED <<hostVars, others, profile, dist>>

Authenticate ==
  /\ pc = "auth"
  /\ Goto("inspect", job)
  /\ UNCHANGED <<hostVars, trustVars, profile, dist>>

SaveProfile(seen, setup) ==
  profile' = [profile EXCEPT ![HostOf(job.at)] = [seen |-> seen, setup |-> setup]]

\* Where the profile is saved.  update saves it with the NAT interface it has
\* applied, when there is a setup to put that in.
Saves ==
  \/ pc \in {"inspect", "record", "forget"}
  \/ pc = "live" /\ job.cmd = "setup"
  \/ pc = "upload" /\ job.cmd = "update" /\ job.setup

\* save_remote_profile truncates the file and then fills it: the disk is full,
\* or the program is stopped, in between.
SaveCut ==
  /\ Saves
  /\ profile' = [profile EXCEPT ![HostOf(job.at)] = Torn]
  /\ Return
  /\ UNCHANGED <<hostVars, trustVars, dist>>

\* What vpn_version returns: a probe that is refused counts as not installed.
Reading == {ovpn[HostOf(job.at)], NotInstalled}

AfterInspect ==
  CASE job.cmd = "setup" -> "deps"
    [] job.cmd = "update" -> "live"
    [] job.cmd = "clean" -> "forget"
    [] OTHER -> "idle"

\* Mutant: the profile is written anew.
InspectForgets ==
  /\ pc = "inspect"
  /\ \E seen \in Reading : SaveProfile(seen, FALSE)
  /\ IF AfterInspect = "idle" THEN Return ELSE Goto(AfterInspect, job)
  /\ UNCHANGED <<hostVars, trustVars, dist>>

\* analyze_environment, and the profile saved with what it found; the setup
\* that was on record stays on it.
Inspect ==
  /\ pc = "inspect"
  /\ \E seen \in Reading : SaveProfile(seen, job.setup)
  /\ IF AfterInspect = "idle" THEN Return ELSE Goto(AfterInspect, job)
  /\ UNCHANGED <<hostVars, trustVars, dist>>

-----------------------------------------------------------------------------
(* remote setup and update.                                                *)

\* ensure_dependencies: OpenVPN is there, or apt installs it.
Installed ==
  /\ pc = "deps" /\ Reading # {NotInstalled}
  /\ Goto("live", job)
  /\ UNCHANGED <<hostVars, trustVars, profile, dist>>

\* The probe says that OpenVPN is missing, or did not run: apt-get install
\* installs what apt has, or leaves an OpenVPN that is there as it is.
AptInstall ==
  /\ pc = "deps" /\ HostOf(job.at) \in AptHosts
  /\ \E banner \in AptBanners \union (Reading \ {NotInstalled}) :
       ovpn' = [ovpn EXCEPT ![HostOf(job.at)] = banner]
  /\ Goto("live", job)
  /\ UNCHANGED <<presented, trustVars, profile, dist>>

\* Mutant: setup does not save the version it read after apt.
ReadLiveUnsaved ==
  /\ pc = "live"
  /\ \E seen \in Reading :
       Goto(IF job.cmd = "setup" THEN "build" ELSE "gate", [job EXCEPT !.live = seen])
  /\ UNCHANGED <<hostVars, trustVars, profile, dist>>

\* The version is read again; setup puts it in the profile, for the build.
ReadLive ==
  /\ pc = "live"
  /\ \E seen \in Reading :
       IF job.cmd = "setup"
         THEN SaveProfile(seen, job.setup) /\ Goto("build", [job EXCEPT !.live = seen])
         ELSE Goto("gate", [job EXCEPT !.live = seen]) /\ UNCHANGED profile
  /\ UNCHANGED <<hostVars, trustVars, dist>>

\* build::run with --host: it reads the profile that was just saved.
SetupBuild ==
  /\ pc = "build"
  /\ BuildFor(HostOf(job.at), NoVersion)
  /\ Goto("gate", job)
  /\ UNCHANGED <<hostVars, trustVars, profile>>

SetupBuildFails ==
  /\ pc = "build" /\ BuildLeaves /\ Return
  /\ UNCHANGED <<hostVars, trustVars, profile>>

\* require_deploy_compatible.
Gate ==
  /\ pc = "gate"
  /\ IF CanRunOn(dist.dialect, ParseVersion(job.live))
       THEN Goto("upload", job) ELSE Return
  /\ UNCHANGED <<hostVars, trustVars, profile, dist>>

\* The deployment of setup_vpn or update_config, as a whole.  The interface
\* that update records in the profile is not kept here.
Upload ==
  /\ pc = "upload"
  /\ IF job.cmd = "setup" THEN Goto("record", job) ELSE Return
  /\ UNCHANGED <<hostVars, trustVars, profile, dist>>

\* setup saves the profile it holds: what it read after apt, and the setup.
Record ==
  /\ pc = "record"
  /\ SaveProfile(job.live, TRUE) /\ Return
  /\ UNCHANGED <<hostVars, trustVars, dist>>

\* clean, at its end, takes the setup off the profile that it saved.
Forget ==
  /\ pc = "forget"
  /\ SaveProfile(profile[HostOf(job.at)].seen, FALSE) /\ Return
  /\ UNCHANGED <<hostVars, trustVars, dist>>

\* Any step may return an error, or the program be stopped.
Fails ==
  /\ pc # "idle" /\ Return
  /\ UNCHANGED <<hostVars, trustVars, profile, dist>>

-----------------------------------------------------------------------------
(* The world around the program.                                           *)

\* A reinstalled host presents another key on every port.  No session
\* outlives that.
Reinstall(h, k) ==
  /\ pc = "idle" /\ h \in Changeable
  /\ presented' = [e \in Reached |-> IF HostOf(e) = h THEN k ELSE presented[e]]
  /\ UNCHANGED <<ovpn, trustVars, profile, dist, pc, job>>

Upgrade(h, banner) ==
  /\ h \in Changeable
  /\ ovpn' = [ovpn EXCEPT ![h] = banner]
  /\ UNCHANGED <<presented, trustVars, profile, dist, pc, job>>

\* The user connects with ssh, which writes the line that append_known_host
\* would, hashed if it is so configured.  It knows a key by a whole line only.
SshClient(e, hashed) ==
  /\ Len(file.lines) < MaxLines
  /\ \A i \in Naming(file, e) : file.lines[i].keys # {presented[e]}
  /\ file.ended \/ file.lines = <<>>
  /\ file' = [lines |-> Append(file.lines,
                [TrustLine(e, presented[e]) EXCEPT !.hashed = hashed]), ended |-> TRUE]
  /\ others' = others \union {<<e, presented[e]>>}
  /\ UNCHANGED <<hostVars, accepted, profile, dist, pc, job>>

-----------------------------------------------------------------------------

Operator ==
  \/ \E h \in Hosts \union {NoFile}, given \in Flags : BuildAlone(h, given)
  \/ BuildAloneFails \/ BuiltElsewhere
  \/ \E cmd \in Commands, e \in Reached : Start(cmd, e)

Step ==
  \/ Verify \/ Answer \/ AnswerCut \/ Authenticate \/ Inspect \/ SaveCut
  \/ Installed \/ AptInstall \/ ReadLive \/ SetupBuild \/ SetupBuildFails
  \/ Gate \/ Upload \/ Record \/ Forget \/ Fails

World ==
  \/ \E h \in Hosts : \/ \E k \in HostKeys : Reinstall(h, k)
                      \/ \E b \in Banners : Upgrade(h, b)
  \/ \E e \in Reached, hashed \in BOOLEAN : SshClient(e, hashed)

Next == Operator \/ Step \/ World

Spec == Init /\ [][Next]_vars

-----------------------------------------------------------------------------
(* Properties.                                                             *)

InSession == {"auth", "inspect", "deps", "live", "build", "gate", "upload",
              "record", "forget"}
Pcs == {"idle", "verify", "ask"} \union InSession

TypeOK ==
  /\ presented \in [Reached -> HostKeys]
  /\ ovpn \in [Hosts -> Banners]
  /\ file \in Files
  /\ accepted \subseteq Endpoints \X HostKeys
  /\ others \subseteq Endpoints \X HostKeys
  /\ profile \in [Hosts -> Profiles \union {NoFile, Torn}]
  /\ dist \in Stamps \union {NoFile}
  /\ pc \in Pcs
  /\ job \in Jobs

\* Somebody vouched for the key: the operator at tunsmith's prompt, or
\* whoever else wrote known_hosts.
Vouched(e, k) == <<e, k>> \in accepted \union others

\* No line was cut within its name or its key, or glued to another.
Whole == \A i \in DOMAIN file.lines : \E k \in HostKeys : file.lines[i].keys = {k}

\* The line does for the key of the session, and for others as well.
CutLineMatches(line) ==
  Counted(line) /\ Names(line, job.at) /\ job.key \in line.keys /\ line.keys # {job.key}

\* A session is open only with a host whose key somebody vouched for, on one
\* of its ports, or for which known_hosts has a line that breaks off within
\* its key, where the session's key begins alike: in any file, nothing else
\* lets a session through.
TrustIsExplicit ==
  pc \in InSession =>
    \/ \E port \in Ports : Vouched(<<HostOf(job.at), port>>, job.key)
    \/ \E i \in DOMAIN file.lines : CutLineMatches(file.lines[i])

\* What the operator accepted is recognised ever after, whatever else the ssh
\* client appends, before the prompt or while it waits; except in a file with
\* a line that was cut short or glued to another.
TrustRemembered ==
  Whole => \A t \in accepted : Lookup(file, t[1], t[2]) = "match"

\* Once the operator has accepted a key for an endpoint, or for the bare
\* host, tunsmith never offers to trust another one there: it connects or it
\* refuses.
NeverAskedTwice ==
  [][ (pc = "verify" /\ pc' = "ask" /\ Whole) =>
        \A t \in accepted : t[1] # job.at /\ t[1] # Bare(job.at) ]_vars

\* A host is refused, as a possible man in the middle, only where another key
\* was vouched for, at that endpoint or for the bare host.  So a line for one
\* port does not turn against another, unless that port is 22, whose pattern is
\* the bare host and counts on every port; a revoked or hashed line turns
\* against nobody.
RefusalIsEarned ==
  Whole => \A e \in Reached :
    Lookup(file, e, presented[e]) = "mismatch" =>
      \E k \in HostKeys \ {presented[e]} : Vouched(e, k) \/ Vouched(Bare(e), k)

\* What setup deploys was built for the OpenVPN that this session found on
\* this host after apt, not for an earlier reading or another host.
StampIsLive ==
  (pc = "upload" /\ job.cmd = "setup") =>
    /\ dist.source = "preview" /\ dist.host = HostOf(job.at)
    /\ dist.version = ParseVersion(job.live)

\* A profile that says a setup is on record says so until remote clean takes
\* it off; a preview, an update or another setup that stops on its way leaves
\* it, or a file that cannot be read.  No command takes such a file for a host
\* without a setup and writes it anew: whoever lost it is told so.
SetupRemembered ==
  [][ \A h \in Hosts :
        /\ (profile[h] \in Profiles /\ profile[h].setup) =>
             \/ profile'[h] \in Profiles /\ profile'[h].setup
             \/ profile'[h] \in Profiles /\ pc = "forget" /\ HostOf(job.at) = h
             \/ profile'[h] = Torn /\ Saves /\ HostOf(job.at) = h
        /\ profile[h] = Torn => profile'[h] = Torn ]_vars

\* text stands in s, with nothing but white space around it.
Padded(s, text) ==
  \E i \in 1 .. Len(s) - Len(text) + 1 :
    /\ text = SubSeq(s, i, i + Len(text) - 1)
    /\ \A j \in DOMAIN s : j \notin i .. i + Len(text) - 1 => s[j] = Blank

\* A version that a build took from the command line is one that the operator
\* typed, to the last character but for white space around it: nothing is read
\* past or made up.
FlagIsVerbatim ==
  (dist # NoFile /\ dist.source = "flag") =>
    \E s \in Flags : Padded(s, Short(dist.version)) \/ Padded(s, Long(dist.version))

\* No build targets an OpenVPN older than 2.4, given on the command line or
\* found on a host.
NoOldTarget ==
  dist # NoFile => 1000 * dist.version[1] + dist.version[2] >= 2004
=============================================================================
