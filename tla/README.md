# tunsmith in TLA+

tunsmith is a command-line program that keeps an OpenVPN project in a
directory: a configuration file (`tunsmith.json`), a certificate authority and
the certificates it issued (`pki/`), the files a build makes of both
(`dist/`), and a profile of each server it deploys to (`remotes/`).  Over SSH it
installs what was built on a server.  There is no daemon and no thread to
speak of.  What makes the program hard to get right is that each command is a
long sequence of effects on two file systems and on the services of a remote
host; any of them may be refused, interrupted or lost on the way, and the
commands that follow start from whatever is left.

This directory holds the specifications of that behaviour, the TLC
configurations that check them on small instances, and proofs.

## The system's parts

| Part | Source | State | Operations | What must be right |
| --- | --- | --- | --- | --- |
| project state | `project.rs`, `commands/{init,config,client}.rs` | `tunsmith.json`, `pki/` | init, init --force, config set, client add, client remove | one CA; nothing issued is lost or changed; no state from which no command goes on |
| PKI | `pki.rs` | none (keys and certificates in memory) | generate_root_ca, issue_server_cert, issue_client_cert, load_ca, save_ca | a certificate chains to the CA that is shipped, a key belongs to its certificate |
| build | `commands/build.rs` | `dist/`, new pairs in `pki/` | build | `dist/` is of one build; server and clients accept each other |
| deployment | `commands/remote.rs`, `remote.rs` | the host, `remotes/<host>.json` | remote setup, update, clean ssh, clean local | what the operator is told is true; nothing is left behind; other instances are untouched |
| NAT | `remote.rs` (scripts, unit) | iptables rules, `tunsmith-nat@` | nat.sh, nat-down.sh | the rules fit the running server and go with it |
| SSH session | `ssh.rs` | the connection | open, execute, upload_bytes | a command that is said to have run has run |
| known hosts | `ssh.rs` | `~/.ssh/known_hosts` | verify_known_host | a changed key is refused |
| versions | `ovpn_target.rs`, `commands/build.rs` | `dist/build.json` | parse, choose the target, the gate | what is built can run where it is deployed |
| file formats | `ovpn.rs` | none | server.conf, .ovpn, netmask | both sides agree |
| profiles | `project.rs`, `commands/{connect,preview}.rs` | `remotes/` | load, save, pick | the right host and authentication |
| user interface | `cli.rs`, `tui.rs`, `style.rs`, `templates.rs`, `constants.rs` | none | | not modelled |

The commands of one project share its directory and nothing else: a build
reads what init and client add left, setup runs a build and uploads its result,
update uploads the result of the last build.  Two projects share the host they
deploy to: its IPv4 forwarding, the FORWARD chain and the template unit
`tunsmith-nat@.service`.  `PROJECT.json` lists the hazards one by one, at
their lines.

## Modules

| Module | Models | Lines it stands for |
| --- | --- | --- |
| `Ledger` | abstract: an authority that gives each owner a number of its own, once, and its theorem | none; `Workspace` implements it |
| `Workspace` | the project directory under init, config set, client add and remove, build, clean local | `init.rs`, `config.rs`, `client.rs`, `build.rs`, `pki.rs`, part of `project.rs` |
| `WorkspaceProofs` | theorems about it | |
| `PkiProofs` | that it implements `Ledger`, and what follows; what a command makes of the `pki/` that earlier ones left | |
| `PeerConfig` | settings, where they come from, and what server.conf, a client profile and the NAT check make of them | `ovpn.rs`, `merge_server`, `config set`, `validate_ipv4_cidr` |
| `MCWorkspace` | `Workspace` with the settings of `PeerConfig` | |
| `ShippedProofs` | theorems about what a finished build leaves under `dist/`, and about netmasks | |
| `RemoteHost` | what a remote command, a generated script or a boot does to the server | `remote.rs` 439-495; systemd and iptables are external |
| `Service` | abstract: instances that commands change one thing at a time, and what an operator is told of them | none; `Deploy` implements it |
| `Deploy` | setup, update and clean of several projects against one host | `commands/remote.rs`, `remote.rs`, the session of `ssh.rs` |
| `MCDeploy` | instances of it | |
| `DeployProofs` | type correctness of `Deploy`, that a live server serves, what update and clean report, and that it implements `Service` | |
| `DeployNatProofs` | theorems about NAT, forwarding and rules that are left | |
| `OvpnVersion` | reading, writing and comparing OpenVPN versions, the target of a build, the gate | `ovpn_target.rs`, `resolve_server_target` |
| `KnownHosts` | the lines of `known_hosts`: lookup, append | `ssh.rs` 274-337 |
| `Connect` | preview, setup, update and clean from the command line to the first upload, and build's choice of its target; over `OvpnVersion` and `KnownHosts` | `commands/{connect,preview}.rs`, `ssh.rs` 51-100 and 235-261, parts of `commands/{remote,build}.rs`, `remote.rs`, `project.rs` |
| `MCConnect` | an instance of it | |
| `ConnectProofs` | theorems about `Connect` | |
| `VersionProofs` | theorems about `OvpnVersion`: what is read from a text is what was written in it; the gate | |

### Workspace

A file is `NoFile`, `Torn` (an interrupted write left part of it) or its
content.  A key is a number that is never used twice; a certificate is the key
it certifies and the key that signed it; a setting is a model value, of which
some have no host, a host that `host_to_san` refuses, or a subnet that
`build_server_config` refuses.  `crt` and `key` hold `pki/`, by owner; `dist`
and `ovpn` hold `dist/`.

One command runs at a time (`pc`, `job`), and each of its writes is one
action, in the order of the source; `remove_dir_all` removes one file at a time
in any order, because the order of a directory listing is nobody's promise.
`job` is what the command read and still holds: the configuration and the CA
from the start of a build, `ca.crt` and the tls-crypt key from `ReadShared`, the
pair it just issued.  Copies read their source again, as the code does.  An
error return of the program is an action of its own (`IssueServerFails`,
`WriteConfFails`, a copy without its source, `ClientFails`,
`InitGenerateFails`), and `Abort` is a kill or a failing I/O call between two
writes; a write that is cut leaves `Torn`.  The constant `Abortable` says which
commands may be interrupted, since what can be promised depends on it.

What is left out: the text of the files, their modes, names and directories,
`resolve_server_target` (it returns before anything is written, and is in
`Connect`), and two commands of one project at the same time.

### Ledger

Every private key is a number drawn once.  An owner holds none or one, the
tls-crypt secret is another, and what is held stays held until the authority is
reset, which may stop half way.  Files, commands, certificates and interruptions
are not in it.  `Workspace` implements it under the mapping in `Authority`: an
owner holds the key of its pair when both files are whole and belong together
(`HasPair`), the secret is `tls-crypt.key` if whole, the next number is `fresh`,
the number drawn is that of a certificate that waits for its key, and a reset is
the deletions of `init --force`.  A certificate
without its key is nothing held, which is why a build killed between the two is
a `Discard`.

### PeerConfig and MCWorkspace

`PeerConfig` keeps the fields of the `server` section that two machines must
agree on or whose conversion can go wrong: host, port, transport, device,
subnet, cipher, digest, full tunnel, `block-outside-dns`.  `Merge` is what
`init --schema` does to the defaults (the port is cast to 16 bits, nothing is
checked), `Set` what `config set` does.  `Netmask` is the shift of
`prefix_to_netmask` on 32 bits, as the set of the bits that are one.
`MCWorkspace` gives `Workspace` five settings that those two operations make,
so that the properties about the two ends are checked over builds, edits and
rebuilds rather than over single inputs.

### KnownHosts, OvpnVersion and Connect

A line of `known_hosts` is a marker, the endpoints it names, whether the names
are hashed, and a text for the key; the bare host is the endpoint with the
default port.  A key matches when it begins with that text
(`key_openssh.starts_with(&stored)`), so the text is modelled as the set of the
keys that begin with it: one key if it is whole, several if it breaks off within
the key or holds the algorithm alone, none if it is spoilt or missing.
`Lookup` goes over all lines, as `lookup_known_host` does, so that one line that
matches outweighs others that do not; and a line for the bare host counts for
every port.  `AppendKnown` writes a line whole; `AppendCut` writes any beginning of
it, which may also name another host whose pattern the name begins with
(`NameBegins`); and to a file that does not end in a newline either is glued to the last
line, and spoils it.

`OvpnVersion` has the texts as sequences of digits, dots, white space and other
characters, because the conversion is what the properties are about:
`ParseVersion` looks for the first position from which a version can be read, as
in `parse_openvpn_version`; `ParseExact` compares the text with what it would
be written back as; and `ParseCli` does so after it has taken the white space
around the text away (`Trim`).

`Connect` is one state machine for the four commands that open a session:
`Start` reads the profile, `Verify`, `Answer` and `Authenticate` are
`RemoteSession::open`, `Inspect` is `preview_ssh` with the profile it saves,
`Installed` and `AptInstall` are `ensure_dependencies`, `ReadLive`, `SetupBuild`,
`Gate`, `Upload`, `Record` and `Forget` what the commands do then.  `Fails` is an
error return or a kill at any of them; `AnswerCut` and `SaveCut` are one in the
middle of a write.  `save_remote_profile` truncates the file before it fills it, so
`SaveCut` leaves `Torn`, with which no command for that host starts, nor a build
that would pick the profile.  Around them, a host may be reinstalled
or its OpenVPN changed, and the user's ssh client appends to `known_hosts` at any
time, the prompt included.  A probe of the host that is refused reads like an
OpenVPN that is not there (`Reading`), as `execute_or` makes it.  `accepted` and
`others` are not in the program: they record who vouched for which key.

### RemoteHost and Deploy

`RemoteHost` has the files of an instance, `<name>.conf`, what each
`openvpn-server@<name>` runs, which units are enabled and active, the two NAT
scripts, the rules they add and delete, and IPv4 forwarding with the line in
`sysctl.conf` that persists it.  Its operators are the effects of commands.
`openvpn-server@` starts when its files and its configuration are whole; a
restart that fails has stopped the service; the NAT unit is a oneshot that
stays active, runs on stop the `nat-down.sh` that is there at that time, and is
wanted by the VPN unit; a boot starts what is enabled and can start.

`Deploy` runs the three remote commands over it, one action per remote
command.  The five files under `<name>/` are one upload, so that one that is cut leaves
them `Torn` together, and a NAT script that is cut is taken to name no rule.
The apt step, the
inspection of the host and the version gate are one possible failure before
the first upload (`SetupFails`, and `UploadFiles` or `UploadConf` refused).  A prompt is a
choice: NAT is confirmed on an interface or declined.  How a command ends for
the program that issued it follows `RemoteSession`: `Execute` and `Upload`
(errors end the tunsmith command), `Try` (clean ignores the result).  `Faults`
says what may go wrong: `"error"`, a remote command or upload is refused;
`"drop"`, the connection goes while a command runs, which `run` reports as
exit code 0 because that is what its variable starts from; `"reboot"`;
`"silence"`, the host stops answering; and `"clean"`, that an error, a drop or a
reboot happens during a clean as well.  `RemoteSession::open` takes the default
configuration, without a timeout or a keepalive, and `run` waits for the channel to end:
a command whose host is silent is `"hung"` (`Hang`) from then on, with what it
waited for done or not, until its operator stops it (`Interrupt`).  A remote
command that a signal ends sends no exit status either, over a session that
stays; this is left out.  Profiles are saved in one step here; `Connect` has the
saves that are cut.  `told` is what the
command said at its end, so that properties can compare it with the host.

Each project runs one remote command at a time; commands of different projects
interleave.  `EditDuring` lets `tunsmith.json` change while a command runs.

### Service

What the three remote commands promise, without their order, their files or the
connection: an instance has something it would start with (`written`), is
enabled or not, and serves something or nothing.  A command that is for an
instance changes one of the three at a time, of that instance alone; a start
serves what is written; a boot starts what is enabled; and a command that says
`live`, `updated` or `gone` at its end may say so only where it is so.
`Deploy` implements it under the mapping in `Promises`: `written` is the
configuration of an instance whose files are whole enough to start with it
(`Startable`), and otherwise nothing.
NAT and forwarding are not in it: the rules are shared by the instances, which is
what the findings about them are about.

## Runs

| Run | Instance | Shows |
| --- | --- | --- |
| `workspace_aborts` | 1 client, 2 settings that build, every command interruptible, keys up to 4; 2.0 million states | `TypeOK`, `SameBuild`, `IssuedStays`, `StampLast`, `InitRecovers`, `KeysAreOwn`, and `KeepsLedger`, the refinement |
| `workspace_sound` | 2 clients, 5 settings (the defaults, which have no host, a plain one, one with a bad host, one with a bad subnet, one from a schema), edits interruptible, keys up to 5; 368,000 states | `ChainOK`, `ShippedWorks`, `BuildFindsServerKey`, `PeersTalk`, `PoolIsMasqueraded`, and under fairness `CommandEnds`, `BuildDelivers` |
| `connect` | 2 hosts, 3 endpoints, 2 host keys, 4 banners, 9 texts for `--openvpn-version`, 5 first states of `known_hosts`, lines and profiles that are cut; 374,000 states | `TypeOK`, `TrustIsExplicit`, `TrustRemembered`, `NeverAskedTwice`, `RefusalIsEarned`, `StampIsLive`, `SetupRemembered`, `FlagIsVerbatim`, `NoOldTarget`, `GateIsExact` |
| `deploy_sound` | 1 project, 2 subnets (permuted by symmetry), refusals and reboots; 1.3 million states | `TypeOK`, `LiveServes`, `LiveMasquerades`, `UpdatedRuns`, `CleanedIsGone`, and `KeepsPromises`, the refinement |
| `deploy_two` | 2 projects with an instance each, no faults; 523,000 states | `LiveMasquerades`, `LiveForwards`, `CleanRemovesRules`, and `KeepsPromises` for two owners |
| `deploy_ends` | 1 project, lost connections, during a clean too, and a host that stops answering; 268,000 states | `CommandEnds` under fairness, `LiveServes` |
| `workspace_key_lost` | builds interruptible | violated: `BuildFindsServerKey` |
| `workspace_chain` | init interruptible | violated: `ShippedWorks` |
| `deploy_rules_left` | 1 project, 2 subnets, no faults | violated: `CleanRemovesRules` |
| `deploy_forward_lost` | 2 projects, no faults | violated: `ForwardKept` |
| `deploy_dropped` | 1 project, lost connections | violated: `UpdatedRuns` |
| `deploy_edited` | 1 project, edits during setup | violated: `LiveMasquerades` |

The violated properties state what a document or a message of tunsmith says;
`PROJECT.json` quotes it under `findings`.  They are, in a sentence each:

- a build killed between `server.crt` and `server.key` makes every later build
  fail, after it has deleted `dist/`;
- two killed `init --force` leave a new `ca.crt` beside an old `ca.key`, which
  passes `pki_exists`, and the build that follows ships certificates that do not
  chain;
- a setup with a new subnet leaves the MASQUERADE rule of the old one, and
  clean does not find it;
- clean of one instance deletes the FORWARD rules that another one uses;
- an update whose connection is lost during the restart reports success;
- a `tunsmith.json` edited while setup waits for the host gives NAT a subnet
  that the server does not use.

### Bounds

Interruption (`workspace_aborts`) needs one client: each property of that run
relates the files of one client to those of the server, or of one owner to
themselves, except the last clauses of `SameBuild` and of `StampLast`, which
compare several and are proved for any number.  Two settings let two builds differ.  Four keys
are an init and a build with a client, or an init, the build of a project
without clients and another init.  `workspace_sound` needs two clients so that one is reused while
the other is issued, and five keys so that an init, a build and a second
build that issues for a client added between them all fit.  `MaxKey` guards the start of
init and of build (`KeysNeeded` is what the build will use), never the middle of
a command.

The five settings of `workspace_sound` are chosen for the conversions: a schema
with a port of 17 bits, an empty cipher and the prefix 0; the default prefix;
a prefix above 32.  `PeersTalk` excludes a port of 0, which a schema can give and
which the two ends treat differently.  `PoolIsMasqueraded` is about the
subnets that both parsers accept.

`connect` has one host with two ports, so that trust on one of them meets a
connection to the other, and a second host.  Its state constraint `Scope`
follows two halves of the behaviour: everything the commands do while
`known_hosts` has every key that the hosts present, and everything that happens
to `known_hosts` under preview, with which every command begins.  The halves do
not interact: after `Verify` no step reads `known_hosts`, and `Verify` reads
nothing else that the commands write.  The two host keys begin alike, as two keys
of one algorithm do, so that a cut line may stand for both; and the pattern of
`west` begins with that of `east`, as 10.0.0.12 does with 10.0.0.1.  `MaxLines = 2`
bounds the lines the ssh client and a cut write add to, not those a whole one
adds; `MaxPart` is 99 instead of 65535, with
which no text of the instance is out of range.  The banners are of OpenVPN
2.3.9, 2.10 and 3.0.1 and of a host without one, because 2.10 and 3.0 are
where a comparison part by part or as decimals goes wrong.

One instance with two subnets makes a second setup or an update differ from
the first.  Two instances are enough for the properties between instances,
which are about pairs.  One interface suffices because a rule is deleted with
the interface its script names; a default route that moves to another
interface is not explored.  `SubnetSymmetry` permutes the two subnets: nothing
in the code, and no property of that run, tells one from the other, and the run
has no liveness property; `KeepsPromises` is a matter of single steps.  `deploy_two` has no reboots: that forwarding
outlives one is said by `sysctl` in `LiveForwards`, the line in the file that a
boot reads.  With errors and drops it would not hold: a project
whose setup stops after `sysctl -w` leaves the line for nobody to write.  `CleanRemovesRules` is checked with one subnet for
each instance, since with two it does not hold (`deploy_rules_left`), and
`UpdatedRuns` without lost connections for the same reason (`deploy_dropped`).
`CleanedIsGone` is checked without faults during the clean, whose results
`cleanup_vpn` throws away: a clean that is refused or loses its connection half
way reports success and may leave any of its steps undone.  `deploy_ends` has
losses and silence, at any point; a command that is refused ends there,
and what refusals leave is in `deploy_sound`.  `deploy_sound` in turn has no
silence: a command that hangs and is stopped leaves what one that is refused leaves
(with it the run passes too, with 4.3 million states).

TLC would stop `Workspace` where `MaxKey` lets no command start, so its
configurations switch the deadlock check off; `Deploy` and `Connect` are
checked for deadlock.

### Fairness

`FairSpec` of `Workspace` has weak fairness of `Step`: a command that runs is
scheduled until it ends.  Starting a command, and `Abort`, are under no
fairness.  `FairSpec` of `Deploy` has it for `Step` of each project: the
operator answers the prompts, one way or the other, and as long as the host
answers, a remote command ends.  That the host answers is not assumed: the code has
no timeout and no keepalive, `Hang` may happen at any wait, and a command that hangs
has no `Step`.  `Hang` and `Interrupt` are under no fairness, so `CommandEnds` says
that a command comes to its end or hangs, and that nothing else keeps it.

## Proofs

`WorkspaceProofs` proves, for any clients, settings, bound and interruptible
commands:

- `TypeCorrect`: `Spec => []TypeOK`.  `TypeOK` is not inductive: a build that
  has passed its checks holds an intact configuration, which `WriteOvpn` embeds
  in a profile, and the commands that write the configuration hold one to
  write.  `TypeInv` adds that.
- `DistOfOneBuild`: `Spec => []SameBuild`.  `DistInv` says, for each position
  of the build, what under `dist/` is still missing and with which part of
  `job`, or of `pki/`, the rest agrees: after the removal nothing is there;
  the configuration, the CA certificate and the tls-crypt key under `dist/` are
  those that `job` and `pki/` hold as long as profiles can still be written; and
  all profiles carry the same three.
- `IssuedPairsStay`: `Spec => IssuedStays`.  `PairInv` says that keys in use
  are below `fresh` and that an owner whose pair is half written has no whole
  pair, so that writing the second half replaces none.
- `ChainSound`: `Spec => []ChainOK` if `init` is not interruptible.
  `ChainInv` follows init through the deletion of `pki/` and the two writes and
  says that outside it there is no PKI or that one CA signed all of it.  The
  assumption is needed: `workspace_chain` is what happens without it.

`PkiProofs` is about the files of `pki/`.  Two theorems say what a command makes of
what earlier ones left:

- `InitAlwaysRecovers`: `Spec => InitRecovers`, whatever is interruptible.
  `CaSaved` says that init holds a pair from `InitGenerate` on and how much of it
  is in `pki/` at each position; no other command gets to those positions, and
  the last step writes `tunsmith.json` alone.
- `ServerKeyFound`: `Spec => []BuildFindsServerKey` if neither `init` nor `build`
  is interruptible.  `ServerKept` says that the server has its key file when it
  has its certificate file, except during the deletions of init --force and
  between the two writes of a build, and that from the tls-crypt key on a
  build has the key behind it.  `workspace_key_lost` is what happens without
  the assumption.

The others prove the refinement, and take from it what `Workspace` would be
harder to ask directly:

- `ImplementsLedger`: `Spec => KeepsLedger`.  Each action of `Workspace` is
  mapped to a step of `Ledger` or to none, under the typing and the invariant of
  `IssuedPairsStay`: the pair that `WriteKey` completes had not been whole
  before, so that `Issue` finds nothing held; the secret is sealed only where
  `tls-crypt.key` is missing; and pairs disappear inside a reset alone.
- `NumbersApart` (in `Ledger`): `Ledger!Spec => []InOneHand`, with the
  inductive invariant that every number held or drawn is below `next` and that
  the one drawn is in no hand.
- `KeysNeverShared`: `Spec => []KeysAreOwn`, by the two above.  No invariant of
  `Workspace` is needed for it.

`ShippedProofs` is about what a build leaves:

- `StampComesLast`: `Spec => StampLast`, whatever is interrupted.  `StampInv`
  says which files of `dist/server` are there at each position of a build, and
  that the profiles are those of the clients it has struck off; it needs
  `DistInv`, by which there is no profile before the first client.
- `WhatShipsWorks`: `Spec => []ShippedWorks` if only edits are interruptible
  (`OnlyEditsAbort`, which `workspace_sound` satisfies; `workspace_chain` shows
  what an interrupted init does, and a clean that stops half way leaves the stamp
  beside missing files).  `WholeInv` puts five invariants together: `DistInv`
  and `StampInv`; `ChainInv`, which gives the signatures; `PkiWhole`, that no
  file of `pki/` is torn and a certificate there has its key, but for the pair
  that is being written; and `CopyInv`, that `dist/` is what `pki/` holds while
  a build goes on, and that from the stamp on `Works` holds of `dist/` by itself.
  The last is why `init --force` or a new client after the build changes nothing
  of what was shipped.
- `PeersAlwaysTalk`: `Spec => []PeersTalk`, from `SameBuild` and a lemma that the
  two files made from one server section agree, whatever it says.
- `NetmaskIsPrefix` and `PoolAlwaysMasqueraded`: the shift of `prefix_to_netmask`
  gives the first bits of the prefix and no other for 0 to 32; where the NAT check
  takes a subnet the build does, with that prefix; so `Spec => []PoolIsMasqueraded`,
  with the four octets compared with a table of bytes (`MaskOf`) prefix by prefix.

`ConnectProofs` proves the invariants and the two action properties of the run
`connect`, for any hosts, ports, keys, banners, texts and first `known_hosts`, the
state constraint of that run left out:

- `TypeCorrect`.  `TypeInv` adds what a running command holds by its position
  (`InHand`): a key once the server presented one, a build at the gate.
- `TrustSound`, `RefusalSound`: `FileVouched` says that for each line that counts,
  each endpoint it names and the one key it stands for, if it is one, somebody
  vouched for that key.  Only two things ever happen to the file (`FileStep`): it
  gets a line, whole or cut, or one is glued to its last.  `TrustSound` says what
  opens a session in any file: a vouched key, or a line that stands for several.
  The second does happen.  Without that disjunct `TrustIsExplicit` is violated in
  the instance of `connect`: a trust at port 22 of `east` that is interrupted while
  its line is written leaves one that breaks off within the key, and a server
  at port 2222 with another key that begins alike is connected to without a
  question, against `docs/security.md`, line 33 ("A mismatched key is refused").
- `AcceptedIsKept`, `AskedOnce`: `Remembered` says that what was accepted is on a
  line that counts.  Like `RefusalSound`, they are about a file in which each line
  stands for one key (`Whole`): a cut or glued line loses a key.
- `FlagsVerbatim`, `TargetsNew`: `DistSound` says of every `dist/` that its
  version meets the minimum and, if it came from a flag, is one of the flags
  written in one of the two ways `ParseExact` compares with, between white space.  What the recursive
  parsers compute is not needed: only that their result is a version or none.
- `SetupIsLive`: `BuiltForLive` follows the version from the reading after apt
  through the profile on disk to the build and the gate.
- `SetupStays`: `SetupHeld` says that the session's copy of the profile has the
  setup if the file has it, so that writing the copy back loses none.  A save
  that is cut loses it, and the theorem says so: the file is then unreadable and
  stays so, whatever command comes next, instead of being taken for that of a host
  without a setup.

`VersionProofs` is about what the parsers of `OvpnVersion` compute, for any numbers
up to `MaxPart` and any text around them:

- `WrittenIsRead`: `ParseExact` reads what `Long` and `Short` write as what was
  written, so that a `build.json` or a profile that tunsmith wrote is read back
  as the version it was written for; and `ParseCli` with white space around it.
- `BannerIsRead`: `ParseVersion` finds the version in a text in which no digit
  precedes it and none directly follows it.
- `GateReadsBanner`: hence the gate lets a build onto the host of such a
  banner when the version is 2.4 or later, numbers compared as numbers.
- `GateExact`: `Spec => []GateIsExact` for the banners of `MCConnect`, a `MaxPart`
  of at least 10, and any other constants.  The property compares the gate with a table of what each banner's
  version is; the four banners are read by the lemmas behind `BannerIsRead`.

A number is read and written by recursive functions.  That their recursive
equations have a solution is proved first (`ValueExists`, `ValueUnique`,
`TextExists`, `TextUnique`); then `NumberStep` and `DecimalStep` state the
equations, and `DecimalIsRead` that a number is what its digits are read as.  The
library's induction theorems take an operator as a parameter, which the
provers here cannot instantiate.  `Induction` and `StrongInduction` say the same
of a set of numbers, which they can: the set of the numbers with the property.
They rest on `WFMin` and `NatLessThanWellFounded` of the library, which take sets.

`DeployProofs` and `DeployNatProofs` prove every invariant that the passing runs
of `Deploy` check, and the refinement, for any projects, names, subnets and
interfaces.  `DistinctNames` says that no two projects name one instance: two
that do overwrite each other's files, and nothing is promised of them.

- `TypeCorrect`: `TypeInv` adds that a command is at a position of its own
  course, holds a setting of its project, and that records and reports name
  instances of their project.
- `LiveIsServed`: `[]LiveServes` under `DistinctNames`, for any `Faults` and
  `EditDuring`, silence included.  `ServesInTime` says what a setup has established at each
  position while its session holds, and that past the check it depends on the
  session no more.  That other projects do not disturb it is one lemma about
  `Kept(n)`, which all later proofs use.
- `UpdateIsRun`: `[]UpdatedRuns` without `"drop"`; `deploy_dropped` shows what a lost
  connection does.
- `CleanedLeavesNothing`: `[]CleanedIsGone` without `"clean"`: `GoneInTime` has one
  conjunct for each command of clean that is behind.
- `ServiceImplemented`: `Spec => KeepsPromises` under `DistinctNames`, without
  `"drop"` and without `"clean"` (`Undropped`), the premises of the three
  reports above.  `InTime` puts their invariants together: each report is true
  when it is made because of what the command has established by then.  For
  every other step the proof says which one thing it does to its instance; a
  torn upload takes what the service would start with away, and so does an
  instance's last file.
- `PromisesLast`: `Promises!Spec => []PromisesHold` under `DistinctNames`: in
  `Service` itself, a true report stays true until the owner's next command,
  because nobody else touches that instance, and because a boot gives an instance
  that is enabled what is written and every other one nothing.  Its inductive
  invariant is `PromisesHold` with `Owning`, that owners work on instances of
  theirs.
- `ReportsLast`: the same of `Deploy`, from the two above.
- `LiveIsMasqueraded`: `[]LiveMasquerades` under `NatPremise`: no edit during a
  command (`deploy_edited`), no lost command, and not refusals or silence together
  with reboots for several projects, where a cut upload of one leaves the unit file
  cut that all share, and a reboot does not start the unit of another.
- `LiveIsForwarded`: `[]LiveForwards` under `ForwardPremise`: nothing is refused,
  lost or left without an answer, and no reboots with several projects.  `Persisted` says that what the
  kernel does is in the file or that a setup is about to write it.
- `CleanedLeavesNoRules`: `[]CleanRemovesRules` under `RulesPremise`: reboots only,
  one subnet for each instance (`deploy_rules_left`), and one interface on the host,
  since setup may be given any of those it has.
  `RulesKnown` says that every rule of an instance is one its `nat-down.sh`
  deletes, `RulesInTime` what holds at each position of setup and clean.

The instances of the passing runs satisfy these premises, and the violation runs
named here are instances that do not.

Each invariant has a lemma for each action that disturbs it, a lemma for each
group of the next-state relation, and one that puts them together.  Each was
checked by TLC before it was proved.  The theorems rest on the named
assumptions of the modules and nothing else, which TLC evaluates on every run:
that the markers `NoFile`, `Torn` and `NoVersion` are no contents and
`NoFile` no name, that owners differ, that a dot is no digit and white space neither, that the parameters
are subsets of what they are about, and that the first `known_hosts` has no line for one key
that nobody vouched for (`FirstLinesAssumption`: `others` is, by definition, who
wrote it).

Model-checked only are the liveness properties `CommandEnds` and `BuildDelivers`,
which the prover does not handle.  Every other property of a passing run is
stated by a theorem.

## Plan

In this order:

1. `Workspace`, its runs, `TypeCorrect`, `DistOfOneBuild`, `IssuedPairsStay`,
   `ChainSound`; `RemoteHost` and `Deploy` with their runs (done).
2. `KnownHosts`, `OvpnVersion`, `Connect` and their run; `PeerConfig` and the
   properties of the two ends; `Ledger` and the proof that `Workspace` implements
   it; `InitRecovers`, `LiveForwards` (done).
3. Proofs: `ShippedWorks`, `StampLast`, `PeersTalk`; all of `Connect`; all of
   `Deploy`, each property for the faults under which it holds (done).
4. `Service`, an abstract specification that `Deploy` implements for each
   instance; proofs about `OvpnVersion` and netmasks (done).
5. Lines of `known_hosts` and profiles that are cut while they are written; a host
   that stops answering (done).
6. Two commands of one project at the same time; an instance whose name changes
   (open).

## Not modelled

- `cli.rs`, `main.rs`: generated argument parsing; every subcommand is an
  operation of a module.
- `commands/tui.rs`: a menu that calls the same functions.  It keeps whether
  there was a PKI when it was drawn, and `init::run` looks again.
- `templates.rs`, `constants.rs`, `style.rs`, `commands/template.rs`: tables and
  terminal output.
- Which authentication `prepare_ssh` picks, the user, the key and its
  passphrase: they decide whether a session opens and nothing after it.
- A remote command that a signal ends on the host (`ChannelMsg::ExitSignal`): `run`
  ignores the message and reports 0, as it does for a lost connection
  (`deploy_dropped`), but the session goes on.
- Two commands in one project directory at the same time.
- DNS servers, keepalive and verbosity in the generated files, and PEM framing:
  they are written as they are read.

Not planned: the command line, the terminal interface, templates, the wording
of files and messages, X.509 and SSH themselves.
