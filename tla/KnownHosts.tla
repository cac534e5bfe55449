----------------------------- MODULE KnownHosts -----------------------------
(***************************************************************************)
(* ~/.ssh/known_hosts as tunsmith reads and extends it (ssh.rs 235-337).    *)
(*                                                                         *)
(* An endpoint is <<host, port>>.  So is the pattern that names it in a     *)
(* line, where the bare host is <<host, DefaultPort>>.  The file is a       *)
(* sequence of lines and whether the last of them ends in a newline; a      *)
(* missing file reads like an empty one.  Comments and empty lines are left *)
(* out.                                                                    *)
(*                                                                         *)
(* A key matches a line when it begins with the text that the line has in   *)
(* the key's place, so that text is the set of the keys which begin with    *)
(* it: one key when it is whole, several when it breaks off within the key  *)
(* or before its blob, none when it is spoilt or missing.                   *)
(***************************************************************************)
EXTENDS Naturals, Sequences

CONSTANTS
  Hosts, Ports,
  DefaultPort,  \* 22
  HostKeys,     \* the keys servers present
  NameBegins    \* <<e, f>>: the pattern of e begins with that of f

Endpoints == Hosts \X Ports

ASSUME KnownHostsAssumption ==
  DefaultPort \in Ports /\ NameBegins \subseteq Endpoints \X Endpoints

HostOf(e) == e[1]
Bare(e) == <<HostOf(e), DefaultPort>>

Lines == [marker : {"none", "cert-authority", "revoked"},
          names  : SUBSET Endpoints,
          hashed : BOOLEAN,
          keys   : SUBSET HostKeys]
Files == [lines : Seq(Lines), ended : BOOLEAN]

\* The lines that lookup_known_host looks at: `@cert-authority' is taken off,
\* any other marker and a hashed name skip the line.
Counted(line) == line.marker # "revoked" /\ ~line.hashed

\* n == want || n == host: the pattern of the endpoint, or the bare host
\* whatever the port.
Names(line, e) == e \in line.names \/ Bare(e) \in line.names

\* The lines about an endpoint, and the keys that the file has for it.
Naming(file, e) ==
  {i \in DOMAIN file.lines : Counted(file.lines[i]) /\ Names(file.lines[i], e)}
Listed(file, e) == UNION {file.lines[i].keys : i \in Naming(file, e)}

\* Mutant: the first line that names the endpoint decides.
LookupFirst(file, e, k) ==
  IF Naming(file, e) = {} THEN "unknown"
  ELSE IF k \in file.lines[CHOOSE i \in Naming(file, e) :
                              \A j \in Naming(file, e) : i <= j].keys
         THEN "match" ELSE "mismatch"

\* lookup_known_host: one line that the key begins with is enough, wherever it
\* is; a line without a key speaks against every key.
Lookup(file, e, k) ==
  IF k \in Listed(file, e) THEN "match"
  ELSE IF Naming(file, e) # {} THEN "mismatch"
  ELSE "unknown"

TrustLine(e, k) == [marker |-> "none", names |-> {e}, hashed |-> FALSE, keys |-> {k}]

\* That line, cut short.  Within the key, it stands for every key that begins
\* as it does; within the name, it names another host or none; in between, it
\* has a name and no key.
CutLines(e, k) ==
  {[TrustLine(e, k) EXCEPT !.keys = keys] : keys \in {K \in SUBSET HostKeys : k \in K}}
  \union {[TrustLine(e, k) EXCEPT !.names = names, !.keys = {}] :
             names \in {{}, {e}} \union {{f} : f \in {g \in Endpoints : <<e, g>> \in NameBegins}}}

\* A line that another one was glued to has its key spoilt, and its name as
\* well if it has no key yet.
Spoilt(line) ==
  {[line EXCEPT !.names = names, !.keys = {}] :
     names \in IF line.keys = {} THEN {line.names, {}} ELSE {line.names}}

\* The files that a write of one of these lines at the end gives: the line is
\* lost in the last one when that does not end in a newline.
Written(file, lines, ended) ==
  IF file.ended \/ file.lines = <<>>
  THEN {[lines |-> Append(file.lines, line), ended |-> ended] : line \in lines}
  ELSE {[lines |-> [file.lines EXCEPT ![Len(file.lines)] = line], ended |-> ended] :
          line \in Spoilt(file.lines[Len(file.lines)])}

\* Mutant: the port is left out of the pattern.
AppendKnownBare(file, e, k) == Written(file, {TrustLine(Bare(e), k)}, TRUE)

\* append_known_host writes the line and its newline, or
AppendKnown(file, e, k) == Written(file, {TrustLine(e, k)}, TRUE)

\* is cut short: the disk is full, or the machine stops.
AppendCut(file, e, k) == Written(file, CutLines(e, k), FALSE)
=============================================================================
