---------------------------- MODULE OvpnVersion ----------------------------
(***************************************************************************)
(* OpenVPN versions (ovpn_target.rs): read from what a host prints, read    *)
(* from the command line, compared, and what a build and a deployment make  *)
(* of them.                                                                *)
(*                                                                         *)
(* A text is a sequence of characters: the digits 0..9, Dot, Blank, and     *)
(* values that stand for every other character.  A version is               *)
(* <<major, minor, patch>>.  The text "Not installed" has no digit, so that *)
(* the comparison with it that parse_openvpn_version starts with needs no   *)
(* rule of its own.                                                        *)
(***************************************************************************)
EXTENDS Naturals, Sequences

CONSTANTS
  Dot,        \* the character "."
  Blank,      \* white space
  NoVersion,  \* None
  MaxPart     \* u16::MAX; smaller in an instance

ASSUME PartAssumption == MaxPart \in Nat /\ MaxPart >= 4

Digits == 0 .. 9
Parts == 0 .. MaxPart
Versions == Parts \X Parts \X Parts

ASSUME VersionAssumption == NoVersion \notin Versions
ASSUME DotAssumption == Dot \notin Digits
ASSUME BlankAssumption == Blank \notin Digits \union {Dot}

-----------------------------------------------------------------------------
(* Comparison.                                                             *)

Baseline == <<2, 4, 0>>

\* Mutant: each part is compared on its own.
MeetsMinimumByParts(v) ==
  v[1] >= Baseline[1] /\ v[2] >= Baseline[2]

\* The derived order of the struct: the first part that differs decides.
\* The patch of the baseline is 0 and never does.
MeetsMinimum(v) ==
  \/ v[1] > Baseline[1]
  \/ v[1] = Baseline[1] /\ v[2] >= Baseline[2]

-----------------------------------------------------------------------------
(* Parsing.                                                                *)

IsDigit(c) == c \in Digits

\* The position after the digits that start at i; i itself if there are none.
RunEnd(s, i) ==
  CHOOSE e \in i .. Len(s) + 1 :
    /\ \A j \in i .. e - 1 : IsDigit(s[j])
    /\ e = Len(s) + 1 \/ ~IsDigit(s[e])

\* The number written by the digits from i to e - 1.
Number(s, i, e) ==
  LET value[j \in i - 1 .. e - 1] ==
        IF j = i - 1 THEN 0 ELSE 10 * value[j - 1] + s[j]
  IN  value[e - 1]

\* The digits from i are there and fit a u16.
PartAt(s, i) == RunEnd(s, i) > i /\ Number(s, i, RunEnd(s, i)) \in Parts
DotAt(s, i) == i <= Len(s) /\ s[i] = Dot

\* parse_dotted_at: two numbers and, when a second dot follows, a third.  A
\* dot that no number follows spoils the whole.
ParseDottedAt(s, i) ==
  LET a == RunEnd(s, i)
      b == RunEnd(s, a + 1)
      c == RunEnd(s, b + 1)
  IN  IF ~(PartAt(s, i) /\ DotAt(s, a) /\ PartAt(s, a + 1)) THEN NoVersion
      ELSE IF ~DotAt(s, b)
             THEN <<Number(s, i, a), Number(s, a + 1, b), 0>>
      ELSE IF PartAt(s, b + 1)
             THEN <<Number(s, i, a), Number(s, a + 1, b), Number(s, b + 1, c)>>
      ELSE NoVersion

\* parse_openvpn_version: the leftmost digit from which a version can be read.
\* It trims the text first, which takes no digit and no dot away.
ParseVersion(s) ==
  LET hits == {i \in DOMAIN s : IsDigit(s[i]) /\ ParseDottedAt(s, i) # NoVersion}
  IN  IF hits = {} THEN NoVersion
      ELSE ParseDottedAt(s, CHOOSE i \in hits : \A j \in hits : i <= j)

-----------------------------------------------------------------------------
(* Writing.                                                                *)

\* A number in decimal, without leading zeros.
Decimal(n) ==
  LET text[m \in 0 .. n] ==
        IF m < 10 THEN <<m>> ELSE Append(text[m \div 10], m % 10)
  IN  text[n]

Short(v) == Decimal(v[1]) \o <<Dot>> \o Decimal(v[2])
Long(v)  == Short(v) \o <<Dot>> \o Decimal(v[3])

\* Mutant: any text that starts with a version is taken.
ParseExactPrefix(s) == ParseDottedAt(s, 1)

\* parse_exact_version: the text is the version as it would be written back,
\* in the form with as many dots.
ParseExact(s) ==
  LET v == ParseDottedAt(s, 1)
  IN  IF \/ v # NoVersion /\ s = Short(v)
         \/ v # NoVersion /\ s = Long(v)
      THEN v ELSE NoVersion

\* The text without the white space around it.
Trim(s) ==
  LET inked == {i \in DOMAIN s : s[i] # Blank}
      first == CHOOSE i \in inked : \A j \in inked : i <= j
      last  == CHOOSE i \in inked : \A j \in inked : j <= i
  IN  IF inked = {} THEN <<>> ELSE SubSeq(s, first, last)

\* Mutant: an old version is accepted from the command line.
ParseCliOld(s) == ParseExact(Trim(s))

\* parse_cli_openvpn_version: what --openvpn-version accepts.
ParseCli(s) ==
  LET v == ParseExact(Trim(s))
  IN  IF v # NoVersion /\ MeetsMinimum(v) THEN v ELSE NoVersion

-----------------------------------------------------------------------------
(* The target of a build, and the gate before a deployment.                *)

Dialect24 == "openvpn-2.4"
Sources == {"flag", "preview", "baseline"}

\* resolve_server_target once the profile is chosen: `flag' is the version
\* given on the command line and `seen' what the profile says the host
\* prints (NoVersion and <<>> when there is none).  A host that is known to be
\* too old has no target.
HasTarget(flag, seen) ==
  (flag = NoVersion /\ ParseVersion(seen) # NoVersion) => MeetsMinimum(ParseVersion(seen))

\* Mutant: a host whose OpenVPN is missing gets no baseline.
TargetUnread(flag, seen) ==
  IF flag # NoVersion THEN [version |-> flag, source |-> "flag"]
  ELSE [version |-> ParseVersion(seen), source |-> "preview"]

Target(flag, seen) ==
  IF flag # NoVersion THEN [version |-> flag, source |-> "flag"]
  ELSE IF ParseVersion(seen) # NoVersion
         THEN [version |-> ParseVersion(seen), source |-> "preview"]
  ELSE [version |-> Baseline, source |-> "baseline"]

\* can_run_on: a host runs the build.
CanRunOn(dialect, live) ==
  live # NoVersion /\ MeetsMinimum(live) /\ dialect = Dialect24
=============================================================================
