----------------------------- MODULE MCConnect -----------------------------
(***************************************************************************)
(* A small instance of Connect for TLC, and the reference definitions that  *)
(* the parsers are compared with.                                          *)
(***************************************************************************)
EXTENDS Connect, TLC

CONSTANTS east, west, k1, k2, X

\* What hosts print: OpenVPN 2.3, 2.10 and 3.0, with text around the number.
Old   == <<X, 2, Dot, 3, Dot, 9, X, 4>>
Newer == <<X, 2, Dot, 1, 0, X>>
Major == <<3, Dot, 0, Dot, 1>>
None  == <<X>>

MCBanners == {Old, Newer, Major, None}
TrueVersion == [b \in MCBanners |-> CASE b = Old -> <<2, 3, 9>> [] b = Newer -> <<2, 10, 0>>
                                    [] b = Major -> <<3, 0, 1>> [] b = None -> NoVersion]

MCApt == {Newer}
\* No flag, the texts 2.10, 2.3, 2.5.1 and 2.6, the last two with white space,
\* and some that are not quite one: blanks alone, 2.06, 2.7x, 2.8. and v2.9.
MCFlags == {<<>>, <<2, Dot, 1, 0>>, <<2, Dot, 5, Dot, 1, Blank>>, <<2, Dot, 3>>,
            <<Blank, 2, Dot, 6, Blank>>, <<Blank>>,
            <<2, Dot, 0, 6>>, <<2, Dot, 7, X>>, <<2, Dot, 8, Dot>>, <<X, 2, Dot, 9>>}

MCReached == {<<east, 22>>, <<east, 2222>>, <<west, 22>>}
\* west may be 10.0.0.12, and east 10.0.0.1.
MCNameBegins == {<<<<west, 22>>, <<east, 22>>>>}

Line(marker, e, k) == [marker |-> marker, names |-> {e}, hashed |-> FALSE, keys |-> {k}]
FirstWorld(k, text, pairs) ==
  [presented |-> <<east, 22>> :> k @@ <<east, 2222>> :> k1 @@ <<west, 22>> :> k1,
   ovpn |-> east :> None @@ west :> Newer,
   file |-> text, others |-> pairs]
FileOf(lines) == [lines |-> lines, ended |-> TRUE]

\* known_hosts is empty, with one machine on both ports of east, or two; it has a
\* revoked line; its last line was cut short of its newline; or it has all
\* that the hosts present.
Known == FileOf(<<Line("none", <<east, 22>>, k1), Line("none", <<west, 22>>, k1)>>)

MCFirstWorlds ==
  { FirstWorld(k1, FileOf(<<>>), {}), FirstWorld(k2, FileOf(<<>>), {}),
    FirstWorld(k1, FileOf(<<Line("revoked", <<east, 22>>, k2)>>), {}),
    FirstWorld(k1, [FileOf(<<Line("none", <<west, 22>>, k1)>>) EXCEPT !.ended = FALSE],
               {<<<<west, 22>>, k1>>}),
    FirstWorld(k1, Known, {<<<<east, 22>>, k1>>, <<<<west, 22>>, k1>>}) }

\* Two halves are followed: everything that the commands do while known_hosts
\* has all, and everything that happens to known_hosts under preview, with
\* which every command begins, up to the inspection of the host.
Scope ==
  \/ file = Known /\ accepted = {} /\ presented[<<east, 22>>] = k1
  \/ /\ dist = NoFile /\ job.cmd \in {"none", "preview"}
     /\ ovpn = [h \in Hosts |-> IF h = east THEN None ELSE Newer]
     /\ profile = [h \in Hosts |-> NoFile]

\* The gate lets a build through exactly when the host's OpenVPN is 2.4 or
\* newer, as a reader of its banner would say, and the build's dialect is the
\* one this release knows: 2.10 is newer than 2.4, and so is 3.0.
GateIsExact ==
  pc = "gate" =>
    LET v == TrueVersion[job.live] IN
    CanRunOn(dist.dialect, ParseVersion(job.live)) <=>
      /\ dist.dialect # OldDialect
      /\ v # NoVersion /\ 1000 * v[1] + v[2] >= 2004
=============================================================================
