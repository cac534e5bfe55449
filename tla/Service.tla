------------------------------ MODULE Service ------------------------------
(***************************************************************************)
(* What remote setup, update and clean promise about the OpenVPN instances  *)
(* of a host.  An instance is changed by a command that names it, one thing *)
(* at a time, and by a boot, which starts what is enabled; and what an      *)
(* operator is told at the end of a command is so at that moment.  Deploy   *)
(* implements this.                                                        *)
(***************************************************************************)
CONSTANTS
  Owners,   \* who runs commands, one at a time each
  Names,    \* instances
  Owned,    \* the instances that each owner's commands may name
  Configs,  \* what an instance may serve
  Off       \* nothing

VARIABLES
  written, \* what each instance would start with
  enabled, \* the instances that start at boot
  serving, \* what each instance serves
  work,    \* the instance that each owner's running command is for
  said     \* the last thing each owner was told, and of which instance

host == <<written, enabled, serving>>
serviceVars == <<written, enabled, serving, work, said>>

Nothing == [what |-> "none", name |-> Off]

Init ==
  /\ written = [n \in Names |-> Off] /\ serving = [n \in Names |-> Off]
  /\ enabled = {}
  /\ work = [o \in Owners |-> Off]
  /\ said = [o \in Owners |-> Nothing]

-----------------------------------------------------------------------------
(* What a command may do to its instance.                                  *)

Write(n) ==
  /\ \E c \in Configs \union {Off} : written' = [written EXCEPT ![n] = c]
  /\ UNCHANGED <<enabled, serving>>

Switch(n) ==
  /\ enabled' \in {enabled \union {n}, enabled \ {n}}
  /\ UNCHANGED <<written, serving>>

Start(n) ==
  /\ written[n] # Off
  /\ serving' = [serving EXCEPT ![n] = written[n]]
  /\ UNCHANGED <<written, enabled>>

Stop(n) ==
  /\ serving' = [serving EXCEPT ![n] = Off]
  /\ UNCHANGED <<written, enabled>>

Touch(n) == Write(n) \/ Switch(n) \/ Start(n) \/ Stop(n)

-----------------------------------------------------------------------------
(* What an operator is told.                                               *)

\* It serves what is written, and will after a boot.
IsLive(n) == serving[n] # Off /\ serving[n] = written[n] /\ n \in enabled

\* It serves what is written; or it is off, and stays off.
IsUpdated(n) ==
  /\ written[n] # Off
  /\ \/ serving[n] = written[n]
     \/ serving[n] = Off /\ n \notin enabled

IsGone(n) == serving[n] = Off /\ written[n] = Off /\ n \notin enabled

Promised(what, n) ==
  /\ what = "live" => IsLive(n)
  /\ what = "updated" => IsUpdated(n)
  /\ what = "cleaned" => IsGone(n)

Report(o, what) ==
  /\ work' = [work EXCEPT ![o] = Off]
  /\ said' = [said EXCEPT ![o] = [what |-> what, name |-> work[o]]]

-----------------------------------------------------------------------------

Begin(o, n) ==
  /\ work[o] = Off
  /\ work' = [work EXCEPT ![o] = n]
  /\ said' = [said EXCEPT ![o] = Nothing]
  /\ UNCHANGED host

Proceed(o) ==
  /\ work[o] # Off /\ Touch(work[o])
  /\ UNCHANGED <<work, said>>

\* A command that fails may have done a last thing, half of it or none.
Fail(o) ==
  /\ work[o] # Off /\ (Touch(work[o]) \/ UNCHANGED host)
  /\ Report(o, "failed")

Finish(o, what) ==
  /\ work[o] # Off /\ Promised(what, work[o])
  /\ Report(o, what)
  /\ UNCHANGED host

Boot ==
  /\ serving' = [n \in Names |-> IF n \in enabled THEN written[n] ELSE Off]
  /\ UNCHANGED <<written, enabled, work, said>>

Step(o) ==
  \/ \E n \in Owned[o] : Begin(o, n)
  \/ Proceed(o) \/ Fail(o)
  \/ \E what \in {"live", "updated", "cleaned"} : Finish(o, what)

Next == Boot \/ \E o \in Owners : Step(o)

Spec == Init /\ [][Next]_serviceVars

\* What an owner was told stays true until his next command.
PromisesHold == \A o \in Owners : Promised(said[o].what, said[o].name)
=============================================================================
