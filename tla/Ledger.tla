------------------------------- MODULE Ledger -------------------------------
(***************************************************************************)
(* What the project promises about its credentials, files and commands      *)
(* left out.  Every private key is a number drawn once.  An owner holds     *)
(* none or one of them, the tls-crypt secret is another, and what is held   *)
(* stays held until the authority as a whole is reset, which may stop half  *)
(* way.  Workspace implements it.                                          *)
(***************************************************************************)
EXTENDS Naturals, TLAPS

CONSTANTS
  Owners,
  None    \* no number

VARIABLES
  issued,    \* the number each owner holds
  shared,    \* the number of the secret that all share
  next,      \* the next number
  drawn,     \* the number drawn for an owner that does not hold it yet
  resetting  \* the authority is being reset

held == <<issued, shared>>
vars == <<issued, shared, next, drawn, resetting>>

Init ==
  /\ issued = [o \in Owners |-> None] /\ shared = None
  /\ next = 0 /\ drawn = None /\ resetting = FALSE

\* A number is drawn, for an owner, for the authority itself or for nothing.
Draw ==
  /\ ~resetting
  /\ next' = next + 1 /\ drawn' \in {next, None}
  /\ UNCHANGED <<held, resetting>>

Issue(o) ==
  /\ ~resetting /\ drawn # None /\ issued[o] = None
  /\ issued' = [issued EXCEPT ![o] = drawn] /\ drawn' = None
  /\ UNCHANGED <<shared, next, resetting>>

\* The number drawn is lost, and never drawn again.
Discard ==
  /\ drawn' = None
  /\ UNCHANGED <<held, next, resetting>>

Seal ==
  /\ ~resetting /\ shared = None
  /\ shared' = next /\ next' = next + 1
  /\ UNCHANGED <<issued, drawn, resetting>>

StartReset ==
  /\ drawn = None /\ resetting' = TRUE
  /\ UNCHANGED <<held, next, drawn>>

Forget ==
  /\ resetting
  /\ \/ \E o \in Owners : issued' = [issued EXCEPT ![o] = None] /\ UNCHANGED shared
     \/ shared' = None /\ UNCHANGED issued
  /\ UNCHANGED <<next, drawn, resetting>>

EndReset ==
  /\ resetting /\ resetting' = FALSE
  /\ UNCHANGED <<held, next, drawn>>

Next ==
  \/ Draw \/ (\E o \in Owners : Issue(o)) \/ Discard \/ Seal
  \/ StartReset \/ Forget \/ EndReset

Spec == Init /\ [][Next]_vars

\* No number is in two hands: two owners never hold one key, and the secret
\* that all share is nobody's key.
InOneHand ==
  /\ \A o, p \in Owners : (issued[o] # None /\ issued[o] = issued[p]) => o = p
  /\ shared # None => \A o \in Owners : issued[o] # shared

-----------------------------------------------------------------------------
(* Its theorem.                                                            *)

Numbers == Nat \union {None}

LedgerType ==
  /\ issued \in [Owners -> Numbers] /\ shared \in Numbers
  /\ next \in Nat /\ drawn \in Numbers

\* The numbers that are held or drawn lie below the next one, and the one that
\* is drawn is not held yet.
Spent ==
  /\ \A o \in Owners : issued[o] # None => issued[o] < next
  /\ shared # None => shared < next
  /\ drawn # None => /\ drawn < next /\ shared # drawn
                     /\ \A o \in Owners : issued[o] # drawn

LedgerInv == LedgerType /\ Spent /\ InOneHand

\* Every step keeps the numbers apart.
LEMMA LedgerStep ==
  ASSUME None \notin Nat, LedgerInv, [Next]_vars
  PROVE  LedgerInv'
<1> USE DEF LedgerInv, LedgerType, Numbers, Spent, InOneHand, held
<1>1. CASE Draw
  BY <1>1 DEF Draw
<1>2. ASSUME NEW o \in Owners, Issue(o)
      PROVE  LedgerInv'
  BY <1>2 DEF Issue
<1>3. CASE Discard
  BY <1>3 DEF Discard
<1>4. CASE Seal
  BY <1>4 DEF Seal
<1>5. CASE StartReset
  BY <1>5 DEF StartReset
<1>6. CASE Forget
  BY <1>6 DEF Forget
<1>7. CASE EndReset
  BY <1>7 DEF EndReset
<1>8. CASE UNCHANGED vars
  BY <1>8 DEF vars
<1>9. QED
  BY <1>1, <1>2, <1>3, <1>4, <1>5, <1>6, <1>7, <1>8 DEF Next

\* No number is ever in two hands.
THEOREM NumbersApart ==
  ASSUME None \notin Nat
  PROVE  Spec => []InOneHand
<1>1. Init => LedgerInv
  BY DEF Init, LedgerInv, LedgerType, Numbers, Spent, InOneHand
<1>2. LedgerInv => InOneHand
  BY DEF LedgerInv
<1>3. LedgerInv /\ [Next]_vars => LedgerInv'
  BY LedgerStep
<1>4. QED
  BY <1>1, <1>2, <1>3, PTL DEF Spec
=============================================================================
