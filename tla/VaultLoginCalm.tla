--------------------------- MODULE VaultLoginCalm ---------------------------
(***************************************************************************)
(* VaultLogin with a moment from which on nobody closes a window, logs     *)
(* out, resets the wallet or restarts the browser.                         *)
(***************************************************************************)
EXTENDS VaultLoginProps

VARIABLE calm  \* nothing interrupts a login any more

calmVars == <<vars, calm>>

CalmInit == Init /\ calm = FALSE

Becalm == ~calm /\ calm' = TRUE /\ UNCHANGED vars

CalmNext ==
  \/ Work /\ UNCHANGED calm
  \/ ~calm /\ Interruption /\ UNCHANGED calm
  \/ Becalm

\* Every await of a login and of an open() settles, a window that was told to
\* close does, and a user who has a vault and finds it locked enters the
\* passphrase again, in between other attempts.
Fairness ==
  /\ \A f \in Frames :
       WF_calmVars(/\ \/ RegisterStep(f) \/ LoginStep(f) \/ ClearStorage(f)
                      \/ pc[f] = "closing" /\ Close(f)
                   /\ UNCHANGED calm)
  /\ \A ph \in Phrases :
       SF_calmVars((\E f \in Frames : Authenticate(f, ph)) /\ UNCHANGED calm)
  /\ \A k \in Keys : WF_calmVars(OpenStep(k) /\ UNCHANGED calm)

CalmSpec == CalmInit /\ [][CalmNext]_calmVars /\ Fairness
-----------------------------------------------------------------------------
\* However often logins were cut short, in the middle of a rotation too, the
\* right passphrase unlocks the vault once it is left to (deriveRootKeys,
\* recryptAll, login()).  A base that MaxNonce keeps from rotating is left out.
EventuallyUnlocks ==
  calm ~> (session # None \/ base = None \/ base.nonce = MaxNonce)
=============================================================================
