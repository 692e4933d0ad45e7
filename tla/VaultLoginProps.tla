-------------------------- MODULE VaultLoginProps --------------------------
(***************************************************************************)
(* What the key rotation of VaultLogin promises about the user's data.     *)
(***************************************************************************)
EXTENDS VaultLogin

\* The root keys that a login with this passphrase would derive now.
OldRoot(ph) == RootKey(ph, base.entropy, base.nonce, hashParams)
NewRoot(ph) == RootKey(ph, base.entropy, base.nonce + 1, codeParams)

\* Would verifyRootKey() accept the passphrase?
Accepts(ph) == salt # None /\ base.sig = Signature(OldRoot(ph), salt)

\* Would recryptAll() open the entry?
Recryptable(ph, e) ==
  e \in {None, Sealed(OldRoot(ph), salt), Sealed(NewRoot(ph), salt)}

\* Wherever register(), login() or the browser stops, the passphrase that the
\* vault was made with is accepted, and every store opens with one of the two
\* keys the next login derives from it (deriveRootKeys, recryptAll and the
\* order of the writes of login(), share/auth.ts).
Unlockable ==
  base # None =>
    LET ph == base.sig.key.phrase
    IN  Accepts(ph) /\ \A k \in Keys : Recryptable(ph, storage[k])

\* In an unlocked vault every store opens with the root key and the vector of
\* the session, and that key is the one the base is signed with (recryptAll,
\* SessionStorage.set, and the cipher and vector of WritableVaultEntry.write).
SessionReadsAll ==
  session # None =>
    /\ base # None /\ base.sig = Signature(session, salt)
    /\ \A k \in Keys : storage[k] \in {None, Sealed(session, salt)}
=============================================================================
