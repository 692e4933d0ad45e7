----------------------------- MODULE VaultLogin -----------------------------
(***************************************************************************)
(* The life of the vault's keys: register, login with its key rotation,    *)
(* logout and factory reset of share/auth.ts, over deriveRootKeys,         *)
(* recryptAll and hkdf_params of crypto/vault.ts and the two browser       *)
(* storages.  A frame is a window; it can be closed at any await, and the  *)
(* browser can restart with another build of the wallet at any time.       *)
(*                                                                         *)
(* Cryptography is symbolic: a root key is known by what it is derived     *)
(* from, a signature and a ciphertext by the key and salt that made them.  *)
(***************************************************************************)
EXTENDS Naturals

CONSTANTS
  Frames,
  Keys,      \* names of the encrypted stores
  Phrases,   \* passphrases a user may enter
  Params,    \* Argon2 parameters of the builds of the wallet
  Twins,     \* may a login start while another has not saved its base?
  MaxNonce,  \* bound on the base nonce
  MaxDraws,  \* bound on the random salts and entropies drawn
  None

ASSUME LoginAssumption ==
  /\ None \notin Frames \cup Keys \cup Phrases \cup Params \cup Nat
  /\ Twins \in BOOLEAN
  /\ MaxNonce \in Nat /\ MaxDraws \in Nat

VARIABLES
  base,        \* '@base' of local storage: entropy, nonce and signature
  salt,        \* '@salt'
  hashParams,  \* '@hash_params'
  storage,     \* the ciphertext of each store
  codeParams,  \* N_ARGON2_ITERATIONS, NB_ARGON2_MEMORY of the running build
  session,     \* SessionStorage: root key and vector, None while locked
  opened,      \* per store, the open() in progress, with the cipher and the
               \* vector it has loaded
  draws,       \* random values drawn so far
  pc,          \* the await each frame is at
  try,         \* locals of its login or registration
  todo,        \* stores its recryptAll has yet to read
  writing,     \* stores it has read and is about to write back
  failed       \* one of its recryptions was rejected

persistent == <<base, salt, hashParams, storage>>
recryption == <<todo, writing, failed>>
vars == <<persistent, codeParams, session, opened, draws, pc, try, recryption>>

RootKey(ph, e, n, p) ==
  [phrase |-> ph, entropy |-> e, nonce |-> n, params |-> p]

Signature(key, s) == [key |-> key, salt |-> s]

Vector(key) == [entropy |-> key.entropy, nonce |-> key.nonce]

\* What encrypting a store with the cipher and vector of a root key yields.
Sealed(key, s) == [key |-> key, salt |-> s, vector |-> Vector(key)]

RootKeys == [phrase : Phrases, entropy : 1..MaxDraws, nonce : 0..MaxNonce + 1,
             params : Params]
Salts    == 1..MaxDraws \cup {None}
Signatures == [key : RootKeys, salt : Salts]
Bases    == [entropy : 1..MaxDraws, nonce : 0..MaxNonce + 1, sig : Signatures]
Vectors  == [entropy : 1..MaxDraws, nonce : 0..MaxNonce + 1]
Entries  == [key : RootKeys, salt : Salts, vector : Vectors]
Tries    == [phrase : Phrases, registering : BOOLEAN,
             base : Bases \cup {None}, old : RootKeys \cup {None},
             new : RootKeys \cup {None}, salt : Salts]
Opens    == [cipher : Signatures, vector : Vectors \cup {None},
             at : {"fetched", "read", "set"}]

\* A stored base is told from a missing one.
ASSUME BaseAssumption == None \notin Bases

LoginSteps == {"getBase", "derive", "verify", "recryptAll", "recrypt", "sign",
               "setBase", "setParams", "setSession", "closing"}
RegisterSteps == {"register", "regSign", "regSet"}

TypeOK ==
  /\ base \in Bases \cup {None}
  /\ salt \in Salts
  /\ hashParams \in Params \cup {None}
  /\ storage \in [Keys -> Entries \cup {None}]
  /\ codeParams \in Params
  /\ session \in RootKeys \cup {None}
  /\ opened \in [Keys -> Opens \cup {None}]
  /\ draws \in 0..MaxDraws
  /\ pc \in [Frames -> LoginSteps \cup RegisterSteps \cup {"idle", "reset"}]
  /\ try \in [Frames -> Tries \cup {None}]
  /\ todo \in [Frames -> SUBSET Keys]
  /\ writing \in [Frames -> SUBSET Keys]
  /\ failed \in [Frames -> BOOLEAN]

Goto(f, p) == pc' = [pc EXCEPT ![f] = p]

\* hkdf_params(): the stored salt, or a new one if there is no base yet.  The
\* base and the salt are two awaits; nobody writes either between them, as a
\* registration, like a reset, has the wallet to itself.
HkdfSalt(s) ==
  \/ /\ base # None
     /\ s = salt
     /\ UNCHANGED <<salt, draws>>
  \/ /\ base = None
     /\ draws < MaxDraws
     /\ s = draws + 1
     /\ salt' = s
     /\ draws' = s

\* Where the frame stops; Register.svelte erases the base when the login it
\* makes right after registering throws.
Throw(f) ==
  /\ Goto(f, "idle")
  /\ base' = IF try[f].registering THEN None ELSE base
  /\ try' = [try EXCEPT ![f] = None]

\* Assumption: registrations and resets overlap nothing.
Alone(f) == \A g \in Frames \ {f} : pc[g] = "idle"

\* Assumption: logins that overlap have all read the base before the first of
\* them saves the next one.
SameBase(f) ==
  /\ session = None
  /\ \A g \in Frames \ {f} :
       pc[g] \in LoginSteps \ {"getBase"} => try[g].base = base

\* Assumption: no open() lasts from before a logout until a recryption of the
\* next login, after two runs of Argon2; those of a session that the twin of
\* this login has begun may.
NoOldOpens(f) ==
  \A k \in Keys :
    opened[k] # None => Twins /\ opened[k].cipher.key = try[f].new
-----------------------------------------------------------------------------
Init ==
  /\ base = None /\ salt = None /\ hashParams = None
  /\ storage = [k \in Keys |-> None]
  /\ codeParams \in Params
  /\ session = None
  /\ opened = [k \in Keys |-> None]
  /\ draws = 0
  /\ pc = [f \in Frames |-> "idle"]
  /\ try = [f \in Frames |-> None]
  /\ todo = [f \in Frames |-> {}]
  /\ writing = [f \in Frames |-> {}]
  /\ failed = [f \in Frames |-> FALSE]

Attempt(f, ph, reg) ==
  try' = [try EXCEPT ![f] =
    [phrase |-> ph, registering |-> reg, base |-> None, old |-> None,
     new |-> None, salt |-> None]]

\* The register screen, shown while there is no vault, stores the hash
\* parameters before it registers.
RegisterScreen(f, ph) ==
  /\ pc[f] = "idle"
  /\ Alone(f) /\ base = None
  /\ hashParams' = codeParams
  /\ Attempt(f, ph, TRUE)
  /\ Goto(f, "register")
  /\ UNCHANGED <<base, salt, storage, codeParams, session, opened, draws,
                 recryption>>

\* register() up to the derivation: AlreadyRegisteredError, or entropy and an
\* initial nonce are drawn, and the key of the nonce after it is derived.
Register(f) ==
  /\ pc[f] = "register"
  /\ \/ /\ base # None \/ hashParams = None
        /\ Goto(f, "idle")
        /\ try' = [try EXCEPT ![f] = None]
        /\ UNCHANGED draws
     \/ /\ base = None /\ hashParams # None
        /\ draws < MaxDraws
        /\ draws' = draws + 1
        /\ try' = [try EXCEPT ![f].new =
                     RootKey(try[f].phrase, draws', 1, codeParams)]
        /\ Goto(f, "regSign")
  /\ UNCHANGED <<persistent, codeParams, session, opened, recryption>>

\* generateRootKeySignature(): this is where a new vault gets its salt.
RegisterSign(f) ==
  /\ pc[f] = "regSign"
  /\ \E s \in Salts :
       /\ HkdfSalt(s)
       /\ try' = [try EXCEPT ![f].salt = s]
  /\ Goto(f, "regSet")
  /\ UNCHANGED <<base, hashParams, storage, codeParams, session, opened,
                 recryption>>

NewBase(f) ==
  LET key == try[f].new
  IN  [entropy |-> key.entropy, nonce |-> key.nonce,
       sig |-> Signature(key, try[f].salt)]

\* setParsedBase(), and on to the login that verifies the passphrase.
RegisterSet(f) ==
  /\ pc[f] = "regSet"
  /\ base' = NewBase(f)
  /\ Goto(f, "getBase")
  /\ UNCHANGED <<salt, hashParams, storage, codeParams, session, opened, draws,
                 try, recryption>>

\* The authenticate screen restores missing hash parameters, then logs in.
\* It is left as soon as another window has unlocked the vault.
Authenticate(f, ph) ==
  /\ pc[f] = "idle"
  /\ session = None /\ base # None
  /\ Alone(f) \/ (Twins /\ \A g \in Frames : pc[g] # "reset")
  /\ hashParams' = IF hashParams = None THEN codeParams ELSE hashParams
  /\ Attempt(f, ph, FALSE)
  /\ Goto(f, "getBase")
  /\ UNCHANGED <<base, salt, storage, codeParams, session, opened, draws,
                 recryption>>

\* UnregisteredError, or the base is parsed.
GetBase(f) ==
  /\ pc[f] = "getBase"
  /\ \/ base = None /\ Throw(f)
     \/ /\ base # None
        /\ Twins => SameBase(f)
        /\ base.nonce < MaxNonce
        /\ try' = [try EXCEPT ![f].base = base]
        /\ Goto(f, "derive")
        /\ UNCHANGED base
  /\ UNCHANGED <<salt, hashParams, storage, codeParams, session, opened, draws,
                 recryption>>

\* deriveRootKeys(): the stored parameters for the old key, those of this
\* build for the new one.
DeriveRootKeys(f) ==
  /\ pc[f] = "derive"
  /\ LET b == try[f].base
         ph == try[f].phrase
     IN  \/ /\ hashParams = None
            /\ Throw(f)
         \/ /\ hashParams # None
            /\ try' = [try EXCEPT
                 ![f].old = RootKey(ph, b.entropy, b.nonce, hashParams),
                 ![f].new = RootKey(ph, b.entropy, b.nonce + 1, codeParams)]
            /\ Goto(f, "verify")
            /\ UNCHANGED base
  /\ UNCHANGED <<salt, hashParams, storage, codeParams, session, opened, draws,
                 recryption>>

\* The keys that verifyRootKey() may accept: the old one, and the new one for
\* the authenticate screen, which sets b_recover, unlike the register screen.
Verifies(f, s) ==
  \/ try[f].base.sig = Signature(try[f].old, s)
  \/ ~try[f].registering /\ try[f].base.sig = Signature(try[f].new, s)

\* The keys are verified against the signature of the base the login read, or
\* it throws.
VerifyRootKey(f) ==
  /\ pc[f] = "verify"
  /\ \E s \in Salts :
       /\ HkdfSalt(s)
       /\ IF s # None /\ Verifies(f, s)
            THEN Goto(f, "recryptAll") /\ UNCHANGED <<base, try>>
            ELSE Throw(f)
  /\ UNCHANGED <<hashParams, storage, codeParams, session, opened, recryption>>

\* recryptAll(): the AES keys are derived and the storage is listed.
RecryptAll(f) ==
  /\ pc[f] = "recryptAll"
  /\ NoOldOpens(f)
  /\ \E s \in Salts :
       /\ HkdfSalt(s)
       /\ try' = [try EXCEPT ![f].salt = s]
       /\ failed' = [failed EXCEPT ![f] = (s = None)]
       /\ todo' = [todo EXCEPT ![f] =
                     IF s = None THEN {} ELSE {k \in Keys : storage[k] # None}]
  /\ writing' = [writing EXCEPT ![f] = {}]
  /\ Goto(f, "recrypt")
  /\ UNCHANGED <<base, hashParams, storage, codeParams, session, opened>>

\* Mutation: an entry the new key has already sealed is not tried with it.
RecryptReadOldOnly(f, k) ==
  /\ pc[f] = "recrypt"
  /\ k \in todo[f]
  /\ todo' = [todo EXCEPT ![f] = @ \ {k}]
  /\ LET opens == storage[k] = Sealed(try[f].old, try[f].salt)
     IN  /\ writing' = [writing EXCEPT ![f] =
                          IF storage[k] # None /\ opens THEN @ \cup {k} ELSE @]
         /\ failed' = [failed EXCEPT ![f] = @ \/ (storage[k] # None /\ ~opens)]
  /\ UNCHANGED <<persistent, codeParams, session, opened, draws, pc, try>>

\* The loop reads the next store and starts its recryption, which rejects if
\* neither key opens it.
RecryptRead(f, k) ==
  /\ pc[f] = "recrypt"
  /\ k \in todo[f]
  /\ todo' = [todo EXCEPT ![f] = @ \ {k}]
  /\ LET opens == storage[k] \in {Sealed(try[f].old, try[f].salt),
                                  Sealed(try[f].new, try[f].salt)}
     IN  /\ writing' = [writing EXCEPT ![f] =
                          IF storage[k] # None /\ opens THEN @ \cup {k} ELSE @]
         /\ failed' = [failed EXCEPT ![f] = @ \/ (storage[k] # None /\ ~opens)]
  /\ UNCHANGED <<persistent, codeParams, session, opened, draws, pc, try>>

\* Mutation: the entry is sealed for the nonce after the one stored now, not
\* after the one the login has read.
RecryptWriteAnew(f, k) ==
  /\ pc[f] \in {"recrypt", "closing"}
  /\ k \in writing[f]
  /\ storage' = [storage EXCEPT ![k] =
       Sealed(RootKey(try[f].phrase, base.entropy, base.nonce + 1, codeParams),
              try[f].salt)]
  /\ writing' = [writing EXCEPT ![f] = @ \ {k}]
  /\ UNCHANGED <<base, salt, hashParams, codeParams, session, opened, draws, pc,
                 try, todo, failed>>

\* The recryption of a store saves its result.
RecryptWrite(f, k) ==
  /\ pc[f] \in {"recrypt", "closing"}
  /\ k \in writing[f]
  /\ storage' = [storage EXCEPT ![k] = Sealed(try[f].new, try[f].salt)]
  /\ writing' = [writing EXCEPT ![f] = @ \ {k}]
  /\ UNCHANGED <<base, salt, hashParams, codeParams, session, opened, draws, pc,
                 try, todo, failed>>

\* Mutation: the recryptions still in flight are not awaited.
RecryptEndEarly(f) ==
  /\ pc[f] = "recrypt"
  /\ ~failed[f]
  /\ todo[f] = {}
  /\ Goto(f, "sign")
  /\ UNCHANGED <<persistent, codeParams, session, opened, draws, try,
                 recryption>>

\* All recryptions settled, or the login logs out and closes its window while
\* those still in flight go on.
RecryptEnd(f) ==
  /\ pc[f] = "recrypt"
  /\ \/ /\ ~failed[f]
        /\ todo[f] = {} /\ writing[f] = {}
        /\ Goto(f, "sign")
        /\ UNCHANGED session
     \/ /\ failed[f]
        /\ Goto(f, "closing")
        /\ session' = None
  /\ UNCHANGED <<persistent, codeParams, opened, draws, try, recryption>>

\* generateRootKeySignature() with the new key.
Sign(f) ==
  /\ pc[f] = "sign"
  /\ \E s \in Salts :
       /\ HkdfSalt(s)
       /\ IF s = None THEN Throw(f)
                      ELSE /\ try' = [try EXCEPT ![f].salt = s]
                           /\ Goto(f, "setBase")
                           /\ UNCHANGED base
  /\ UNCHANGED <<hashParams, storage, codeParams, session, opened, recryption>>

\* Mutation: the nonce is that after the one stored now.
SetBaseAnew(f) ==
  /\ pc[f] = "setBase"
  /\ base' = [NewBase(f) EXCEPT !.nonce = base.nonce + 1]
  /\ Goto(f, IF try[f].old.params # try[f].new.params THEN "setParams"
                                                      ELSE "setSession")
  /\ UNCHANGED <<salt, hashParams, storage, codeParams, session, opened, draws,
                 try, recryption>>

\* setParsedBase(): the rotation is committed.
SetBase(f) ==
  /\ pc[f] = "setBase"
  /\ base' = NewBase(f)
  /\ Goto(f, IF try[f].old.params # try[f].new.params THEN "setParams"
                                                      ELSE "setSession")
  /\ UNCHANGED <<salt, hashParams, storage, codeParams, session, opened, draws,
                 try, recryption>>

\* The new hash parameters are stored by a write of their own.
SetParams(f) ==
  /\ pc[f] = "setParams"
  /\ hashParams' = try[f].new.params
  /\ Goto(f, "setSession")
  /\ UNCHANGED <<base, salt, storage, codeParams, session, opened, draws, try,
                 recryption>>

\* SessionStorage.set(): the vault is unlocked.
SetSession(f) ==
  /\ pc[f] = "setSession"
  /\ session' = try[f].new
  /\ Goto(f, "idle")
  /\ try' = [try EXCEPT ![f] = None]
  /\ UNCHANGED <<persistent, codeParams, opened, draws, recryption>>
-----------------------------------------------------------------------------
Opening(cipher) == [cipher |-> cipher, vector |-> None, at |-> "fetched"]

\* Mutation: fetch_cipher() does not check that there is a root key.
OpenUnchecked(k) ==
  /\ opened[k] = None
  /\ opened' = [opened EXCEPT ![k] = Opening(Signature(session, salt))]
  /\ UNCHANGED <<persistent, codeParams, session, draws, pc, try, recryption>>

\* The open() of a store, up to its wait for the lock: fetch_cipher().
Open(k) ==
  /\ session # None
  /\ opened[k] = None
  /\ \E s \in Salts :
       /\ HkdfSalt(s)
       /\ s # None
       /\ opened' = [opened EXCEPT ![k] = Opening(Signature(session, s))]
  /\ UNCHANGED <<base, hashParams, storage, codeParams, session, pc, try,
                 recryption>>

\* readJson() under the lock: the entry is new, opens, or the call rejects.
OpenRead(k) ==
  /\ opened[k] # None /\ opened[k].at = "fetched"
  /\ LET c == opened[k].cipher
         readable ==
           /\ session # None
           /\ storage[k] # None =>
                storage[k] = [key |-> c.key, salt |-> c.salt,
                              vector |-> Vector(session)]
     IN  opened' = [opened EXCEPT ![k] =
                      IF readable THEN [@ EXCEPT !.at = "read"] ELSE None]
  /\ UNCHANGED <<persistent, codeParams, session, draws, pc, try, recryption>>

\* write() loads the vector of the session of now, or rejects.
OpenVector(k) ==
  /\ opened[k] # None /\ opened[k].at = "read"
  /\ opened' = [opened EXCEPT ![k] =
                  IF session = None THEN None
                  ELSE [@ EXCEPT !.vector = Vector(session), !.at = "set"]]
  /\ UNCHANGED <<persistent, codeParams, session, draws, pc, try, recryption>>

\* The storage_set of write(), and release().
OpenSet(k) ==
  /\ opened[k] # None /\ opened[k].at = "set"
  /\ storage' = [storage EXCEPT ![k] = [key |-> opened[k].cipher.key,
                                       salt |-> opened[k].cipher.salt,
                                       vector |-> opened[k].vector]]
  /\ opened' = [opened EXCEPT ![k] = None]
  /\ UNCHANGED <<base, salt, hashParams, codeParams, session, draws, pc, try,
                 recryption>>

Logout ==
  /\ session # None
  /\ session' = None
  /\ UNCHANGED <<persistent, codeParams, opened, draws, pc, try, recryption>>

\* factory_reset(): first the session is cleared, then the local storage.
FactoryReset(f) ==
  /\ pc[f] = "idle"
  /\ Alone(f)
  /\ session' = None
  /\ Goto(f, "reset")
  /\ UNCHANGED <<persistent, codeParams, opened, draws, try, recryption>>

ClearStorage(f) ==
  /\ pc[f] = "reset"
  /\ \A k \in Keys : opened[k] = None
  /\ base' = None /\ salt' = None /\ hashParams' = None
  /\ storage' = [k \in Keys |-> None]
  /\ Goto(f, "idle")
  /\ UNCHANGED <<codeParams, session, opened, draws, try, recryption>>

\* A window is closed: by its user, by a crash, or by itself after a failed
\* recryption.  What it had not yet written is lost.
Close(f) ==
  /\ pc[f] # "idle"
  /\ Goto(f, "idle")
  /\ try' = [try EXCEPT ![f] = None]
  /\ todo' = [todo EXCEPT ![f] = {}]
  /\ writing' = [writing EXCEPT ![f] = {}]
  /\ failed' = [failed EXCEPT ![f] = FALSE]
  /\ UNCHANGED <<persistent, codeParams, session, opened, draws>>

\* The browser restarts, perhaps with an updated wallet: only local storage
\* survives.
Restart ==
  /\ codeParams' \in Params
  /\ session' = None
  /\ opened' = [k \in Keys |-> None]
  /\ pc' = [f \in Frames |-> "idle"]
  /\ try' = [f \in Frames |-> None]
  /\ todo' = [f \in Frames |-> {}]
  /\ writing' = [f \in Frames |-> {}]
  /\ failed' = [f \in Frames |-> FALSE]
  /\ UNCHANGED <<persistent, draws>>
-----------------------------------------------------------------------------
LoginStep(f) ==
  \/ GetBase(f)
  \/ DeriveRootKeys(f)
  \/ VerifyRootKey(f)
  \/ RecryptAll(f)
  \/ \E k \in Keys : RecryptRead(f, k) \/ RecryptWrite(f, k)
  \/ RecryptEnd(f)
  \/ Sign(f)
  \/ SetBase(f)
  \/ SetParams(f)
  \/ SetSession(f)

RegisterStep(f) == Register(f) \/ RegisterSign(f) \/ RegisterSet(f)

OpenStep(k) == OpenRead(k) \/ OpenVector(k) \/ OpenSet(k)

\* What users and the wallet's own code do next.
Work ==
  \/ \E f \in Frames :
       \/ \E ph \in Phrases :
            \/ RegisterScreen(f, ph)
            \/ Authenticate(f, ph)
       \/ RegisterStep(f)
       \/ LoginStep(f)
       \/ ClearStorage(f)
       \/ pc[f] = "closing" /\ Close(f)
  \/ \E k \in Keys : Open(k) \/ OpenStep(k)

\* What cuts a login short, or undoes it.
Interruption ==
  \/ \E f \in Frames : Close(f) \/ FactoryReset(f)
  \/ Logout
  \/ Restart

Next == Work \/ Interruption

Spec == Init /\ [][Next]_vars
=============================================================================
