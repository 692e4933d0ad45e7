--------------------------- MODULE VaultLoginProofs ---------------------------
(***************************************************************************)
(* The key rotation of VaultLogin never locks the user out, whatever the   *)
(* windows, stores, passphrases and bounds.                                *)
(***************************************************************************)
EXTENDS VaultLoginProps, TLAPS

\* The awaits of a login from a certain one on.
Derived == {"verify", "recryptAll", "recrypt", "sign", "setBase", "setParams",
            "setSession", "closing"}
Verified == Derived \ {"verify"}
Reading == Derived \cup {"derive"}

\* What a login or registration has in its locals by each of its awaits.
TryOf(f) ==
  /\ pc[f] \in LoginSteps \cup RegisterSteps => try[f] \in Tries
  /\ pc[f] \in Reading => try[f].base \in Bases /\ try[f].base.nonce < MaxNonce
  /\ pc[f] \in Derived =>
       /\ try[f].old \in RootKeys /\ try[f].new \in RootKeys
       /\ try[f].old.phrase = try[f].new.phrase
  /\ pc[f] \in Verified => try[f].base.sig.key.phrase = try[f].new.phrase
  /\ pc[f] \in {"regSign", "regSet"} => try[f].new \in RootKeys

TryInv == \A f \in Frames : TryOf(f)

\* An open() that is about to write has loaded its vector.
OpenTyped == \A k \in Keys :
  opened[k] # None /\ opened[k].at = "set" => opened[k].vector \in Vectors

TypeInv == TypeOK /\ TryInv /\ OpenTyped
-----------------------------------------------------------------------------
(* Types, whatever overlaps. *)

LEMMA TriesFields == \A t \in Tries :
  /\ t.phrase \in Phrases /\ t.registering \in BOOLEAN /\ t.base \in Bases \cup {None}
  /\ t.old \in RootKeys \cup {None} /\ t.new \in RootKeys \cup {None} /\ t.salt \in Salts
BY DEF Tries

\* Locals of a try are set one by one.
LEMMA TriesUpdate ==
  ASSUME NEW t \in Tries
  PROVE  /\ \A b \in Bases : LET u == [t EXCEPT !.base = b] IN
              u \in Tries /\ u.base = b /\ u.phrase = t.phrase /\ u.registering = t.registering
              /\ u.old = t.old /\ u.new = t.new /\ u.salt = t.salt
         /\ \A k \in RootKeys : LET u == [t EXCEPT !.new = k] IN
              u \in Tries /\ u.new = k /\ u.phrase = t.phrase /\ u.registering = t.registering
              /\ u.old = t.old /\ u.base = t.base /\ u.salt = t.salt
         /\ \A s \in Salts : LET u == [t EXCEPT !.salt = s] IN
              u \in Tries /\ u.salt = s /\ u.phrase = t.phrase /\ u.registering = t.registering
              /\ u.old = t.old /\ u.new = t.new /\ u.base = t.base
BY DEF Tries

LEMMA RootKeyType ==
  ASSUME NEW ph \in Phrases, NEW e \in 1..MaxDraws, NEW n \in 0..MaxNonce + 1, NEW p \in Params
  PROVE  /\ RootKey(ph, e, n, p) \in RootKeys
         /\ RootKey(ph, e, n, p).phrase = ph /\ RootKey(ph, e, n, p).entropy = e
         /\ RootKey(ph, e, n, p).nonce = n /\ RootKey(ph, e, n, p).params = p
BY DEF RootKey, RootKeys

LEMMA NewBaseType ==
  ASSUME NEW f \in Frames, try[f] \in Tries, try[f].new \in RootKeys
  PROVE  NewBase(f) \in Bases
BY DEF NewBase, Tries, RootKeys, Bases, Signatures, Signature

LEMMA InitTypes == Init => TypeInv
BY LoginAssumption DEF LoginAssumption, Init, TypeInv, TypeOK, TryInv, TryOf, OpenTyped, LoginSteps,
  RegisterSteps, Salts, Reading, Derived, Verified

Steps == LoginSteps \cup RegisterSteps \cup {"idle", "reset"}

\* A frame moves, and the locals of the others stay.
LEMMA FrameMoves ==
  ASSUME TypeInv, NEW f \in Frames, NEW p \in Steps, Goto(f, p),
         \A g \in Frames \ {f} : try'[g] = try[g],
         TryOf(f)'
  PROVE  TryInv' /\ pc' \in [Frames -> Steps] /\ pc'[f] = p
<1>1. pc' \in [Frames -> Steps] /\ pc'[f] = p /\ \A g \in Frames \ {f} : pc'[g] = pc[g]
  BY DEF Goto, TypeInv, TypeOK, Steps
<1>2. ASSUME NEW g \in Frames \ {f} PROVE TryOf(g)'
  <2>1. TryOf(g) /\ pc'[g] = pc[g] /\ try'[g] = try[g]
    BY <1>1, <1>2 DEF TypeInv, TryInv
  <2> QED
    BY <2>1 DEF TryOf
<1> QED
  BY <1>1, <1>2 DEF TryInv

LEMMA SaltType ==
  ASSUME TypeInv, NEW s \in Salts, HkdfSalt(s)
  PROVE  salt' \in Salts /\ draws' \in 0..MaxDraws
BY LoginAssumption DEF LoginAssumption, HkdfSalt, TypeInv, TypeOK, Salts

LEMMA ThrowType ==
  ASSUME TypeInv, NEW f \in Frames, try[f] \in Tries, Throw(f)
  PROVE  /\ base' \in Bases \cup {None} /\ try' \in [Frames -> Tries \cup {None}]
         /\ pc' \in [Frames -> Steps] /\ TryInv'
<1>1. base' \in Bases \cup {None} /\ try' \in [Frames -> Tries \cup {None}]
      /\ \A g \in Frames \ {f} : try'[g] = try[g]
  BY DEF Throw, TypeInv, TypeOK
<1>2. Goto(f, "idle") /\ pc'[f] = "idle"
  BY DEF Throw, Goto, TypeInv, TypeOK
<1>3. TryOf(f)'
  BY <1>2 DEF TryOf, LoginSteps, RegisterSteps, Reading, Derived, Verified
<1> QED
  BY <1>1, <1>2, <1>3, FrameMoves DEF Steps

LEMMA AttemptType ==
  ASSUME TypeInv, NEW f \in Frames, NEW ph \in Phrases, NEW reg \in BOOLEAN, Attempt(f, ph, reg),
         NEW p \in {"register", "getBase"}, Goto(f, p)
  PROVE  try' \in [Frames -> Tries \cup {None}] /\ pc' \in [Frames -> Steps] /\ TryInv'
<1>1. /\ try' \in [Frames -> Tries \cup {None}] /\ try'[f] \in Tries
      /\ \A g \in Frames \ {f} : try'[g] = try[g]
  BY DEF Attempt, TypeInv, TypeOK, Tries, Salts
<1>2. p \in Steps /\ pc'[f] = p
  BY DEF Steps, LoginSteps, RegisterSteps, Goto, TypeInv, TypeOK
<1>3. TryOf(f)'
  BY <1>1, <1>2 DEF TryOf, LoginSteps, RegisterSteps, Reading, Derived, Verified
<1> QED
  BY <1>1, <1>2, <1>3, FrameMoves

\* A step of a login or registration.
LEMMA LoginType ==
  ASSUME TypeInv, NEW f \in Frames, LoginStep(f) \/ RegisterStep(f)
  PROVE  TypeInv'
<1> USE DEF TypeInv
<1> DEFINE Typed == try' \in [Frames -> Tries \cup {None}] /\ pc' \in [Frames -> Steps] /\ TryInv'
<1>1. TryOf(f) /\ pc \in [Frames -> Steps] /\ pc[f] \in Steps
  BY DEF TryInv, TypeOK, Steps
<1>2. CASE Register(f)
  <2>1. pc[f] = "register" /\ try[f] \in Tries
    BY <1>1, <1>2 DEF Register, TryOf, RegisterSteps
  <2>2. CASE Goto(f, "idle") /\ try' = [try EXCEPT ![f] = None] /\ UNCHANGED draws
    <3>1. try' \in [Frames -> Tries \cup {None}] /\ \A g \in Frames \ {f} : try'[g] = try[g]
      BY <2>2 DEF TypeOK
    <3>2. TryOf(f)'
      BY <1>1, <2>2 DEF TryOf, Goto, LoginSteps, RegisterSteps, Reading, Derived, Verified
    <3>3. Typed
      BY <2>2, <3>1, <3>2, FrameMoves DEF Steps
    <3> QED
      BY <1>2, <2>2, <3>3 DEF Register, TypeOK, Steps, persistent, recryption, OpenTyped
  <2>3. CASE /\ draws < MaxDraws /\ draws' = draws + 1
             /\ try' = [try EXCEPT ![f].new = RootKey(try[f].phrase, draws', 1, codeParams)]
             /\ Goto(f, "regSign")
    <3>1. draws' \in 1..MaxDraws /\ draws' \in 0..MaxDraws /\ 1 \in 0..MaxNonce + 1
      BY <2>3, LoginAssumption DEF TypeOK, LoginAssumption
    <3>2. RootKey(try[f].phrase, draws', 1, codeParams) \in RootKeys
      BY <2>1, <3>1, RootKeyType, TriesFields DEF TypeOK
    <3>3. /\ try' \in [Frames -> Tries \cup {None}] /\ \A g \in Frames \ {f} : try'[g] = try[g]
          /\ try'[f] \in Tries /\ try'[f].new \in RootKeys
      BY <2>1, <2>3, <3>2, TriesUpdate DEF TypeOK
    <3>4. TryOf(f)'
      BY <1>1, <2>3, <3>3 DEF TryOf, Goto, LoginSteps, RegisterSteps, Reading, Derived, Verified
    <3>5. Typed
      BY <2>3, <3>3, <3>4, FrameMoves DEF Steps, RegisterSteps
    <3> QED
      BY <1>2, <3>1, <3>5 DEF Register, TypeOK, Steps, persistent, recryption, OpenTyped
  <2> QED
    BY <1>2, <2>2, <2>3 DEF Register
<1>3. CASE RegisterSign(f)
  <2>1. PICK s \in Salts : HkdfSalt(s) /\ try' = [try EXCEPT ![f].salt = s]
    BY <1>3 DEF RegisterSign
  <2>2. pc[f] = "regSign" /\ try[f] \in Tries /\ try[f].new \in RootKeys
    BY <1>1, <1>3 DEF RegisterSign, TryOf, RegisterSteps
  <2>3. /\ try' \in [Frames -> Tries \cup {None}] /\ \A g \in Frames \ {f} : try'[g] = try[g]
        /\ try'[f] \in Tries /\ try'[f].new = try[f].new
    BY <2>1, <2>2, TriesUpdate DEF TypeOK
  <2>4. TryOf(f)'
    BY <1>1, <1>3, <2>2, <2>3
    DEF RegisterSign, TryOf, Goto, LoginSteps, RegisterSteps, Reading, Derived, Verified
  <2>5. Typed
    BY <1>3, <2>3, <2>4, FrameMoves DEF RegisterSign, Steps, RegisterSteps
  <2>6. salt' \in Salts /\ draws' \in 0..MaxDraws
    BY <2>1, SaltType
  <2> QED
    BY <1>3, <2>5, <2>6 DEF RegisterSign, TypeOK, Steps, recryption, OpenTyped
<1>4. CASE RegisterSet(f)
  <2>1. pc[f] = "regSet" /\ try[f] \in Tries /\ try[f].new \in RootKeys
    BY <1>1, <1>4 DEF RegisterSet, TryOf, RegisterSteps
  <2>2. TryOf(f)'
    BY <1>1, <1>4, <2>1
    DEF RegisterSet, TryOf, Goto, LoginSteps, RegisterSteps, Reading, Derived, Verified
  <2>3. Typed
    BY <1>4, <2>2, FrameMoves DEF RegisterSet, Steps, LoginSteps, TypeOK
  <2> QED
    BY <1>4, <2>1, <2>3, NewBaseType DEF RegisterSet, TypeOK, Steps, recryption, OpenTyped
<1>5. CASE GetBase(f)
  <2>1. pc[f] = "getBase" /\ try[f] \in Tries
    BY <1>1, <1>5 DEF GetBase, TryOf, LoginSteps
  <2>2. CASE Throw(f)
    BY <1>5, <2>1, <2>2, ThrowType DEF GetBase, TypeOK, Steps, recryption, OpenTyped
  <2>3. CASE /\ base # None /\ base.nonce < MaxNonce /\ UNCHANGED base
             /\ try' = [try EXCEPT ![f].base = base] /\ Goto(f, "derive")
    <3>1. /\ try' \in [Frames -> Tries \cup {None}] /\ \A g \in Frames \ {f} : try'[g] = try[g]
          /\ try'[f] \in Tries /\ try'[f].base = base /\ base \in Bases
      BY <2>1, <2>3, TriesUpdate DEF TypeOK
    <3>2. TryOf(f)'
      BY <1>1, <2>3, <3>1 DEF TryOf, Goto, LoginSteps, RegisterSteps, Reading, Derived, Verified
    <3>3. Typed
      BY <2>3, <3>1, <3>2, FrameMoves DEF Steps, LoginSteps
    <3> QED
      BY <1>5, <2>3, <3>3 DEF GetBase, TypeOK, Steps, recryption, OpenTyped
  <2> QED
    BY <1>5, <2>2, <2>3 DEF GetBase
<1>6. CASE DeriveRootKeys(f)
  <2>1. /\ pc[f] = "derive" /\ try[f] \in Tries /\ try[f].base \in Bases
        /\ try[f].base.nonce < MaxNonce
    BY <1>1, <1>6 DEF DeriveRootKeys, TryOf, LoginSteps, Reading
  <2> DEFINE b == try[f].base
             o == RootKey(try[f].phrase, b.entropy, b.nonce, hashParams)
             n == RootKey(try[f].phrase, b.entropy, b.nonce + 1, codeParams)
  <2>2. CASE Throw(f)
    BY <1>6, <2>1, <2>2, ThrowType DEF DeriveRootKeys, TypeOK, Steps, recryption, OpenTyped
  <2>3. CASE /\ hashParams # None /\ UNCHANGED base /\ Goto(f, "verify")
             /\ try' = [try EXCEPT ![f].old = o, ![f].new = n]
    <3>1. b.entropy \in 1..MaxDraws /\ b.nonce \in 0..MaxNonce + 1 /\ b.nonce + 1 \in 0..MaxNonce + 1
      BY <2>1, LoginAssumption DEF Bases, LoginAssumption
    <3>2. o \in RootKeys /\ n \in RootKeys /\ o.phrase = n.phrase
      BY <2>1, <2>3, <3>1, RootKeyType, TriesFields DEF TypeOK
    <3>3. /\ try' \in [Frames -> Tries \cup {None}] /\ \A g \in Frames \ {f} : try'[g] = try[g]
          /\ try'[f] \in Tries /\ try'[f].base = b /\ try'[f].old = o /\ try'[f].new = n
      <4> HIDE DEF o, n
      <4>1. /\ [try[f] EXCEPT !.old = o, !.new = n] \in Tries
            /\ [try[f] EXCEPT !.old = o, !.new = n].base = b
            /\ [try[f] EXCEPT !.old = o, !.new = n].old = o
            /\ [try[f] EXCEPT !.old = o, !.new = n].new = n
        BY <2>1, <3>2 DEF Tries
      <4> QED
        BY <2>3, <4>1 DEF TypeOK
    <3> HIDE DEF o, n
    <3>4. TryOf(f)'
      BY <1>1, <2>1, <2>3, <3>2, <3>3
      DEF TryOf, Goto, LoginSteps, RegisterSteps, Reading, Derived, Verified
    <3>5. Typed
      BY <2>3, <3>3, <3>4, FrameMoves DEF Steps, LoginSteps
    <3> QED
      BY <1>6, <2>3, <3>5 DEF DeriveRootKeys, TypeOK, Steps, recryption, OpenTyped
  <2> QED
    BY <1>6, <2>2, <2>3 DEF DeriveRootKeys
<1>7. CASE VerifyRootKey(f)
  <2>1. PICK s \in Salts :
          /\ HkdfSalt(s)
          /\ IF s # None /\ Verifies(f, s)
               THEN Goto(f, "recryptAll") /\ UNCHANGED <<base, try>>
               ELSE Throw(f)
    BY <1>7 DEF VerifyRootKey
  <2>2. pc[f] = "verify" /\ try[f] \in Tries
    BY <1>1, <1>7 DEF VerifyRootKey, TryOf, LoginSteps
  <2>3. salt' \in Salts /\ draws' \in 0..MaxDraws
    BY <2>1, SaltType
  <2>4. CASE Throw(f)
    BY <1>7, <2>2, <2>3, <2>4, ThrowType DEF VerifyRootKey, TypeOK, Steps, recryption, OpenTyped
  <2>5. CASE /\ Verifies(f, s)
             /\ Goto(f, "recryptAll") /\ UNCHANGED <<base, try>>
    <3>1. try[f].base.sig.key.phrase = try[f].new.phrase
      BY <1>1, <2>2, <2>5 DEF Verifies, Signature, TryOf, Derived
    <3>2. TryOf(f)'
      BY <1>1, <2>2, <2>5, <3>1 DEF TryOf, Goto, LoginSteps, RegisterSteps, Reading, Derived, Verified
    <3>3. Typed
      BY <2>5, <3>2, FrameMoves DEF Steps, LoginSteps, TypeOK
    <3> QED
      BY <1>7, <2>3, <2>5, <3>3 DEF VerifyRootKey, TypeOK, Steps, recryption, OpenTyped
  <2> QED
    BY <2>1, <2>4, <2>5
<1>8. CASE RecryptAll(f)
  <2>1. PICK s \in Salts : HkdfSalt(s) /\ try' = [try EXCEPT ![f].salt = s]
                           /\ failed' = [failed EXCEPT ![f] = (s = None)]
                           /\ todo' = [todo EXCEPT ![f] =
                                IF s = None THEN {} ELSE {k \in Keys : storage[k] # None}]
    BY <1>8 DEF RecryptAll
  <2>2. pc[f] = "recryptAll" /\ try[f] \in Tries
    BY <1>1, <1>8 DEF RecryptAll, TryOf, LoginSteps
  <2>3. /\ try' \in [Frames -> Tries \cup {None}] /\ \A g \in Frames \ {f} : try'[g] = try[g]
        /\ try'[f] \in Tries /\ try'[f].base = try[f].base /\ try'[f].old = try[f].old
        /\ try'[f].new = try[f].new
    BY <2>1, <2>2, TriesUpdate DEF TypeOK
  <2>4. TryOf(f)'
    BY <1>1, <1>8, <2>2, <2>3
    DEF RecryptAll, TryOf, Goto, LoginSteps, RegisterSteps, Reading, Derived, Verified
  <2>5. Typed
    BY <1>8, <2>3, <2>4, FrameMoves DEF RecryptAll, Steps, LoginSteps
  <2>6. salt' \in Salts /\ draws' \in 0..MaxDraws
    BY <2>1, SaltType
  <2>7. failed' \in [Frames -> BOOLEAN] /\ todo' \in [Frames -> SUBSET Keys]
    BY <2>1 DEF TypeOK
  <2>8. writing' \in [Frames -> SUBSET Keys]
    BY <1>8 DEF RecryptAll, TypeOK
  <2> QED
    BY <1>8, <2>5, <2>6, <2>7, <2>8 DEF RecryptAll, TypeOK, Steps, OpenTyped
<1>9. ASSUME NEW k \in Keys, RecryptRead(f, k) PROVE TypeInv'
  <2>1. todo' \in [Frames -> SUBSET Keys] /\ writing' \in [Frames -> SUBSET Keys]
    BY <1>9 DEF RecryptRead, TypeOK
  <2>2. failed' \in [Frames -> BOOLEAN]
    BY <1>9 DEF RecryptRead, TypeOK
  <2>3. TryInv' /\ OpenTyped'
    BY <1>9 DEF RecryptRead, TryInv, TryOf, OpenTyped
  <2> QED
    BY <1>9, <2>1, <2>2, <2>3 DEF RecryptRead, TypeOK, persistent
<1>10. ASSUME NEW k \in Keys, RecryptWrite(f, k) PROVE TypeInv'
  <2>1. try[f].new \in RootKeys /\ try[f] \in Tries
    BY <1>1, <1>10 DEF RecryptWrite, TryOf, LoginSteps, Derived
  <2>2. Sealed(try[f].new, try[f].salt) \in Entries
    BY <2>1, TriesFields DEF Sealed, Vector, Entries, Vectors, RootKeys
  <2>3. storage' \in [Keys -> Entries \cup {None}] /\ writing' \in [Frames -> SUBSET Keys]
    BY <1>10, <2>2 DEF RecryptWrite, TypeOK
  <2>4. TryInv' /\ OpenTyped'
    BY <1>10 DEF RecryptWrite, TryInv, TryOf, OpenTyped
  <2> QED
    BY <1>10, <2>3, <2>4 DEF RecryptWrite, TypeOK
<1>11. CASE RecryptEnd(f)
  <2>1. PICK p \in {"sign", "closing"} : Goto(f, p)
    BY <1>11 DEF RecryptEnd
  <2>2. TryOf(f)'
    BY <1>1, <1>11, <2>1
    DEF RecryptEnd, TryOf, Goto, LoginSteps, RegisterSteps, Reading, Derived, Verified
  <2>3. p \in Steps /\ UNCHANGED try
    BY <1>11 DEF Steps, LoginSteps, RecryptEnd
  <2>4. Typed
    BY <2>1, <2>2, <2>3, FrameMoves DEF TypeOK
  <2>5. session' \in RootKeys \cup {None}
    BY <1>11 DEF RecryptEnd, TypeOK
  <2> QED
    BY <1>11, <2>4, <2>5 DEF RecryptEnd, TypeOK, Steps, persistent, recryption, OpenTyped
<1>12. CASE Sign(f)
  <2>1. PICK s \in Salts :
          /\ HkdfSalt(s)
          /\ IF s = None THEN Throw(f)
                         ELSE /\ try' = [try EXCEPT ![f].salt = s]
                              /\ Goto(f, "setBase") /\ UNCHANGED base
    BY <1>12 DEF Sign
  <2>2. pc[f] = "sign" /\ try[f] \in Tries
    BY <1>1, <1>12 DEF Sign, TryOf, LoginSteps
  <2>3. salt' \in Salts /\ draws' \in 0..MaxDraws
    BY <2>1, SaltType
  <2>4. CASE Throw(f)
    BY <1>12, <2>2, <2>3, <2>4, ThrowType DEF Sign, TypeOK, Steps, recryption, OpenTyped
  <2>5. CASE try' = [try EXCEPT ![f].salt = s] /\ Goto(f, "setBase") /\ UNCHANGED base
    <3>1. /\ try' \in [Frames -> Tries \cup {None}] /\ \A g \in Frames \ {f} : try'[g] = try[g]
          /\ try'[f] \in Tries /\ try'[f].base = try[f].base /\ try'[f].old = try[f].old
          /\ try'[f].new = try[f].new
      BY <2>2, <2>5, TriesUpdate DEF TypeOK
    <3>2. TryOf(f)'
      BY <1>1, <2>2, <2>5, <3>1 DEF TryOf, Goto, LoginSteps, RegisterSteps, Reading, Derived, Verified
    <3>3. Typed
      BY <2>5, <3>1, <3>2, FrameMoves DEF Steps, LoginSteps
    <3> QED
      BY <1>12, <2>3, <2>5, <3>3 DEF Sign, TypeOK, Steps, recryption, OpenTyped
  <2> QED
    BY <2>1, <2>4, <2>5
<1>13. CASE SetBase(f)
  <2>1. try[f] \in Tries /\ try[f].new \in RootKeys
    BY <1>1, <1>13 DEF SetBase, TryOf, LoginSteps, Derived
  <2>2. PICK p \in {"setParams", "setSession"} : Goto(f, p)
    BY <1>13 DEF SetBase
  <2>3. TryOf(f)' /\ p \in Steps
    BY <1>1, <1>13, <2>2
    DEF SetBase, TryOf, Goto, LoginSteps, RegisterSteps, Reading, Derived, Verified, Steps
  <2>4. Typed
    BY <1>13, <2>2, <2>3, FrameMoves DEF SetBase, TypeOK
  <2> QED
    BY <1>13, <2>1, <2>4, NewBaseType DEF SetBase, TypeOK, Steps, recryption, OpenTyped
<1>14. CASE SetParams(f)
  <2>1. try[f].new \in RootKeys
    BY <1>1, <1>14 DEF SetParams, TryOf, Derived
  <2>2. TryOf(f)'
    BY <1>1, <1>14
    DEF SetParams, TryOf, Goto, LoginSteps, RegisterSteps, Reading, Derived, Verified
  <2>3. Typed
    BY <1>14, <2>2, FrameMoves DEF SetParams, Steps, LoginSteps, TypeOK
  <2>4. hashParams' \in Params
    BY <1>14, <2>1 DEF SetParams, RootKeys
  <2> QED
    BY <1>14, <2>3, <2>4 DEF SetParams, TypeOK, Steps, recryption, OpenTyped
<1>15. CASE SetSession(f)
  <2>1. try[f].new \in RootKeys
    BY <1>1, <1>15 DEF SetSession, TryOf, Derived
  <2>2. try' \in [Frames -> Tries \cup {None}] /\ \A g \in Frames \ {f} : try'[g] = try[g]
    BY <1>15 DEF SetSession, TypeOK
  <2>3. TryOf(f)'
    BY <1>1, <1>15
    DEF SetSession, TryOf, Goto, LoginSteps, RegisterSteps, Reading, Derived, Verified
  <2>4. Typed
    BY <1>15, <2>2, <2>3, FrameMoves DEF SetSession, Steps
  <2> QED
    BY <1>15, <2>1, <2>4 DEF SetSession, TypeOK, Steps, persistent, recryption, OpenTyped
<1> QED
  BY <1>2, <1>3, <1>4, <1>5, <1>6, <1>7, <1>8, <1>9, <1>10, <1>11, <1>12, <1>13, <1>14, <1>15
  DEF LoginStep, RegisterStep

\* An open() takes a step.
LEMMA OpenType ==
  ASSUME TypeInv, NEW k \in Keys, Open(k) \/ OpenStep(k)
  PROVE  TypeInv'
<1> USE DEF TypeInv
<1>1. CASE Open(k)
  <2>1. PICK s \in Salts : /\ HkdfSalt(s)
                           /\ opened' = [opened EXCEPT ![k] = Opening(Signature(session, s))]
    BY <1>1 DEF Open
  <2>2. Opening(Signature(session, s)) \in Opens /\ Opening(Signature(session, s)).at = "fetched"
    BY <1>1 DEF Open, Opening, Opens, Signature, Signatures, TypeOK
  <2>3. opened' \in [Keys -> Opens \cup {None}] /\ OpenTyped'
    <3> HIDE DEF TypeInv
    <3> DEFINE o == Opening(Signature(session, s))
    <3> HIDE DEF o
    <3> QED
      BY <2>1, <2>2 DEF TypeInv, TypeOK, OpenTyped, o
  <2>4. salt' \in Salts /\ draws' \in 0..MaxDraws
    BY <2>1, SaltType
  <2> QED
    BY <1>1, <2>3, <2>4 DEF Open, TypeOK, TryInv, TryOf, recryption
<1>2. CASE OpenRead(k)
  <2>1. opened[k] \in Opens /\ [opened[k] EXCEPT !.at = "read"] \in Opens
    BY <1>2 DEF OpenRead, TypeOK, Opens
  <2>2. [opened[k] EXCEPT !.at = "read"].at = "read"
    BY <2>1 DEF Opens
  <2>3. \/ opened' = [opened EXCEPT ![k] = None]
        \/ opened' = [opened EXCEPT ![k] = [opened[k] EXCEPT !.at = "read"]]
    BY <1>2 DEF OpenRead, TypeOK
  <2>4. opened' \in [Keys -> Opens \cup {None}] /\ OpenTyped'
    BY <2>1, <2>2, <2>3 DEF TypeOK, OpenTyped
  <2> QED
    BY <1>2, <2>4 DEF OpenRead, TypeOK, TryInv, TryOf, recryption, persistent
<1>3. CASE OpenVector(k)
  <2> DEFINE o == [opened[k] EXCEPT !.vector = Vector(session), !.at = "set"]
  <2>1. \/ opened' = [opened EXCEPT ![k] = None]
        \/ session # None /\ opened' = [opened EXCEPT ![k] = o]
    BY <1>3 DEF OpenVector, TypeOK
  <2>2. CASE session # None /\ opened' = [opened EXCEPT ![k] = o]
    <3>1. Vector(session) \in Vectors
      BY <2>2 DEF TypeOK, Vector, Vectors, RootKeys
    <3>2. o \in Opens /\ o.vector = Vector(session)
      <4> DEFINE v == Vector(session)
      <4> HIDE DEF v
      <4>1. v \in Vectors
        BY <3>1 DEF v
      <4>2. opened[k] \in Opens
        BY <1>3 DEF OpenVector, TypeOK
      <4>3. /\ [opened[k] EXCEPT !.vector = v, !.at = "set"] \in Opens
            /\ [opened[k] EXCEPT !.vector = v, !.at = "set"].vector = v
        BY <4>1, <4>2 DEF Opens
      <4> QED
        BY <4>3 DEF v
    <3> HIDE DEF o
    <3> QED
      BY <2>2, <3>1, <3>2, <1>3 DEF OpenVector, TypeOK, OpenTyped, TryInv, TryOf, recryption, persistent
  <2> QED
    BY <1>3, <2>1, <2>2 DEF OpenVector, TypeOK, OpenTyped, TryInv, TryOf, recryption, persistent
<1>4. CASE OpenSet(k)
  <2> DEFINE e == [key |-> opened[k].cipher.key, salt |-> opened[k].cipher.salt,
                   vector |-> opened[k].vector]
  <2>1. e \in Entries
    BY <1>4 DEF OpenSet, TypeOK, OpenTyped, Opens, Signatures, Entries
  <2> HIDE DEF e
  <2>2. storage' = [storage EXCEPT ![k] = e] /\ opened' = [opened EXCEPT ![k] = None]
    BY <1>4 DEF OpenSet, e
  <2> QED
    BY <1>4, <2>1, <2>2 DEF OpenSet, TypeOK, OpenTyped, TryInv, TryOf, recryption
<1> QED
  BY <1>1, <1>2, <1>3, <1>4 DEF OpenStep

LEMMA TypeNext == TypeInv /\ [Next]_vars => TypeInv'
<1> SUFFICES ASSUME TypeInv, [Next]_vars PROVE TypeInv'
  OBVIOUS
<1> USE DEF TypeInv
<1>1. ASSUME NEW f \in Frames, NEW ph \in Phrases, RegisterScreen(f, ph) PROVE TypeInv'
  <2>1. try' \in [Frames -> Tries \cup {None}] /\ pc' \in [Frames -> Steps] /\ TryInv'
    BY <1>1, AttemptType DEF RegisterScreen
  <2> QED
    BY <1>1, <2>1 DEF RegisterScreen, TypeOK, Steps, OpenTyped, recryption
<1>2. ASSUME NEW f \in Frames, NEW ph \in Phrases, Authenticate(f, ph) PROVE TypeInv'
  <2>1. try' \in [Frames -> Tries \cup {None}] /\ pc' \in [Frames -> Steps] /\ TryInv'
    BY <1>2, AttemptType DEF Authenticate
  <2> QED
    BY <1>2, <2>1 DEF Authenticate, TypeOK, Steps, OpenTyped, recryption
<1>3. ASSUME NEW f \in Frames, ClearStorage(f) PROVE TypeInv'
  <2>1. pc \in [Frames -> Steps] /\ "idle" \in Steps /\ UNCHANGED try /\ Goto(f, "idle")
    BY <1>3 DEF TypeOK, Steps, ClearStorage
  <2>2. TryOf(f)'
    BY <2>1 DEF TryOf, Goto, LoginSteps, RegisterSteps, Reading, Derived, Verified
  <2>3. TryInv' /\ pc' \in [Frames -> Steps]
    BY <2>1, <2>2, FrameMoves
  <2> QED
    BY <1>3, <2>3 DEF ClearStorage, TypeOK, Steps, OpenTyped, recryption, Salts
<1>4. ASSUME NEW f \in Frames, FactoryReset(f) PROVE TypeInv'
  <2>1. pc \in [Frames -> Steps] /\ "reset" \in Steps /\ UNCHANGED try /\ Goto(f, "reset")
    BY <1>4 DEF TypeOK, Steps, FactoryReset
  <2>2. TryOf(f)'
    BY <2>1 DEF TryOf, Goto, LoginSteps, RegisterSteps, Reading, Derived, Verified
  <2>3. TryInv' /\ pc' \in [Frames -> Steps]
    BY <2>1, <2>2, FrameMoves
  <2> QED
    BY <1>4, <2>3 DEF FactoryReset, TypeOK, Steps, OpenTyped, recryption, persistent
<1>5. ASSUME NEW f \in Frames, Close(f) PROVE TypeInv'
  <2>1. /\ pc \in [Frames -> Steps] /\ "idle" \in Steps /\ Goto(f, "idle")
        /\ try' \in [Frames -> Tries \cup {None}] /\ \A g \in Frames \ {f} : try'[g] = try[g]
    BY <1>5 DEF TypeOK, Steps, Close
  <2>2. TryOf(f)'
    BY <2>1 DEF TryOf, Goto, LoginSteps, RegisterSteps, Reading, Derived, Verified
  <2>3. TryInv' /\ pc' \in [Frames -> Steps]
    BY <2>1, <2>2, FrameMoves
  <2> QED
    BY <1>5, <2>1, <2>3 DEF Close, TypeOK, Steps, OpenTyped, recryption, persistent
<1>6. CASE Restart
  <2>1. TryInv' /\ OpenTyped'
    BY <1>6 DEF Restart, TryInv, TryOf, OpenTyped, LoginSteps, RegisterSteps, Reading, Derived, Verified
  <2> QED
    BY <1>6, <2>1 DEF Restart, TypeOK, persistent
<1>7. CASE Logout
  BY <1>7 DEF Logout, TypeOK, TryInv, TryOf, OpenTyped, persistent, recryption
<1>8. CASE UNCHANGED vars
  BY <1>8 DEF vars, TypeOK, TryInv, TryOf, OpenTyped, persistent, recryption
<1>9. CASE Work
  BY <1>1, <1>2, <1>3, <1>5, <1>9, LoginType, OpenType DEF Work
<1>10. CASE Interruption
  BY <1>4, <1>5, <1>6, <1>7, <1>10 DEF Interruption
<1> QED
  BY <1>8, <1>9, <1>10 DEF Next

\* The vault's keys, its storage, its session and the locals of every login
\* and registration have the types the code gives them, with whatever windows,
\* restarts and builds of the wallet (share/auth.ts, crypto/vault.ts).
THEOREM TypeCorrect == Spec => []TypeOK
<1>1. Spec => []TypeInv
  BY InitTypes, TypeNext, PTL DEF Spec
<1>2. TypeInv => TypeOK
  BY DEF TypeInv
<1> QED
  BY <1>1, <1>2, PTL
-----------------------------------------------------------------------------
(* One login at a time.  The locals of a login agree with the vault, a       *)
(* rotation is committed only with every store sealed by the new key, and a  *)
(* store that is being opened holds the cipher of the base.                  *)

Fresh == \A k \in Keys : storage[k] = None /\ opened[k] = None
NoneOpen == \A k \in Keys : opened[k] = None
SealedWith(key) == \A k \in Keys : storage[k] \in {None, Sealed(key, salt)}

OneWindow == \A f, g \in Frames : pc[f] # "idle" /\ pc[g] # "idle" => f = g
Locked    == \A f \in Frames : pc[f] # "idle" => session = None

\* The vault has a salt and its signature; without a base there is no data.
Vault ==
  /\ base = None => Fresh
  /\ base # None => salt # None /\ base.sig.salt = salt

OpenOf(k) == opened[k] # None =>
  /\ base # None /\ opened[k].cipher = base.sig
  /\ opened[k].at = "set" => opened[k].vector = Vector(base.sig.key)

Rotating  == {"verify", "recryptAll", "recrypt", "sign", "setBase", "closing"}
Sealing   == {"recrypt", "sign", "setBase", "closing"}
Committed == {"setParams", "setSession"}

\* Where a login or registration stands, and what it has done by then.
CalmOf(f) ==
  /\ pc[f] \in RegisterSteps => base = None
  /\ pc[f] = "regSet" => salt # None /\ try[f].salt = salt
  /\ pc[f] \in {"getBase", "derive", "verify"} /\ try[f].registering => Fresh
  /\ pc[f] \in Rotating \cup {"derive"} => base # None /\ try[f].base = base
  /\ pc[f] \in Sealing => try[f].salt = salt
  /\ pc[f] \in Sealing \cup Committed => NoneOpen
  /\ pc[f] = "recrypt" /\ ~failed[f] =>
       \A k \in Keys \ (todo[f] \cup writing[f]) :
         storage[k] \in {None, Sealed(try[f].new, salt)}
  /\ pc[f] \in {"sign", "setBase"} => SealedWith(try[f].new)
  /\ pc[f] \in Committed =>
       /\ base # None /\ base.sig = Signature(try[f].new, salt)
       /\ SealedWith(try[f].new)

CalmInv ==
  /\ TypeInv /\ OneWindow /\ Locked /\ Vault /\ SessionReadsAll
  /\ \A k \in Keys : OpenOf(k)
  /\ \A f \in Frames : CalmOf(f)

LEMMA CalmInit == Init => CalmInv
<1> SUFFICES ASSUME Init PROVE CalmInv
  OBVIOUS
<1>1. OneWindow /\ Locked /\ Vault /\ SessionReadsAll /\ \A k \in Keys : OpenOf(k)
  BY DEF Init, OneWindow, Locked, Vault, Fresh, SessionReadsAll, OpenOf
<1>2. \A f \in Frames : CalmOf(f)
  BY DEF Init, CalmOf, RegisterSteps, Rotating, Sealing, Committed
<1> QED
  BY <1>1, <1>2, InitTypes DEF CalmInv

\* The one window that is not idle moves.
LEMMA OneMoves ==
  ASSUME CalmInv, NEW f \in Frames, pc[f] # "idle" \/ Alone(f),
         NEW p \in Steps, Goto(f, p) \/ (UNCHANGED pc /\ p = pc[f]),
         CalmOf(f)', p = "idle" \/ session' = None
  PROVE  OneWindow' /\ Locked' /\ (\A g \in Frames : CalmOf(g)')
<1>1. \A g \in Frames \ {f} : pc[g] = "idle"
  BY DEF CalmInv, OneWindow, Alone
<1>2. pc'[f] = p /\ \A g \in Frames \ {f} : pc'[g] = "idle"
  BY <1>1 DEF CalmInv, TypeInv, TypeOK, Goto, Steps
<1>3. \A g \in Frames \ {f} : CalmOf(g)'
  BY <1>2 DEF CalmOf, RegisterSteps, Rotating, Sealing, Committed
<1> QED
  BY <1>2, <1>3 DEF OneWindow, Locked

\* A vault that has a base keeps its salt.
LEMMA SaltKept ==
  ASSUME NEW s, HkdfSalt(s), base # None
  PROVE  s = salt /\ salt' = salt
BY DEF HkdfSalt

\* A login throws before it has touched the stores.
LEMMA ThrowCalm ==
  ASSUME CalmInv, NEW f \in Frames, pc[f] \in {"getBase", "derive", "verify"}, Throw(f),
         UNCHANGED <<storage, opened, session>>, base # None => UNCHANGED salt
  PROVE  /\ OneWindow' /\ Locked' /\ Vault' /\ SessionReadsAll'
         /\ (\A k \in Keys : OpenOf(k)') /\ (\A g \in Frames : CalmOf(g)')
<1>1. session = None /\ CalmOf(f)
  BY DEF CalmInv, Locked
<1>2. Goto(f, "idle") /\ "idle" \in Steps /\ pc'[f] = "idle"
  BY DEF Throw, Goto, Steps, CalmInv, TypeInv, TypeOK
<1>3. CalmOf(f)'
  BY <1>2 DEF CalmOf, RegisterSteps, Rotating, Sealing, Committed
<1>4. OneWindow' /\ Locked' /\ (\A g \in Frames : CalmOf(g)')
  BY <1>1, <1>2, <1>3, OneMoves
<1>5. CASE base' = None
  <2>1. Fresh
    BY <1>1, <1>5 DEF Throw, CalmOf, CalmInv, Vault
  <2> QED
    BY <1>1, <1>4, <1>5, <2>1 DEF Vault, Fresh, SessionReadsAll, OpenOf
<1>6. CASE base' # None
  <2>1. base' = base /\ salt' = salt
    BY <1>6 DEF Throw
  <2> QED
    BY <1>1, <1>4, <2>1 DEF CalmInv, Vault, Fresh, SessionReadsAll, OpenOf
<1> QED
  BY <1>5, <1>6

\* A step of a login or registration, alone in its window.
LEMMA CalmLogin ==
  ASSUME ~Twins, CalmInv, NEW f \in Frames, LoginStep(f) \/ RegisterStep(f), TypeInv'
  PROVE  CalmInv'
<1> DEFINE Frame == OneWindow' /\ Locked' /\ (\A g \in Frames : CalmOf(g)')
           Rest  == Vault' /\ SessionReadsAll' /\ (\A k \in Keys : OpenOf(k)')
<1>1. /\ pc \in [Frames -> Steps] /\ try \in [Frames -> Tries \cup {None}]
      /\ CalmOf(f) /\ TryOf(f) /\ TypeOK
      /\ todo \in [Frames -> SUBSET Keys] /\ writing \in [Frames -> SUBSET Keys]
      /\ failed \in [Frames -> BOOLEAN]
  BY DEF CalmInv, TypeInv, TryInv, TypeOK, Steps
<1>2. SUFFICES Frame /\ Rest
  BY DEF CalmInv
<1>3. pc[f] # "idle" /\ pc[f] # "reset"
  BY DEF LoginStep, RegisterStep, Register, RegisterSign, RegisterSet, GetBase, DeriveRootKeys,
    VerifyRootKey, RecryptAll, RecryptRead, RecryptWrite, RecryptEnd, Sign, SetBase, SetParams, SetSession
<1>4. session = None
  BY <1>3 DEF CalmInv, Locked
<1>5. CASE Register(f)
  <2>1. PICK p \in {"idle", "regSign"} : Goto(f, p) /\ pc'[f] = p
    BY <1>1, <1>5 DEF Register, Goto
  <2>2. CalmOf(f)' /\ p \in Steps
    BY <1>1, <1>5, <2>1
    DEF Register, CalmOf, RegisterSteps, Rotating, Sealing, Committed, persistent, Steps, recryption
  <2>3. Frame
    BY <1>3, <1>4, <1>5, <2>1, <2>2, OneMoves DEF Register
  <2> QED
    BY <1>5, <2>3 DEF Register, CalmInv, Vault, Fresh, SessionReadsAll, OpenOf, persistent
<1>6. CASE RegisterSign(f)
  <2>1. PICK s \in Salts : HkdfSalt(s) /\ try' = [try EXCEPT ![f].salt = s]
    BY <1>6 DEF RegisterSign
  <2>2. base = None /\ Fresh /\ try[f] \in Tries
    BY <1>1, <1>6 DEF CalmOf, TryOf, RegisterSign, RegisterSteps, CalmInv, Vault
  <2>3. s = draws + 1 /\ salt' = s /\ s # None
    BY <1>1, <2>1, <2>2, LoginAssumption DEF HkdfSalt, TypeOK, LoginAssumption
  <2>4. Goto(f, "regSet") /\ pc'[f] = "regSet" /\ "regSet" \in Steps
    BY <1>1, <1>6 DEF RegisterSign, Goto, Steps, RegisterSteps
  <2>5. try'[f].salt = s
    BY <1>1, <2>1, <2>2, TriesUpdate
  <2>6. CalmOf(f)'
    BY <1>6, <2>2, <2>3, <2>4, <2>5
    DEF RegisterSign, CalmOf, RegisterSteps, Rotating, Sealing, Committed
  <2>7. Frame
    BY <1>3, <1>4, <1>6, <2>4, <2>6, OneMoves DEF RegisterSign
  <2> QED
    BY <1>4, <1>6, <2>2, <2>7 DEF RegisterSign, Vault, Fresh, SessionReadsAll, OpenOf
<1>7. CASE RegisterSet(f)
  <2>1. base = None /\ Fresh /\ salt # None /\ try[f].salt = salt
    BY <1>1, <1>7 DEF CalmOf, RegisterSet, RegisterSteps, CalmInv, Vault
  <2>2. Goto(f, "getBase") /\ pc'[f] = "getBase" /\ "getBase" \in Steps
    BY <1>1, <1>7 DEF RegisterSet, Goto, Steps, LoginSteps
  <2>3. Fresh' /\ base' = NewBase(f) /\ UNCHANGED <<salt, session>>
    BY <1>7, <2>1 DEF RegisterSet, Fresh
  <2>4. CalmOf(f)'
    BY <2>2, <2>3 DEF CalmOf, RegisterSteps, Rotating, Sealing, Committed
  <2>5. Frame
    BY <1>3, <1>4, <2>2, <2>3, <2>4, OneMoves
  <2>6. NewBase(f).sig.salt = salt
    BY <2>1 DEF NewBase, Signature
  <2> QED
    BY <1>4, <2>1, <2>3, <2>5, <2>6 DEF Vault, Fresh, SessionReadsAll, OpenOf
<1>8. CASE GetBase(f)
  <2>1. pc[f] = "getBase" /\ UNCHANGED <<storage, opened, session, salt>>
    BY <1>8 DEF GetBase
  <2>2. CASE Throw(f)
    BY <2>1, <2>2, ThrowCalm
  <2>3. CASE /\ base # None /\ UNCHANGED base
             /\ try' = [try EXCEPT ![f].base = base] /\ Goto(f, "derive")
    <3>1. pc'[f] = "derive" /\ "derive" \in Steps /\ try[f] \in Tries /\ base \in Bases
      BY <1>1, <2>1, <2>3 DEF Goto, Steps, LoginSteps, TryOf, TypeOK
    <3>2. try'[f].base = base /\ try'[f].registering = try[f].registering
      BY <1>1, <2>3, <3>1, TriesUpdate
    <3>3. CalmOf(f)'
      BY <1>1, <2>1, <2>3, <3>1, <3>2
      DEF CalmOf, RegisterSteps, Rotating, Sealing, Committed, Fresh
    <3>4. Frame
      BY <1>3, <1>4, <2>1, <2>3, <3>1, <3>3, OneMoves
    <3> QED
      BY <1>4, <2>1, <2>3, <3>4 DEF CalmInv, Vault, Fresh, SessionReadsAll, OpenOf
  <2> QED
    BY <1>8, <2>2, <2>3 DEF GetBase
<1>9. CASE DeriveRootKeys(f)
  <2>1. pc[f] = "derive" /\ UNCHANGED <<storage, opened, session, salt>>
    BY <1>9 DEF DeriveRootKeys
  <2>2. CASE Throw(f)
    BY <2>1, <2>2, ThrowCalm
  <2>3. CASE ~Throw(f)
    <3>1. PICK o, n : UNCHANGED base /\ try' = [try EXCEPT ![f].old = o, ![f].new = n] /\ Goto(f, "verify")
      BY <1>9, <2>3 DEF DeriveRootKeys
    <3>2. pc'[f] = "verify" /\ "verify" \in Steps /\ try[f] \in Tries
      BY <1>1, <2>1, <3>1 DEF Goto, Steps, LoginSteps, TryOf
    <3>3. try'[f].base = try[f].base /\ try'[f].registering = try[f].registering
      BY <1>1, <3>1, <3>2 DEF Tries
    <3>4. CalmOf(f)'
      BY <1>1, <2>1, <3>1, <3>2, <3>3
      DEF CalmOf, RegisterSteps, Rotating, Sealing, Committed, Fresh
    <3>5. Frame
      BY <1>3, <1>4, <2>1, <3>1, <3>2, <3>4, OneMoves
    <3> QED
      BY <1>4, <2>1, <3>1, <3>5 DEF CalmInv, Vault, Fresh, SessionReadsAll, OpenOf
  <2> QED
    BY <2>2, <2>3
<1>10. CASE VerifyRootKey(f)
  <2>1. PICK s \in Salts :
          /\ HkdfSalt(s)
          /\ \/ Goto(f, "recryptAll") /\ UNCHANGED <<base, try>>
             \/ Throw(f)
    BY <1>10 DEF VerifyRootKey
  <2>2. pc[f] = "verify" /\ base # None /\ UNCHANGED <<storage, opened, session>>
    BY <1>1, <1>10 DEF VerifyRootKey, CalmOf, Rotating
  <2>3. salt' = salt
    BY <2>1, <2>2, SaltKept
  <2>4. CASE Throw(f)
    BY <2>2, <2>3, <2>4, ThrowCalm
  <2>5. CASE Goto(f, "recryptAll") /\ UNCHANGED <<base, try>>
    <3>1. pc'[f] = "recryptAll" /\ "recryptAll" \in Steps
      BY <1>1, <2>5 DEF Goto, Steps, LoginSteps
    <3>2. CalmOf(f)'
      BY <1>1, <2>2, <2>5, <3>1 DEF CalmOf, RegisterSteps, Rotating, Sealing, Committed
    <3>3. Frame
      BY <1>3, <1>4, <2>2, <2>5, <3>1, <3>2, OneMoves
    <3> QED
      BY <1>4, <2>2, <2>3, <2>5, <3>3 DEF CalmInv, Vault, Fresh, SessionReadsAll, OpenOf
  <2> QED
    BY <2>1, <2>4, <2>5
<1>11. CASE RecryptAll(f)
  <2>1. PICK s \in Salts : HkdfSalt(s) /\ try' = [try EXCEPT ![f].salt = s]
                           /\ failed' = [failed EXCEPT ![f] = (s = None)]
                           /\ todo' = [todo EXCEPT ![f] =
                                IF s = None THEN {} ELSE {k \in Keys : storage[k] # None}]
    BY <1>11 DEF RecryptAll
  <2>2. /\ pc[f] = "recryptAll" /\ base # None /\ try[f] \in Tries /\ try[f].base = base /\ salt # None
        /\ NoneOpen /\ UNCHANGED <<base, storage, opened, session>>
    BY <1>1, <1>11
    DEF RecryptAll, NoOldOpens, CalmOf, Rotating, TryOf, LoginSteps, CalmInv, Vault, NoneOpen
  <2>3. s = salt /\ salt' = salt
    BY <2>1, <2>2, SaltKept
  <2>4. /\ try'[f].salt = salt /\ try'[f].base = base /\ try'[f].new = try[f].new
        /\ try'[f].registering = try[f].registering
    BY <1>1, <2>1, <2>2, <2>3, TriesUpdate
  <2>5. todo'[f] = {k \in Keys : storage[k] # None}
    BY <1>1, <2>1, <2>2, <2>3
  <2>6. Goto(f, "recrypt") /\ pc'[f] = "recrypt" /\ "recrypt" \in Steps
    BY <1>1, <1>11 DEF RecryptAll, Goto, Steps, LoginSteps
  <2>7. CalmOf(f)'
    BY <2>2, <2>3, <2>4, <2>5, <2>6
    DEF CalmOf, RegisterSteps, Rotating, Sealing, Committed, NoneOpen
  <2>8. Frame
    BY <1>3, <1>4, <2>2, <2>6, <2>7, OneMoves
  <2> QED
    BY <1>4, <2>2, <2>3, <2>8 DEF CalmInv, Vault, Fresh, SessionReadsAll, OpenOf
<1>12. ASSUME NEW k \in Keys, RecryptRead(f, k) PROVE Frame /\ Rest
  <2> DEFINE readable == storage[k] \in {Sealed(try[f].old, try[f].salt), Sealed(try[f].new, try[f].salt)}
  <2>1. /\ pc[f] = "recrypt" /\ try[f].salt = salt /\ k \in todo[f]
        /\ UNCHANGED <<persistent, session, opened, pc, try>>
        /\ todo'[f] = todo[f] \ {k}
        /\ writing'[f] = IF storage[k] # None /\ readable THEN writing[f] \cup {k} ELSE writing[f]
        /\ failed'[f] = (failed[f] \/ (storage[k] # None /\ ~readable))
    BY <1>1, <1>12 DEF RecryptRead, CalmOf, Sealing
  <2>2. ~failed'[f] => /\ ~failed[f]
                       /\ \A j \in Keys \ (todo'[f] \cup writing'[f]) :
                            j \notin todo[f] \cup writing[f] \/ storage[j] = None
    BY <2>1
  <2> HIDE DEF readable
  <2>3. CalmOf(f)'
    BY <1>1, <2>1, <2>2
    DEF CalmOf, RegisterSteps, Rotating, Sealing, Committed, NoneOpen, persistent, Sealed
  <2>4. Frame
    BY <1>1, <1>3, <1>4, <2>1, <2>3, OneMoves
  <2> QED
    BY <1>4, <2>1, <2>4 DEF CalmInv, Vault, Fresh, SessionReadsAll, OpenOf, persistent
<1>13. ASSUME NEW k \in Keys, RecryptWrite(f, k) PROVE Frame /\ Rest
  <2>1. /\ pc[f] \in {"recrypt", "closing"} /\ try[f].salt = salt /\ base # None /\ NoneOpen
        /\ storage' = [storage EXCEPT ![k] = Sealed(try[f].new, salt)]
        /\ writing'[f] = writing[f] \ {k}
        /\ UNCHANGED <<base, salt, session, opened, pc, try, todo, failed>>
    BY <1>1, <1>13 DEF RecryptWrite, CalmOf, Sealing, Rotating
  <2>2. storage'[k] = Sealed(try[f].new, salt) /\ \A j \in Keys \ {k} : storage'[j] = storage[j]
    BY <1>1, <2>1 DEF TypeOK
  <2>3. CalmOf(f)'
    BY <1>1, <2>1, <2>2
    DEF CalmOf, RegisterSteps, Rotating, Sealing, Committed, NoneOpen, Sealed
  <2>4. Frame
    BY <1>1, <1>3, <1>4, <2>1, <2>3, OneMoves
  <2> QED
    BY <1>4, <2>1, <2>4 DEF CalmInv, Vault, Fresh, SessionReadsAll, OpenOf
<1>14. CASE RecryptEnd(f)
  <2>1. /\ pc[f] = "recrypt" /\ session' = None
        /\ UNCHANGED <<base, salt, storage, opened, try, todo, writing, failed>>
    BY <1>4, <1>14 DEF RecryptEnd, persistent, recryption
  <2>2. PICK p \in {"sign", "closing"} :
          /\ Goto(f, p) /\ p \in Steps
          /\ p = "sign" => ~failed[f] /\ todo[f] = {} /\ writing[f] = {}
    BY <1>14 DEF RecryptEnd, Steps, LoginSteps
  <2>3. pc'[f] = p
    BY <1>1, <2>2 DEF Goto
  <2>4. CalmOf(f)'
    BY <1>1, <2>1, <2>2, <2>3
    DEF CalmOf, RegisterSteps, Rotating, Sealing, Committed, NoneOpen, Sealed, SealedWith
  <2>5. Frame
    BY <1>3, <1>4, <2>1, <2>2, <2>4, OneMoves
  <2> QED
    BY <1>4, <2>1, <2>5 DEF CalmInv, Vault, Fresh, SessionReadsAll, OpenOf
<1>15. CASE Sign(f)
  <2>1. /\ pc[f] = "sign" /\ base # None /\ try[f] \in Tries /\ try[f].base = base /\ salt # None
        /\ NoneOpen /\ SealedWith(try[f].new) /\ UNCHANGED <<storage, opened, session>>
    BY <1>1, <1>15 DEF Sign, CalmOf, Rotating, Sealing, TryOf, LoginSteps, CalmInv, Vault
  <2>2. /\ salt' = salt /\ try' = [try EXCEPT ![f].salt = salt]
        /\ Goto(f, "setBase") /\ UNCHANGED base
    BY <1>15, <2>1, SaltKept DEF Sign
  <2>3. try'[f].salt = salt /\ try'[f].base = base /\ try'[f].new = try[f].new
    BY <1>1, <2>1, <2>2, TriesUpdate DEF TypeOK
  <2>4. pc'[f] = "setBase" /\ "setBase" \in Steps
    BY <1>1, <2>2 DEF Goto, Steps, LoginSteps
  <2>5. CalmOf(f)'
    BY <2>1, <2>2, <2>3, <2>4
    DEF CalmOf, RegisterSteps, Rotating, Sealing, Committed, NoneOpen, SealedWith
  <2>6. Frame
    BY <1>3, <1>4, <2>1, <2>2, <2>4, <2>5, OneMoves
  <2> QED
    BY <1>4, <2>1, <2>2, <2>6 DEF CalmInv, Vault, Fresh, SessionReadsAll, OpenOf
<1>16. CASE SetBase(f)
  <2>1. /\ base' = NewBase(f) /\ NoneOpen /\ SealedWith(try[f].new) /\ salt # None /\ try[f].salt = salt
        /\ UNCHANGED <<salt, storage, opened, session, try>>
    BY <1>1, <1>16 DEF SetBase, CalmOf, Rotating, Sealing, CalmInv, Vault
  <2>2. NewBase(f) \in Bases
    BY <1>1, <1>16, NewBaseType DEF SetBase, TryOf, LoginSteps, Derived
  <2>3. NewBase(f).sig = Signature(try[f].new, salt) /\ NewBase(f).sig.salt = salt
    BY <2>1 DEF NewBase, Signature
  <2>4. PICK p \in Committed : Goto(f, p) /\ pc'[f] = p /\ p \in Steps
    BY <1>1, <1>16 DEF SetBase, Goto, Committed, Steps, LoginSteps
  <2>5. CalmOf(f)'
    BY <2>1, <2>2, <2>3, <2>4, BaseAssumption
    DEF CalmOf, RegisterSteps, Rotating, Sealing, Committed, NoneOpen, SealedWith
  <2>6. Frame
    BY <1>3, <1>4, <2>1, <2>4, <2>5, OneMoves
  <2> QED
    BY <1>4, <2>1, <2>2, <2>3, <2>6, BaseAssumption
    DEF Vault, SessionReadsAll, OpenOf, NoneOpen
<1>17. CASE SetParams(f)
  <2>1. pc[f] = "setParams" /\ UNCHANGED <<base, salt, storage, opened, session, try>>
    BY <1>17 DEF SetParams
  <2>2. Goto(f, "setSession") /\ pc'[f] = "setSession" /\ "setSession" \in Steps
    BY <1>1, <1>17 DEF SetParams, Goto, Steps, LoginSteps
  <2>3. CalmOf(f)'
    BY <1>1, <2>1, <2>2
    DEF CalmOf, RegisterSteps, Rotating, Sealing, Committed, NoneOpen, SealedWith
  <2>4. Frame
    BY <1>3, <1>4, <2>1, <2>2, <2>3, OneMoves
  <2> QED
    BY <1>4, <2>1, <2>4 DEF CalmInv, Vault, Fresh, SessionReadsAll, OpenOf
<1>18. CASE SetSession(f)
  <2>1. /\ session' = try[f].new /\ UNCHANGED <<base, salt, storage, opened>>
        /\ base # None /\ base.sig = Signature(try[f].new, salt) /\ SealedWith(try[f].new)
    BY <1>1, <1>18 DEF SetSession, CalmOf, Committed, persistent
  <2>2. Goto(f, "idle") /\ pc'[f] = "idle" /\ "idle" \in Steps
    BY <1>1, <1>18 DEF SetSession, Goto, Steps
  <2>3. CalmOf(f)'
    BY <2>2 DEF CalmOf, RegisterSteps, Rotating, Sealing, Committed
  <2>4. Frame
    BY <1>3, <2>2, <2>3, OneMoves
  <2> QED
    BY <2>1, <2>4 DEF CalmInv, Vault, Fresh, SessionReadsAll, OpenOf, SealedWith
<1> QED
  BY <1>5, <1>6, <1>7, <1>8, <1>9, <1>10, <1>11, <1>12, <1>13, <1>14, <1>15, <1>16, <1>17, <1>18
  DEF LoginStep, RegisterStep

\* A store is opened with the cipher and the vector of the one session.
LEMMA CalmOpen ==
  ASSUME CalmInv, NEW k \in Keys, Open(k) \/ OpenStep(k), TypeInv'
  PROVE  CalmInv'
<1>1. UNCHANGED <<base, hashParams, session, pc, try, todo, writing, failed>>
  BY DEF Open, OpenStep, OpenRead, OpenVector, OpenSet, persistent, recryption
<1>2. salt' = salt /\ base # None
  BY SaltKept DEF Open, OpenStep, OpenRead, OpenVector, OpenSet, persistent, CalmInv, SessionReadsAll,
    OpenOf
<1>3. OpenOf(k)' /\ \A j \in Keys \ {k} : opened'[j] = opened[j] /\ storage'[j] = storage[j]
  <2>1. opened \in [Keys -> Opens \cup {None}] /\ storage \in [Keys -> Entries \cup {None}] /\ OpenOf(k)
    BY DEF CalmInv, TypeInv, TypeOK
  <2>2. CASE Open(k)
    <3>1. opened' = [opened EXCEPT ![k] = Opening(Signature(session, salt))] /\ storage' = storage
      BY <1>2, <2>2, SaltKept DEF Open
    <3>2. session # None /\ base.sig = Signature(session, salt)
      BY <2>2 DEF Open, CalmInv, SessionReadsAll
    <3>3. /\ Opening(Signature(session, salt)).cipher = Signature(session, salt)
          /\ Opening(Signature(session, salt)).at = "fetched"
      BY DEF Opening
    <3> QED
      BY <1>1, <1>2, <2>1, <3>1, <3>2, <3>3 DEF OpenOf
  <2>3. CASE OpenRead(k)
    <3>1. opened[k] \in Opens /\ storage' = storage /\ opened[k] # None
      BY <2>1, <2>3 DEF OpenRead, persistent
    <3>2. \/ opened' = [opened EXCEPT ![k] = None]
          \/ opened' = [opened EXCEPT ![k] = [opened[k] EXCEPT !.at = "read"]]
      BY <2>1, <2>3 DEF OpenRead
    <3>3. /\ [opened[k] EXCEPT !.at = "read"].at = "read"
          /\ [opened[k] EXCEPT !.at = "read"].cipher = opened[k].cipher
      BY <3>1 DEF Opens
    <3> QED
      BY <1>1, <1>2, <2>1, <3>1, <3>2, <3>3 DEF OpenOf
  <2>4. CASE OpenVector(k)
    <3>1. opened[k] \in Opens /\ storage' = storage /\ opened[k] # None
      BY <2>1, <2>4 DEF OpenVector, persistent
    <3> DEFINE v == Vector(session)
               o == [opened[k] EXCEPT !.vector = v, !.at = "set"]
    <3>2. \/ opened' = [opened EXCEPT ![k] = None]
          \/ session # None /\ opened' = [opened EXCEPT ![k] = o]
      BY <2>1, <2>4 DEF OpenVector
    <3> HIDE DEF v
    <3>3. o.vector = v /\ o.cipher = opened[k].cipher
      BY <3>1 DEF Opens
    <3>4. session # None => v = Vector(base.sig.key)
      BY DEF CalmInv, SessionReadsAll, Signature, v
    <3>5. UNCHANGED base
      BY <1>1
    <3> HIDE DEF o
    <3> QED
      BY <1>2, <2>1, <3>1, <3>2, <3>3, <3>4, <3>5 DEF OpenOf, Vector
  <2>5. CASE OpenSet(k)
    BY <1>1, <1>2, <2>1, <2>5 DEF OpenOf, OpenSet
  <2> QED
    BY <2>2, <2>3, <2>4, <2>5 DEF OpenStep
<1>4. \A j \in Keys : OpenOf(j)'
  BY <1>1, <1>3 DEF CalmInv, OpenOf
<1>5. storage'[k] \in {storage[k], Sealed(base.sig.key, salt)}
  <2>1. CASE OpenSet(k)
    BY <1>2, <2>1 DEF OpenSet, CalmInv, OpenOf, Sealed, Vault, TypeInv, TypeOK
  <2> QED
    BY <2>1 DEF Open, OpenStep, OpenRead, OpenVector, persistent
<1>6. SessionReadsAll'
  BY <1>1, <1>2, <1>3, <1>5 DEF CalmInv, SessionReadsAll, Signature
<1>7. \A f \in Frames : CalmOf(f)'
  <2> TAKE f \in Frames
  <2>1. CalmOf(f)
    BY DEF CalmInv
  <2>2. CASE ~NoneOpen
    <3>1. pc[f] \notin Sealing \cup Committed \cup RegisterSteps
          /\ ~(pc[f] \in {"getBase", "derive", "verify"} /\ try[f].registering)
      BY <1>2, <2>1, <2>2 DEF CalmOf, NoneOpen, Fresh
    <3> QED
      BY <1>1, <1>2, <2>1, <3>1 DEF CalmOf, RegisterSteps, Sealing, Committed
  <2>3. CASE NoneOpen
    <3>1. Open(k) /\ session # None
      BY <2>3 DEF NoneOpen, OpenStep, OpenRead, OpenVector, OpenSet, Open
    <3>2. pc[f] = "idle"
      BY <3>1 DEF CalmInv, Locked
    <3> QED
      BY <1>1, <3>2 DEF CalmOf, RegisterSteps, Rotating, Sealing, Committed
  <2> QED
    BY <2>2, <2>3
<1> QED
  BY <1>1, <1>2, <1>4, <1>6, <1>7 DEF CalmInv, OneWindow, Locked, Vault

LEMMA CalmNext == ~Twins /\ CalmInv /\ [Next]_vars => CalmInv'
<1> SUFFICES ASSUME ~Twins, CalmInv, [Next]_vars PROVE CalmInv'
  OBVIOUS
<1>1. TypeInv' /\ TypeOK
  BY TypeNext DEF CalmInv, TypeInv
<1> DEFINE Frame == OneWindow' /\ Locked' /\ (\A g \in Frames : CalmOf(g)')
           Rest  == Vault' /\ SessionReadsAll' /\ (\A k \in Keys : OpenOf(k)')
<1>2. ASSUME NEW f \in Frames, NEW ph \in Phrases, RegisterScreen(f, ph) PROVE Frame /\ Rest
  <2>1. /\ base = None /\ Fresh /\ Alone(f) /\ session = None
        /\ UNCHANGED <<base, salt, storage, session, opened>>
    BY <1>2 DEF RegisterScreen, CalmInv, Vault, SessionReadsAll
  <2>2. Goto(f, "register") /\ pc'[f] = "register" /\ "register" \in Steps
    BY <1>1, <1>2 DEF RegisterScreen, Goto, TypeOK, Steps, RegisterSteps
  <2>3. CalmOf(f)'
    BY <2>1, <2>2 DEF CalmOf, RegisterSteps, Rotating, Sealing, Committed
  <2>4. Frame
    BY <2>1, <2>2, <2>3, OneMoves
  <2> QED
    BY <2>1, <2>4 DEF Vault, Fresh, SessionReadsAll, OpenOf
<1>3. ASSUME NEW f \in Frames, NEW ph \in Phrases, Authenticate(f, ph) PROVE Frame /\ Rest
  <2>1. Alone(f) /\ session = None /\ UNCHANGED <<base, salt, storage, session, opened>>
    BY <1>3 DEF Authenticate
  <2>2. Goto(f, "getBase") /\ pc'[f] = "getBase" /\ "getBase" \in Steps
    BY <1>1, <1>3 DEF Authenticate, Goto, TypeOK, Steps, LoginSteps
  <2>3. try'[f].registering = FALSE
    BY <1>1, <1>3 DEF Authenticate, Attempt, TypeOK
  <2>4. CalmOf(f)'
    BY <2>2, <2>3 DEF CalmOf, RegisterSteps, Rotating, Sealing, Committed
  <2>5. Frame
    BY <2>1, <2>2, <2>4, OneMoves
  <2> QED
    BY <2>1, <2>5 DEF CalmInv, Vault, Fresh, SessionReadsAll, OpenOf
<1>4. ASSUME NEW f \in Frames, ClearStorage(f) PROVE Frame /\ Rest
  <2>1. /\ pc[f] = "reset" /\ session = None /\ Fresh' /\ base' = None /\ session' = None
    BY <1>4 DEF ClearStorage, CalmInv, Locked, Fresh
  <2>2. Goto(f, "idle") /\ pc'[f] = "idle" /\ "idle" \in Steps
    BY <1>1, <1>4 DEF ClearStorage, Goto, TypeOK, Steps
  <2>3. CalmOf(f)'
    BY <2>2 DEF CalmOf, RegisterSteps, Rotating, Sealing, Committed
  <2>4. Frame
    BY <2>1, <2>2, <2>3, OneMoves
  <2> QED
    BY <2>1, <2>4 DEF Vault, Fresh, SessionReadsAll, OpenOf
<1>5. ASSUME NEW f \in Frames, FactoryReset(f) PROVE Frame /\ Rest
  <2>1. Alone(f) /\ session' = None /\ UNCHANGED <<base, salt, storage, opened>>
    BY <1>5 DEF FactoryReset, persistent
  <2>2. Goto(f, "reset") /\ pc'[f] = "reset" /\ "reset" \in Steps
    BY <1>1, <1>5 DEF FactoryReset, Goto, TypeOK, Steps
  <2>3. CalmOf(f)'
    BY <2>2 DEF CalmOf, RegisterSteps, LoginSteps, Rotating, Sealing, Committed
  <2>4. Frame
    BY <2>1, <2>2, <2>3, OneMoves
  <2> QED
    BY <2>1, <2>4 DEF CalmInv, Vault, Fresh, SessionReadsAll, OpenOf
<1>6. ASSUME NEW f \in Frames, Close(f) PROVE Frame /\ Rest
  <2>1. pc[f] # "idle" /\ UNCHANGED <<base, salt, storage, session, opened>>
    BY <1>6 DEF Close, persistent
  <2>2. Goto(f, "idle") /\ pc'[f] = "idle" /\ "idle" \in Steps
    BY <1>1, <1>6 DEF Close, Goto, TypeOK, Steps
  <2>3. CalmOf(f)'
    BY <2>2 DEF CalmOf, RegisterSteps, Rotating, Sealing, Committed
  <2>4. Frame
    BY <2>1, <2>2, <2>3, OneMoves
  <2> QED
    BY <2>1, <2>4 DEF CalmInv, Vault, Fresh, SessionReadsAll, OpenOf
<1>7. CASE Restart
  <2>1. /\ session' = None /\ \A f \in Frames : pc'[f] = "idle"
        /\ UNCHANGED <<base, salt, storage>> /\ \A k \in Keys : opened'[k] = None
    BY <1>7 DEF Restart, persistent
  <2>2. Frame
    BY <2>1 DEF OneWindow, Locked, CalmOf, RegisterSteps, Rotating, Sealing, Committed
  <2> QED
    BY <1>1, <2>1, <2>2 DEF CalmInv, Vault, Fresh, SessionReadsAll, OpenOf
<1>8. CASE Logout \/ UNCHANGED vars
  <2>1. session' \in {None, session}
        /\ UNCHANGED <<base, salt, storage, opened, pc, try, todo, writing, failed>>
    BY <1>8 DEF Logout, vars, persistent, recryption
  <2> QED
    BY <1>1, <2>1 DEF CalmInv, OneWindow, Locked, CalmOf, Vault, Fresh, SessionReadsAll, OpenOf, NoneOpen,
      SealedWith
<1>9. CASE Work
  BY <1>1, <1>2, <1>3, <1>4, <1>6, <1>9, CalmLogin, CalmOpen DEF Work, CalmInv
<1>10. CASE Interruption
  BY <1>1, <1>5, <1>6, <1>7, <1>8, <1>10 DEF Interruption, CalmInv
<1> QED
  BY <1>8, <1>9, <1>10 DEF Next

\* In an unlocked vault every store opens with the session's root key and
\* vector, and the base is signed with that key, whichever windows crashed,
\* whichever builds of the wallet ran and however often the passphrase was
\* wrong, as long as one login, open or reset is over before the next begins
\* (login() and recryptAll of share/auth.ts and crypto/vault.ts).
THEOREM CalmSession ==
  ASSUME ~Twins
  PROVE  Spec => []SessionReadsAll
<1>1. CalmInv /\ [Next]_vars => CalmInv'
  BY CalmNext
<1>2. Spec => []CalmInv
  BY <1>1, CalmInit, PTL DEF Spec
<1>3. CalmInv => SessionReadsAll
  BY DEF CalmInv
<1> QED
  BY <1>2, <1>3, PTL
-----------------------------------------------------------------------------
(* One build of the wallet: the parameters of a stored key are those that    *)
(* the next login derives it with, so every key is the one its base tells.   *)

OneBuild == \A p, q \in Params : p = q

StoredInv ==
  base # None =>
    /\ hashParams # None
    /\ base.entropy = base.sig.key.entropy /\ base.nonce = base.sig.key.nonce
    /\ \A k \in Keys : Recryptable(base.sig.key.phrase, storage[k])

DerivedOf(f) ==
  /\ pc[f] \in {"regSign", "regSet"} => hashParams # None
  /\ pc[f] \in Rotating =>
       try[f].new = RootKey(try[f].old.phrase, base.entropy, base.nonce + 1, codeParams)

BuildInv == StoredInv /\ \A f \in Frames : DerivedOf(f)

LEMMA BuildInit == Init => BuildInv
BY DEF Init, BuildInv, StoredInv, DerivedOf, Rotating

\* A root key is what it was derived from.
LEMMA RootKeyIs ==
  ASSUME NEW key \in RootKeys
  PROVE  key = RootKey(key.phrase, key.entropy, key.nonce, key.params)
BY DEF RootKeys, RootKey

\* The base is signed with the old root key of its phrase.
LEMMA BaseRoot ==
  ASSUME OneBuild, TypeInv, StoredInv, base # None
  PROVE  base.sig.key = OldRoot(base.sig.key.phrase)
<1>1. base.sig.key \in RootKeys /\ hashParams \in Params
  BY DEF TypeInv, TypeOK, StoredInv, Bases, Signatures
<1>2. base.sig.key.params = hashParams
  BY <1>1 DEF RootKeys, OneBuild
<1> QED
  BY <1>1, <1>2, RootKeyIs DEF StoredInv, OldRoot

\* A base keeps what is stored, or is erased.
LEMMA StoredKept ==
  ASSUME StoredInv, UNCHANGED codeParams, base' \in {None, base},
         base' # None => UNCHANGED <<salt, hashParams, storage>>
  PROVE  StoredInv'
BY DEF StoredInv, Recryptable, OldRoot, NewRoot

\* The same, when one entry was sealed with a key of the base.
LEMMA StoredWrite ==
  ASSUME StoredInv, TypeOK, UNCHANGED <<codeParams, base, salt, hashParams>>, NEW k \in Keys,
         NEW e \in {Sealed(OldRoot(base.sig.key.phrase), salt), Sealed(NewRoot(base.sig.key.phrase), salt)},
         storage' = [storage EXCEPT ![k] = e]
  PROVE  StoredInv'
<1> SUFFICES ASSUME base # None PROVE StoredInv'
  BY DEF StoredInv
<1>1. \A j \in Keys : storage'[j] = e \/ storage'[j] = storage[j]
  BY DEF TypeOK
<1> QED
  BY <1>1 DEF StoredInv, Recryptable, OldRoot, NewRoot

\* A new base, with every store sealed by its key or not there.
LEMMA StoredBase ==
  ASSUME OneBuild, NEW f \in Frames, TypeOK, try[f].new \in RootKeys, try[f].salt = salt,
         base' = NewBase(f), hashParams # None,
         UNCHANGED <<codeParams, salt, hashParams, storage>>,
         \A k \in Keys : storage[k] \in {None, Sealed(try[f].new, salt)}
  PROVE  StoredInv'
<1>1. /\ base'.entropy = try[f].new.entropy /\ base'.nonce = try[f].new.nonce
      /\ base'.sig.key = try[f].new
  BY DEF NewBase, Signature
<1>2. try[f].new.params = hashParams
  BY DEF RootKeys, OneBuild, TypeOK
<1>3. try[f].new = RootKey(try[f].new.phrase, base'.entropy, base'.nonce, hashParams)
  BY <1>1, <1>2, RootKeyIs
<1> HIDE DEF NewBase
<1>4. OldRoot(base.sig.key.phrase)' = try[f].new
  BY <1>1, <1>3 DEF OldRoot
<1> QED
  BY <1>1, <1>4 DEF StoredInv, Recryptable

\* One window moves: the others are idle, and have no keys to speak of.
LEMMA OneDerives ==
  ASSUME CalmInv, NEW f \in Frames, pc[f] # "idle" \/ Alone(f),
         \A g \in Frames \ {f} : pc'[g] = pc[g], DerivedOf(f)'
  PROVE  \A g \in Frames : DerivedOf(g)'
<1>1. ASSUME NEW g \in Frames \ {f} PROVE DerivedOf(g)'
  <2>1. pc'[g] = "idle"
    BY DEF CalmInv, OneWindow, Alone
  <2> QED
    BY <2>1 DEF DerivedOf, Rotating
<1> QED
  BY <1>1

LEMMA BuildLogin ==
  ASSUME OneBuild, CalmInv, BuildInv, NEW f \in Frames, LoginStep(f) \/ RegisterStep(f), TypeInv'
  PROVE  BuildInv'
<1>1. /\ TypeInv /\ TypeOK /\ pc \in [Frames -> Steps] /\ try \in [Frames -> Tries \cup {None}]
      /\ CalmOf(f) /\ TryOf(f) /\ DerivedOf(f) /\ StoredInv /\ Vault
      /\ hashParams \in Params \cup {None} /\ codeParams \in Params
      /\ codeParams' \in Params
  BY DEF CalmInv, TypeInv, TryInv, TypeOK, Steps, BuildInv
<1>2. UNCHANGED codeParams
  BY <1>1 DEF OneBuild
<1>3. pc[f] # "idle" /\ \A g \in Frames \ {f} : pc'[g] = pc[g]
  BY <1>1 DEF LoginStep, RegisterStep, Register, RegisterSign, RegisterSet, GetBase, DeriveRootKeys,
    VerifyRootKey, RecryptAll, RecryptRead, RecryptWrite, RecryptEnd, Sign, SetBase, SetParams, SetSession,
    Throw, Goto
<1>4. SUFFICES StoredInv' /\ DerivedOf(f)'
  BY <1>3, OneDerives DEF BuildInv
<1>5. CASE Register(f)
  <2>1. base = None /\ base' = None /\ UNCHANGED hashParams
    BY <1>1, <1>5 DEF Register, CalmOf, RegisterSteps, persistent
  <2>2. pc'[f] \in {"idle", "regSign"} /\ (pc'[f] = "regSign" => hashParams # None)
    BY <1>1, <1>5, <2>1 DEF Register, Goto
  <2> QED
    BY <1>2, <1>1, <2>1, <2>2, StoredKept DEF DerivedOf, Rotating
<1>6. CASE RegisterSign(f)
  <2>1. base = None /\ base' = None /\ hashParams # None /\ UNCHANGED hashParams /\ pc'[f] = "regSet"
    BY <1>1, <1>6 DEF RegisterSign, CalmOf, RegisterSteps, DerivedOf, Goto
  <2> QED
    BY <1>1, <1>2, <2>1, StoredKept DEF DerivedOf, Rotating
<1>7. CASE RegisterSet(f)
  <2>1. /\ base = None /\ Fresh /\ hashParams # None /\ try[f].salt = salt /\ try[f].new \in RootKeys
        /\ base' = NewBase(f) /\ UNCHANGED <<salt, hashParams, storage>> /\ pc'[f] = "getBase"
    BY <1>1, <1>7 DEF RegisterSet, CalmOf, RegisterSteps, DerivedOf, Goto, TryOf, Vault
  <2> QED
    BY <1>1, <1>2, <2>1, StoredBase DEF DerivedOf, Rotating, Fresh
<1>8. ASSUME Throw(f), UNCHANGED <<salt, hashParams, storage>> PROVE StoredInv' /\ DerivedOf(f)'
  <2>1. base' \in {None, base} /\ pc'[f] = "idle"
    BY <1>1, <1>8 DEF Throw, Goto
  <2> QED
    BY <1>1, <1>2, <1>8, <2>1, StoredKept DEF DerivedOf, Rotating
<1>9. CASE GetBase(f)
  <2>1. CASE Throw(f)
    BY <1>8, <1>9, <2>1 DEF GetBase
  <2>2. CASE UNCHANGED base /\ Goto(f, "derive")
    BY <1>1, <1>2, <1>9, <2>2, StoredKept DEF GetBase, DerivedOf, Rotating, Goto
  <2> QED
    BY <1>9, <2>1, <2>2 DEF GetBase
<1>10. CASE DeriveRootKeys(f)
  <2>1. CASE Throw(f)
    BY <1>8, <1>10, <2>1 DEF DeriveRootKeys
  <2> DEFINE o == RootKey(try[f].phrase, try[f].base.entropy, try[f].base.nonce, hashParams)
             n == RootKey(try[f].phrase, try[f].base.entropy, try[f].base.nonce + 1, codeParams)
  <2>2. CASE /\ UNCHANGED base /\ Goto(f, "verify")
             /\ try' = [try EXCEPT ![f].old = o, ![f].new = n]
    <3>1. try[f].base = base /\ try[f] \in Tries
      BY <1>1, <1>10 DEF DeriveRootKeys, CalmOf, TryOf, LoginSteps
    <3>2. o.phrase = try[f].phrase
      BY DEF RootKey
    <3> HIDE DEF o
    <3>3. try'[f].old = o /\ try'[f].new = RootKey(try[f].phrase, base.entropy, base.nonce + 1, codeParams)
      BY <1>1, <2>2, <3>1 DEF Tries
    <3>4. pc'[f] = "verify"
      BY <1>1, <2>2 DEF Goto
    <3>5. DerivedOf(f)'
      BY <1>2, <2>2, <3>2, <3>3, <3>4 DEF DerivedOf
    <3> QED
      BY <1>1, <1>2, <1>10, <2>2, <3>5, StoredKept DEF DeriveRootKeys
  <2> QED
    BY <1>10, <2>1, <2>2 DEF DeriveRootKeys
<1>11. CASE VerifyRootKey(f)
  <2>1. base # None /\ pc[f] = "verify" /\ UNCHANGED <<hashParams, storage>>
    BY <1>1, <1>11 DEF VerifyRootKey, CalmOf, Rotating
  <2>2. UNCHANGED salt /\ (Throw(f) \/ (Goto(f, "recryptAll") /\ UNCHANGED <<base, try>>))
    BY <1>11, <2>1, SaltKept DEF VerifyRootKey
  <2>3. CASE Goto(f, "recryptAll") /\ UNCHANGED <<base, try>>
    <3>1. DerivedOf(f)'
      BY <1>1, <1>2, <2>1, <2>3 DEF DerivedOf, Goto, Rotating
    <3> QED
      BY <1>1, <1>2, <2>1, <2>2, <2>3, <3>1, StoredKept
  <2> QED
    BY <1>8, <2>1, <2>2, <2>3
<1>12. CASE RecryptAll(f)
  <2>1. /\ base # None /\ pc[f] = "recryptAll" /\ UNCHANGED <<base, hashParams, storage>>
        /\ Goto(f, "recrypt") /\ try[f] \in Tries
    BY <1>1, <1>12 DEF RecryptAll, CalmOf, Rotating, TryOf, LoginSteps
  <2>2. PICK s \in Salts : HkdfSalt(s) /\ try' = [try EXCEPT ![f].salt = s]
    BY <1>12 DEF RecryptAll
  <2>3. UNCHANGED salt
    BY <2>1, <2>2, SaltKept
  <2>4. try'[f].new = try[f].new /\ try'[f].old = try[f].old
    BY <1>1, <2>1, <2>2, TriesUpdate
  <2>5. DerivedOf(f)'
    BY <1>1, <1>2, <2>1, <2>4 DEF DerivedOf, Goto, Rotating
  <2> QED
    BY <1>1, <1>2, <2>1, <2>3, <2>5, StoredKept
<1>13. ASSUME NEW k \in Keys, RecryptRead(f, k) PROVE StoredInv' /\ DerivedOf(f)'
  <2>1. UNCHANGED <<base, salt, hashParams, storage, pc, try>>
    BY <1>13 DEF RecryptRead, persistent
  <2> QED
    BY <1>1, <1>2, <2>1, StoredKept DEF DerivedOf
<1>14. ASSUME NEW k \in Keys, RecryptWrite(f, k) PROVE StoredInv' /\ DerivedOf(f)'
  <2>1. /\ pc[f] \in Rotating \cap Sealing \cap Verified
        /\ UNCHANGED <<base, salt, hashParams, pc, try>>
        /\ storage' = [storage EXCEPT ![k] = Sealed(try[f].new, try[f].salt)]
    BY <1>14 DEF RecryptWrite, Rotating, Sealing, Verified, Derived
  <2>2. /\ base # None /\ try[f].base = base /\ try[f].salt = salt
        /\ try[f].old.phrase = base.sig.key.phrase
    BY <1>1, <2>1 DEF CalmOf, TryOf, Verified
  <2>3. try[f].new = NewRoot(base.sig.key.phrase)
    BY <1>1, <2>1, <2>2 DEF DerivedOf, NewRoot
  <2>4. StoredInv'
    <3> DEFINE e == Sealed(try[f].new, try[f].salt)
    <3>1. e \in {Sealed(OldRoot(base.sig.key.phrase), salt), Sealed(NewRoot(base.sig.key.phrase), salt)}
      BY <2>2, <2>3
    <3>2. storage' = [storage EXCEPT ![k] = e]
      BY <2>1
    <3> HIDE DEF e
    <3> QED
      BY <1>1, <1>2, <2>1, <3>1, <3>2, StoredWrite
  <2> QED
    BY <1>1, <1>2, <2>1, <2>4 DEF DerivedOf
<1>15. CASE RecryptEnd(f)
  <2>1. UNCHANGED <<base, salt, hashParams, storage, try>> /\ pc[f] \in Rotating
    BY <1>15 DEF RecryptEnd, persistent, Rotating
  <2>2. pc'[f] \in {"sign", "closing"}
    BY <1>1, <1>15 DEF RecryptEnd, Goto
  <2> QED
    BY <1>1, <1>2, <2>1, <2>2, StoredKept DEF DerivedOf
<1>16. CASE Sign(f)
  <2>1. /\ base # None /\ pc[f] = "sign" /\ UNCHANGED <<hashParams, storage>> /\ try[f] \in Tries
        /\ salt # None
    BY <1>1, <1>16 DEF Sign, CalmOf, Rotating, TryOf, LoginSteps, Vault
  <2>2. /\ UNCHANGED <<base, salt>> /\ try' = [try EXCEPT ![f].salt = salt] /\ Goto(f, "setBase")
    BY <1>16, <2>1, SaltKept DEF Sign
  <2>3. try'[f].new = try[f].new /\ try'[f].old = try[f].old
    BY <1>1, <2>1, <2>2, TriesUpdate DEF TypeOK
  <2>4. DerivedOf(f)'
    BY <1>1, <1>2, <2>1, <2>2, <2>3 DEF DerivedOf, Goto, Rotating
  <2> QED
    BY <1>1, <1>2, <2>1, <2>2, <2>4, StoredKept
<1>17. CASE SetBase(f)
  <2>1. /\ base' = NewBase(f) /\ base # None /\ SealedWith(try[f].new) /\ try[f].salt = salt
        /\ UNCHANGED <<salt, hashParams, storage>> /\ try[f].new \in RootKeys /\ hashParams # None
    BY <1>1, <1>17 DEF SetBase, CalmOf, Rotating, Sealing, TryOf, Derived, StoredInv
  <2>2. pc'[f] \in Committed
    BY <1>1, <1>17 DEF SetBase, Goto, Committed
  <2> QED
    BY <1>1, <1>2, <2>1, <2>2, StoredBase DEF DerivedOf, Rotating, SealedWith, Committed
<1>18. CASE SetParams(f)
  <2>1. /\ base # None /\ UNCHANGED <<base, salt, storage>> /\ hashParams # None
        /\ hashParams' = try[f].new.params /\ try[f].new \in RootKeys
    BY <1>1, <1>18 DEF SetParams, CalmOf, Committed, TryOf, Derived, StoredInv
  <2>2. UNCHANGED hashParams
    BY <1>1, <2>1 DEF RootKeys, OneBuild
  <2>3. pc'[f] = "setSession"
    BY <1>1, <1>18 DEF SetParams, Goto
  <2> QED
    BY <1>1, <1>2, <2>1, <2>2, <2>3, StoredKept DEF DerivedOf, Rotating
<1>19. CASE SetSession(f)
  <2>1. UNCHANGED <<base, salt, hashParams, storage>> /\ pc'[f] = "idle"
    BY <1>1, <1>19 DEF SetSession, persistent, Goto
  <2> QED
    BY <1>1, <1>2, <2>1, StoredKept DEF DerivedOf, Rotating
<1> QED
  BY <1>5, <1>6, <1>7, <1>9, <1>10, <1>11, <1>12, <1>13, <1>14, <1>15, <1>16, <1>17, <1>18, <1>19
  DEF LoginStep, RegisterStep

LEMMA BuildNext ==
  ASSUME OneBuild, ~Twins, CalmInv, BuildInv, [Next]_vars
  PROVE  BuildInv'
<1>1. /\ TypeInv /\ TypeOK /\ TypeInv' /\ TypeOK' /\ StoredInv /\ \A f \in Frames : DerivedOf(f)
      /\ pc \in [Frames -> Steps]
  BY TypeNext DEF CalmInv, BuildInv, TypeInv, TypeOK, Steps
<1>2. UNCHANGED codeParams
  BY <1>1 DEF OneBuild, TypeOK
<1>3. ASSUME NEW f \in Frames, pc[f] # "idle" \/ Alone(f), NEW p, Goto(f, p),
             p \in {"idle", "reset", "register", "getBase"}
      PROVE  \A g \in Frames : DerivedOf(g)'
  <2>1. pc'[f] = p /\ \A g \in Frames \ {f} : pc'[g] = pc[g]
    BY <1>1, <1>3 DEF Goto
  <2>2. DerivedOf(f)'
    BY <1>3, <2>1 DEF DerivedOf, Rotating
  <2> QED
    BY <1>3, <2>1, <2>2, OneDerives
<1>4. ASSUME NEW f \in Frames, NEW ph \in Phrases, RegisterScreen(f, ph) PROVE BuildInv'
  BY <1>1, <1>2, <1>3, <1>4, StoredKept DEF RegisterScreen, BuildInv
<1>5. ASSUME NEW f \in Frames, NEW ph \in Phrases, Authenticate(f, ph) PROVE BuildInv'
  <2>1. UNCHANGED <<base, salt, hashParams, storage>>
    BY <1>1, <1>5 DEF Authenticate, StoredInv
  <2> QED
    BY <1>1, <1>2, <1>3, <1>5, <2>1, StoredKept DEF Authenticate, BuildInv
<1>6. ASSUME NEW f \in Frames, ClearStorage(f) PROVE BuildInv'
  BY <1>1, <1>2, <1>3, <1>6, StoredKept DEF ClearStorage, BuildInv
<1>7. ASSUME NEW f \in Frames, FactoryReset(f) \/ Close(f) PROVE BuildInv'
  BY <1>1, <1>2, <1>3, <1>7, StoredKept DEF FactoryReset, Close, BuildInv, persistent
<1>8. ASSUME UNCHANGED <<base, salt, hashParams, pc, try>> PROVE \A f \in Frames : DerivedOf(f)'
  BY <1>1, <1>2, <1>8 DEF DerivedOf
<1>9. ASSUME NEW k \in Keys, Open(k) \/ OpenStep(k) PROVE BuildInv'
  <2>1. UNCHANGED <<base, hashParams, pc, try>>
    BY <1>9 DEF Open, OpenStep, OpenRead, OpenVector, OpenSet, persistent
  <2>2. UNCHANGED salt
    BY <1>9, SaltKept DEF Open, OpenStep, OpenRead, OpenVector, OpenSet, persistent, CalmInv, SessionReadsAll
  <2>3. CASE OpenSet(k)
    <3>1. base # None /\ opened[k].cipher = base.sig /\ opened[k].vector = Vector(base.sig.key)
          /\ base.sig.salt = salt
      BY <2>3 DEF OpenSet, CalmInv, OpenOf, Vault
    <3> DEFINE e == Sealed(OldRoot(base.sig.key.phrase), salt)
    <3>2. [key |-> opened[k].cipher.key, salt |-> opened[k].cipher.salt, vector |-> opened[k].vector] = e
      BY <1>1, <3>1, BaseRoot DEF Sealed
    <3> HIDE DEF e
    <3>3. storage' = [storage EXCEPT ![k] = e]
      BY <2>3, <3>2 DEF OpenSet
    <3>4. e \in {Sealed(OldRoot(base.sig.key.phrase), salt), Sealed(NewRoot(base.sig.key.phrase), salt)}
      BY DEF e
    <3>5. StoredInv'
      BY <1>1, <1>2, <2>1, <2>2, <3>3, <3>4, StoredWrite
    <3> QED
      BY <1>8, <2>1, <2>2, <3>5 DEF BuildInv
  <2>4. CASE ~OpenSet(k)
    <3>1. UNCHANGED storage
      BY <1>9, <2>4 DEF Open, OpenStep, OpenRead, OpenVector, persistent
    <3> QED
      BY <1>1, <1>2, <1>8, <2>1, <2>2, <3>1, StoredKept DEF BuildInv
  <2> QED
    BY <2>3, <2>4
<1>10. CASE Restart
  <2>1. UNCHANGED <<base, salt, hashParams, storage>> /\ \A f \in Frames : pc'[f] = "idle"
    BY <1>10 DEF Restart, persistent
  <2> QED
    BY <1>1, <1>2, <2>1, StoredKept DEF BuildInv, DerivedOf, Rotating
<1>11. CASE Logout \/ UNCHANGED vars
  <2>1. UNCHANGED <<base, salt, hashParams, storage, pc, try>>
    BY <1>11 DEF Logout, vars, persistent
  <2> QED
    BY <1>1, <1>2, <1>8, <2>1, StoredKept DEF BuildInv
<1>12. CASE Work
  BY <1>1, <1>4, <1>5, <1>6, <1>7, <1>9, <1>12, BuildLogin DEF Work
<1>13. CASE Interruption
  BY <1>7, <1>10, <1>11, <1>13 DEF Interruption
<1> QED
  BY <1>11, <1>12, <1>13 DEF Next

\* Wherever register(), login() or the browser stops, the passphrase that the
\* vault was made with is accepted, and every store opens with one of the two
\* keys the next login derives from it: with any windows and stores, closed and
\* restarted at any step, under one build of the wallet and as long as one
\* login, open or reset is over before the next begins (deriveRootKeys,
\* recryptAll and the order of the writes of login(), share/auth.ts).
THEOREM CalmUnlockable ==
  ASSUME ~Twins, OneBuild
  PROVE  Spec => []Unlockable
<1>1. CalmInv /\ BuildInv /\ [Next]_vars => CalmInv' /\ BuildInv'
  BY CalmNext, BuildNext
<1>2. Init => CalmInv /\ BuildInv
  BY CalmInit, BuildInit
<1>3. Spec => [](CalmInv /\ BuildInv)
  BY <1>1, <1>2, PTL DEF Spec
<1>4. CalmInv /\ BuildInv => Unlockable
  <2> SUFFICES ASSUME CalmInv, BuildInv, base # None PROVE Unlockable
    BY DEF Unlockable
  <2>1. base.sig.key = OldRoot(base.sig.key.phrase) /\ salt # None /\ base.sig.salt = salt
    BY BaseRoot DEF CalmInv, BuildInv, Vault
  <2>2. base.sig = Signature(base.sig.key, salt)
    BY <2>1 DEF CalmInv, TypeInv, TypeOK, Bases, Signatures, Signature
  <2> QED
    BY <2>1, <2>2 DEF Unlockable, Accepts, BuildInv, StoredInv
<1> QED
  BY <1>3, <1>4, PTL
===============================================================================
