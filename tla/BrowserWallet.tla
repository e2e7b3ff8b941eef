--------------------------- MODULE BrowserWallet ---------------------------
(***************************************************************************)
(* The browser wallet, ui/src/lib/wallet/browserWallet.ts: what it keeps   *)
(* in localStorage and what each of its functions makes of that.  All tabs *)
(* of a browser share the storage.                                         *)
(*                                                                         *)
(* A recovery phrase determines the private key, the public key and the    *)
(* address, so a wallet is one value here.  Time is the time a session has *)
(* left.                                                                   *)
(***************************************************************************)
EXTENDS Integers

CONSTANTS
    Wallets,     \* the recovery phrases, with the keys they determine
    Passwords,   \* what a user may type as a password
    None,        \* null
    Garbage,     \* what a wrong password may decrypt a key or a phrase to
    Lifetime     \* SESSION_DURATION in ticks of the clock

\* The password, by what checkPasswordStrength looks at.
Password == [length : Nat, mixed : BOOLEAN, digit : BOOLEAN,
             special : BOOLEAN, common : BOOLEAN]

B2N(b) == IF b THEN 1 ELSE 0

\* The score of a password; one that begins like a common one loses two.
Score(p) ==
    LET raw == B2N(p.length >= 8) + B2N(p.length >= 12) + B2N(p.mixed)
                 + B2N(p.digit) + B2N(p.special)
    IN  IF p.length = 0 THEN 0
        ELSE IF p.common THEN (IF raw >= 2 THEN raw - 2 ELSE 0)
        ELSE raw

IsStrong(p) == Score(p) >= 4

----------------------------------------------------------------------------
(* The two keys of localStorage.  A session ends when now > expiresAt, so   *)
(* left = 0 is its last moment.                                            *)

StoredWallet == [wallet : Wallets, password : Passwords]
Session == [key : Wallets \cup {Garbage}, left : -1 .. Lifetime]

Storage == [wallet : StoredWallet \cup {None}, session : Session \cup {None}]

\* The wallets that a page holds: a locked one has an address and no key.
PageWallet == [address : Wallets, key : Wallets \cup {Garbage, None}]

ASSUME WalletAssumption ==
    /\ Passwords \subseteq Password
    /\ Lifetime \in Nat
    /\ None \notin Wallets /\ Garbage \notin Wallets /\ None # Garbage
    /\ None \notin StoredWallet /\ None \notin Session /\ None \notin PageWallet

EmptyStorage == [wallet |-> None, session |-> None]

HasWallet(st) == st.wallet # None

\* What decrypting with p can give.  A wrong password gives no text or a text
\* that is not UTF-8, which is an error, or now and then some other text.
Decrypted(st, p) ==
    IF p = st.wallet.password THEN {st.wallet.wallet} ELSE {None, Garbage}

CreateSession(st, key) ==
    [st EXCEPT !.session = [key |-> key, left |-> Lifetime]]

LockWallet(st) == [st EXCEPT !.session = None]

\* Mutant: the time of the session is not looked at.
IsWalletUnlockedForever(st) == st.session # None

IsWalletUnlocked(st) == st.session # None /\ st.session.left >= 0

\* isWalletUnlocked removes a session that has expired.
DropExpired(st) == IF IsWalletUnlocked(st) THEN st ELSE LockWallet(st)

\* Mutant: the session is created only where there is none.
StoreWalletKeepSession(st, w, p) ==
    [CreateSession(st, IF st.session = None THEN w ELSE st.session.key)
        EXCEPT !.wallet = [wallet |-> w, password |-> p]]

\* createWallet and importWallet, after the key is derived.
StoreWallet(st, w, p) ==
    CreateSession([st EXCEPT !.wallet = [wallet |-> w, password |-> p]], w)

\* Mutant: the session outlives the wallet.
DeleteWalletOnly(st) == [st EXCEPT !.wallet = None]

DeleteWallet(st) == EmptyStorage

\* Mutant: with a session the password is not asked for.
OpenedBySession(st, p) ==
    IF ~HasWallet(st) THEN {None}
    ELSE IF IsWalletUnlocked(st) THEN {st.wallet.wallet} ELSE Decrypted(st, p)

\* What unlockWallet and exportMnemonic get from a password; None: they throw.
Opened(st, p) == IF HasWallet(st) THEN Decrypted(st, p) ELSE {None}

\* refreshSession, which renews a session that has not expired.
RefreshSession(st) ==
    IF IsWalletUnlocked(st) THEN CreateSession(st, st.session.key)
    ELSE DropExpired(st)

\* getUnlockedWallet: the stored address with the key of the session.
UnlockedWallet(st) ==
    IF IsWalletUnlocked(st) /\ HasWallet(st)
    THEN [address |-> st.wallet.wallet, key |-> st.session.key]
    ELSE None

\* getWalletAddress as a wallet without its key.
LockedWallet(st) == [address |-> st.wallet.wallet, key |-> None]
=============================================================================
