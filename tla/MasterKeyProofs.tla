-------------------------- MODULE MasterKeyProofs --------------------------
(***************************************************************************)
(* Whatever the numbers of accounts, keys, writers and crashes: as long as *)
(* the environment never configures the id of an account of SQLite, every  *)
(* credential stays readable and every archive can be restored.            *)
(***************************************************************************)
EXTENDS MasterKey, TLAPS

NoShadowing == \A e \in Environments : e = {}

\* The rows a rotation under way has dealt with.
Renewed(r) ==
  \/ rotation.at = "accounts"  /\ r \in Accounts \ rotation.todo
  \/ rotation.at = "lock keys" /\ r \in Accounts
  \/ rotation.at = "keys"      /\ r \in Rows \ rotation.todo
  \/ rotation.at = "drop"      /\ r \in Rows

\* Without shadowing the pool holds all the accounts of SQLite.
PoolComplete == configured = {} /\ (up => managed = Stored \cap Accounts)

\* The file can read what memory can read.
FileCovers == up => KeysOf(ring) \subseteq KeysOf(file)

WritersReadable ==
  \A w \in Writers : writing[w] # NoWrite => up /\ writing[w].key \in KeysOf(ring)

RotationRuns ==
  /\ rotation.at # "idle" => up /\ ring = file /\ backup.at = "idle"
  /\ rotation.at = "accounts" =>
       /\ rotation.todo \subseteq managed
       /\ \A w \in Writers : writing[w].row \notin Accounts
  /\ rotation.at = "keys" =>
       /\ rotation.todo \subseteq VirtualKeys
       /\ \A w \in Writers : writing[w].row \notin VirtualKeys
  /\ rotation.at \notin {"accounts", "keys"} => rotation.todo = {}

\* A renewed row has the current key, and so has what is about to be written to it.
RotationAdvances ==
  \A r \in Rows : Renewed(r) =>
    /\ rows[r] \in {NoKey, ring.current}
    /\ \A w \in Writers : writing[w].row = r => writing[w].key = ring.current

BackupConsistent ==
  backup.at = "key file" => up /\ Validates(backup.rows, file)

\* Both keyrings hold generated keys only: the next key is in neither.
Known == KeysOf(ring) \subseteq generated /\ KeysOf(file) \subseteq generated

IInv == /\ TypeOK /\ Known /\ PoolComplete /\ FileCovers /\ WritersReadable
        /\ RotationRuns /\ RotationAdvances /\ Readable
        /\ BackupConsistent /\ BackupRestorable

-----------------------------------------------------------------------------
USE MasterKeyAssumption DEF Rows

\* The keyring with a new key holds the old ones, and none of them twice.
LEMMA SupersedingKeeps ==
  ASSUME NEW k \in MasterKeys, ring \in Keyring, k \notin KeysOf(ring)
  PROVE  /\ Superseding(k) \in Keyring
         /\ Superseding(k).current \notin Superseding(k).previous
         /\ KeysOf(Superseding(k)) = KeysOf(ring) \cup {k}
BY DEF Superseding, KeysOf, Keyring

\* More keys read as much.
LEMMA CoveringValidates ==
  ASSUME NEW contents, NEW small, NEW large,
         Validates(contents, small), KeysOf(small) \subseteq KeysOf(large)
  PROVE  Validates(contents, large)
BY DEF Validates

-----------------------------------------------------------------------------
(* One lemma per action.                                                   *)

\* The first process starts with one master key, which reads everything.
LEMMA InitHolds == NoShadowing => (Init => IInv)
<1> SUFFICES ASSUME NoShadowing, Init PROVE IInv
  OBVIOUS
<1>1. TypeOK
  BY DEF Init, NoWrite, NoRotation, NoBackup, TypeOK, Keyring, Contents, RotationStage
<1>2. Readable /\ BackupRestorable /\ FileCovers /\ Known
  BY DEF Init, Known, Readable, BackupRestorable, FileCovers, Validates, KeysOf
<1>3. PoolComplete
  BY DEF Init, PoolComplete, Stored, NoShadowing
<1>4. WritersReadable /\ RotationRuns /\ BackupConsistent /\ RotationAdvances
  BY DEF Init, WritersReadable, RotationRuns, BackupConsistent, RotationAdvances,
         Renewed, NoWrite, NoRotation, NoBackup
<1> QED  BY <1>1, <1>2, <1>3, <1>4 DEF IInv

\* Nothing changes when nothing happens.
LEMMA StutterStep ==
  ASSUME IInv, UNCHANGED vars
  PROVE  IInv'
<1>1. TypeOK' /\ Known' /\ Readable' /\ BackupRestorable' /\ FileCovers'
  BY DEF IInv, vars, TypeOK, Known, Readable, BackupRestorable, FileCovers,
         Validates, KeysOf
<1>2. /\ PoolComplete' /\ WritersReadable' /\ RotationRuns' /\ RotationAdvances'
      /\ BackupConsistent'
  BY DEF IInv, vars, PoolComplete, Stored, WritersReadable, RotationRuns,
         RotationAdvances, Renewed, BackupConsistent, Validates, KeysOf
<1> QED  BY <1>1, <1>2 DEF IInv

\* A writer encrypts with the current key; the locks keep it off renewed rows.
LEMMA EncryptStep ==
  ASSUME IInv, NEW w \in Writers, NEW r \in Rows, Encrypt(w, r)
  PROVE  IInv'
<1>1. TypeOK'
  BY DEF IInv, Encrypt, process, keyrings, archives, TypeOK, Keyring,
         Contents, Sealing, RotationStage, NoWrite, NoRotation, NoBackup
<1>2. WritersReadable'
  BY DEF IInv, Encrypt, process, keyrings, archives, WritersReadable, KeysOf,
         NoWrite, Known
<1>3. RotationRuns'
  BY DEF IInv, Encrypt, process, keyrings, archives, RotationRuns,
         AccountsFree, KeysFree, NoWrite, TypeOK
<1>4. RotationAdvances'
  BY DEF IInv, Encrypt, process, keyrings, archives, RotationAdvances,
         Renewed, NoWrite, TypeOK
<1>5. Known' /\ Readable' /\ BackupRestorable' /\ FileCovers' /\ PoolComplete'
       /\ BackupConsistent'
  BY DEF IInv, Encrypt, process, keyrings, archives, Known, KeysOf, Readable,
         Validates, BackupRestorable, FileCovers, PoolComplete, Stored,
         BackupConsistent
<1> QED
  BY <1>1, <1>2, <1>3, <1>4, <1>5 DEF IInv

\* A row is written with a key that both keyrings hold.
LEMMA WriteStep ==
  ASSUME IInv, NEW w \in Writers, Write(w)
  PROVE  IInv'
<1>1. TypeOK'
  BY DEF IInv, Write, keyrings, archives, TypeOK, Keyring, Contents, Sealing,
         RotationStage, NoWrite, NoRotation, NoBackup
<1>2. Readable'
  BY DEF IInv, Write, keyrings, archives, Readable, Validates, KeysOf,
         WritersReadable, FileCovers, TypeOK, Contents
<1>3. PoolComplete'
  <2>1. writing[w] \in Sealing /\ up
    BY DEF IInv, Write, TypeOK, WritersReadable
  <2>2. \A r \in Rows : rows'[r] = IF r = writing[w].row THEN writing[w].key ELSE rows[r]
    BY DEF IInv, Write, TypeOK, Contents
  <2>3. Stored' \cap Accounts =
          (Stored \cap Accounts) \cup ({writing[w].row} \cap Accounts)
    BY <2>1, <2>2, MasterKeyAssumption DEF Stored, Sealing
  <2> QED
    BY <2>1, <2>3 DEF IInv, Write, PoolComplete
<1>4. WritersReadable'
  BY DEF IInv, Write, keyrings, archives, WritersReadable, KeysOf, NoWrite,
         TypeOK
<1>5. RotationRuns'
  BY DEF IInv, Write, keyrings, archives, RotationRuns, NoWrite, TypeOK
<1>6. RotationAdvances'
  BY DEF IInv, Write, keyrings, archives, RotationAdvances, Renewed, NoWrite,
         TypeOK, Contents
<1>7. Known' /\ BackupRestorable' /\ FileCovers' /\ BackupConsistent'
  BY DEF IInv, Write, keyrings, archives, Known, KeysOf, BackupRestorable,
         Validates, FileCovers, BackupConsistent
<1> QED
  BY <1>1, <1>2, <1>3, <1>4, <1>5, <1>6, <1>7 DEF IInv

\* A write that fails leaves the row as it was.
LEMMA WriteFailsStep ==
  ASSUME IInv, NEW w \in Writers, WriteFails(w)
  PROVE  IInv'
<1>1. TypeOK'
  BY DEF IInv, WriteFails, process, keyrings, archives, TypeOK, Keyring,
         Contents, Sealing, RotationStage, NoWrite, NoRotation, NoBackup
<1>2. WritersReadable'
  BY DEF IInv, WriteFails, process, keyrings, archives, WritersReadable,
         KeysOf, NoWrite, TypeOK
<1>3. RotationRuns'
  BY DEF IInv, WriteFails, process, keyrings, archives, RotationRuns, NoWrite,
         TypeOK
<1>4. RotationAdvances'
  BY DEF IInv, WriteFails, process, keyrings, archives, RotationAdvances,
         Renewed, NoWrite, TypeOK
<1>5. Known' /\ Readable' /\ BackupRestorable' /\ FileCovers' /\ PoolComplete'
       /\ BackupConsistent'
  BY DEF IInv, WriteFails, process, keyrings, archives, Known, KeysOf,
         Readable, Validates, BackupRestorable, FileCovers, PoolComplete,
         Stored, BackupConsistent
<1> QED
  BY <1>1, <1>2, <1>3, <1>4, <1>5 DEF IInv

\* A row that is gone needs no key.
LEMMA RemoveStep ==
  ASSUME IInv, NEW a \in Accounts, RemoveManagedAccount(a)
  PROVE  IInv'
<1>1. TypeOK'
  BY DEF IInv, RemoveManagedAccount, keyrings, archives, TypeOK, Keyring,
         Contents, Sealing, RotationStage, NoWrite, NoRotation, NoBackup
<1>2. Readable'
  BY DEF IInv, RemoveManagedAccount, keyrings, archives, Readable, Validates,
         KeysOf, TypeOK, Contents
<1>3. PoolComplete'
  BY DEF IInv, RemoveManagedAccount, keyrings, archives, PoolComplete, Stored,
         TypeOK, Contents
<1>4. RotationAdvances'
  BY DEF IInv, RemoveManagedAccount, keyrings, archives, RotationAdvances,
         Renewed, TypeOK, Contents
<1>5. RotationRuns'
  BY DEF IInv, RemoveManagedAccount, AccountsFree, keyrings, archives, RotationRuns
<1>6. /\ Known' /\ BackupRestorable' /\ FileCovers' /\ WritersReadable'
      /\ BackupConsistent'
  BY DEF IInv, RemoveManagedAccount, keyrings, archives, Known, KeysOf,
         BackupRestorable, Validates, FileCovers, WritersReadable, BackupConsistent
<1> QED
  BY <1>1, <1>2, <1>3, <1>4, <1>5, <1>6 DEF IInv

\* The new key joins the old ones, in memory and in the file.
LEMMA RotateStep ==
  ASSUME IInv, Rotate
  PROVE  IInv'
<1>1. PICK k \in MasterKeys \ generated :
        /\ generated' = generated \cup {k}
        /\ ring' = Superseding(k) /\ file' = Superseding(k)
  BY DEF Rotate
<1>2. /\ Superseding(k) \in Keyring
      /\ Superseding(k).current \notin Superseding(k).previous
      /\ KeysOf(Superseding(k)) = KeysOf(ring) \cup {k}
  BY SupersedingKeeps DEF IInv, TypeOK, Known
<1>3. KeysOf(ring)' = KeysOf(ring) \cup {k} /\ KeysOf(file)' = KeysOf(ring) \cup {k}
  BY <1>1, <1>2 DEF KeysOf
<1>4. TypeOK'
  BY <1>1, <1>2 DEF IInv, Rotate, process, archives, TypeOK, RotationStage
<1>5. Known' /\ FileCovers'
  BY <1>1, <1>3 DEF IInv, Known, FileCovers
<1>6. Readable'
  <2>1. Validates(rows, ring)
    BY DEF IInv, Rotate, Readable
  <2> QED
    BY <1>1, <1>2, <2>1, CoveringValidates DEF Rotate, Readable, Validates
<1>7. WritersReadable'
  BY <1>3 DEF IInv, Rotate, process, WritersReadable
<1>8. RotationRuns' /\ RotationAdvances' /\ BackupConsistent'
  BY <1>1 DEF IInv, Rotate, process, archives, BackupFree, RotationRuns,
              RotationAdvances, Renewed, BackupConsistent, TypeOK
<1>9. PoolComplete' /\ BackupRestorable'
  BY DEF IInv, Rotate, process, archives, PoolComplete, Stored, BackupRestorable,
         Validates, KeysOf
<1> QED  BY <1>4, <1>5, <1>6, <1>7, <1>8, <1>9 DEF IInv

\* Only the file may gain a key.
LEMMA RotateFailsStep ==
  ASSUME IInv, RotateFails
  PROVE  IInv'
<1>1. PICK k \in MasterKeys \ generated :
        generated' = generated \cup {k} /\ file' \in {file, Superseding(k)}
  BY DEF RotateFails
<1>2. /\ Superseding(k) \in Keyring
      /\ Superseding(k).current \notin Superseding(k).previous
      /\ KeysOf(Superseding(k)) = KeysOf(ring) \cup {k}
  BY SupersedingKeeps DEF IInv, TypeOK, Known
<1>3. KeysOf(ring) \subseteq KeysOf(file')
  BY <1>1, <1>2 DEF IInv, FileCovers, RotateFails
<1>4. TypeOK'
  BY <1>1, <1>2 DEF IInv, RotateFails, process, archives, TypeOK
<1>5. Known'
  <2>1. KeysOf(file') \subseteq KeysOf(file) \cup KeysOf(ring) \cup {k}
    BY <1>1, <1>2
  <2> QED
    BY <1>1, <2>1 DEF IInv, RotateFails, Known, KeysOf
<1>6. FileCovers'
  BY <1>3 DEF RotateFails, process, FileCovers, KeysOf
<1>7. Readable'
  <2>1. Validates(rows, ring)
    BY DEF IInv, RotateFails, Readable
  <2> QED
    BY <1>3, <2>1, CoveringValidates DEF RotateFails, Readable, Validates, KeysOf
<1>8. RotationRuns' /\ BackupConsistent'
  BY DEF IInv, RotateFails, process, archives, BackupFree, RotationRuns,
         BackupConsistent, TypeOK
<1>9. /\ PoolComplete' /\ BackupRestorable' /\ WritersReadable'
      /\ RotationAdvances'
  BY DEF IInv, RotateFails, process, archives, PoolComplete, Stored, WritersReadable,
         BackupRestorable, Validates, KeysOf, RotationAdvances, Renewed
<1> QED  BY <1>4, <1>5, <1>6, <1>7, <1>8, <1>9 DEF IInv

\* The pool lists every account there is a row of: this is where shadowing would hurt.
LEMMA LockAccountsStep ==
  ASSUME IInv, LockAccounts
  PROVE  IInv'
<1>1. TypeOK'
  BY DEF IInv, LockAccounts, process, keyrings, archives, TypeOK, Keyring,
         Contents, Sealing, RotationStage, NoWrite, NoRotation, NoBackup
<1>2. RotationRuns'
  BY DEF IInv, LockAccounts, process, keyrings, archives, RotationRuns,
         AccountsFree, TypeOK
<1>3. RotationAdvances'
  <2>1. /\ rotation'.at = "accounts" /\ rotation'.todo = Stored \cap Accounts
        /\ rows' = rows /\ writing' = writing /\ ring' = ring
    BY DEF IInv, LockAccounts, RotationRuns, PoolComplete, keyrings
  <2> SUFFICES ASSUME NEW r \in Rows, r \in Accounts \ Stored
               PROVE  rows[r] = NoKey /\ \A w \in Writers : writing[w].row # r
    BY <2>1 DEF RotationAdvances, Renewed
  <2> QED
    <3>1. rows[r] = NoKey
      BY DEF Stored
    <3>2. \A w \in Writers : writing[w].row \notin Accounts
      BY DEF LockAccounts, AccountsFree
    <3> QED  BY <3>1, <3>2
<1>4. Known' /\ Readable' /\ BackupRestorable' /\ FileCovers' /\ PoolComplete'
       /\ WritersReadable' /\ BackupConsistent'
  BY DEF IInv, LockAccounts, process, keyrings, archives, Known, KeysOf,
         Readable, Validates, BackupRestorable, FileCovers, PoolComplete,
         Stored, WritersReadable, BackupConsistent
<1> QED
  BY <1>1, <1>2, <1>3, <1>4 DEF IInv

\* A row is written with the current key while its lock keeps writers off it.
LEMMA ReencryptStep ==
  ASSUME IInv, Reencrypt
  PROVE  IInv'
<1>1. PICK r \in rotation.todo :
        /\ rows' = [rows EXCEPT ![r] = ring.current]
        /\ rotation' = [rotation EXCEPT !.todo = @ \ {r}]
  BY DEF Reencrypt
<1>2. /\ r \in Rows /\ ring.current \in MasterKeys
      /\ rows' \in Contents
      /\ \A x \in Rows : rows'[x] = IF x = r THEN ring.current ELSE rows[x]
      /\ rotation.at \in {"accounts", "keys"}
      /\ rotation'.at = rotation.at /\ rotation'.todo = rotation.todo \ {r}
      /\ rotation' \in [at : RotationStage, todo : SUBSET Rows]
  <2>1. /\ r \in Rows /\ ring.current \in MasterKeys
        /\ rotation.at \in {"accounts", "keys"}
    BY <1>1 DEF IInv, TypeOK, Keyring, RotationRuns
  <2>2. /\ rows' \in Contents
        /\ \A x \in Rows : rows'[x] = IF x = r THEN ring.current ELSE rows[x]
    BY <1>1, <2>1 DEF IInv, TypeOK, Contents
  <2>3. /\ rotation'.at = rotation.at /\ rotation'.todo = rotation.todo \ {r}
        /\ rotation' \in [at : RotationStage, todo : SUBSET Rows]
    BY <1>1 DEF IInv, TypeOK
  <2> QED  BY <2>1, <2>2, <2>3
<1>3. TypeOK'
  BY <1>2 DEF IInv, Reencrypt, process, keyrings, archives, TypeOK
<1>4. Readable'
  BY <1>2 DEF IInv, Reencrypt, process, keyrings, RotationRuns, Readable, Validates,
              KeysOf
<1>5. PoolComplete'
  <2>1. r \in Accounts => r \in Stored
    BY <1>2, MasterKeyAssumption DEF IInv, PoolComplete, RotationRuns
  <2>2. Stored' \cap Accounts = Stored \cap Accounts
    BY <1>2, <2>1, MasterKeyAssumption DEF Stored
  <2> QED
    BY <2>2 DEF IInv, Reencrypt, process, PoolComplete
<1>6. RotationRuns'
  BY <1>2 DEF IInv, Reencrypt, process, keyrings, archives, RotationRuns
<1>7. RotationAdvances'
  <2>1. writing' = writing /\ ring' = ring
    BY DEF Reencrypt, keyrings
  <2> SUFFICES ASSUME NEW x \in Rows, Renewed(x)'
               PROVE  /\ rows'[x] \in {NoKey, ring.current}
                      /\ \A w \in Writers :
                           writing[w].row = x => writing[w].key = ring.current
    BY <2>1 DEF RotationAdvances
  <2>2. CASE x = r
    <3>1. \A w \in Writers : writing[w].row # r
      BY <1>2, MasterKeyAssumption DEF IInv, RotationRuns, PoolComplete
    <3> QED  BY <1>2, <2>2, <3>1
  <2>3. CASE x # r
    <3>1. Renewed(x)
      BY <1>2, <2>3 DEF Renewed
    <3> QED  BY <1>2, <2>3, <3>1 DEF IInv, RotationAdvances
  <2> QED  BY <2>2, <2>3
<1>8. /\ Known' /\ FileCovers' /\ WritersReadable' /\ BackupConsistent'
      /\ BackupRestorable'
  BY DEF IInv, Reencrypt, process, keyrings, archives, Known, FileCovers,
         WritersReadable, BackupConsistent, BackupRestorable, Validates, KeysOf
<1> QED  BY <1>3, <1>4, <1>5, <1>6, <1>7, <1>8 DEF IInv

\* A rotation that gives up keeps every key.
LEMMA ReencryptFailsStep ==
  ASSUME IInv, ReencryptFails
  PROVE  IInv'
<1>1. TypeOK'
  BY DEF IInv, ReencryptFails, process, keyrings, archives, TypeOK, Keyring,
         Contents, Sealing, RotationStage, NoWrite, NoRotation, NoBackup
<1>2. RotationRuns'
  BY DEF IInv, ReencryptFails, process, keyrings, archives, RotationRuns,
         NoRotation
<1>3. RotationAdvances'
  BY DEF IInv, ReencryptFails, process, keyrings, archives, RotationAdvances,
         Renewed, NoRotation
<1>4. Known' /\ Readable' /\ BackupRestorable' /\ FileCovers' /\ PoolComplete'
       /\ WritersReadable' /\ BackupConsistent'
  BY DEF IInv, ReencryptFails, process, keyrings, archives, Known, KeysOf,
         Readable, Validates, BackupRestorable, FileCovers, PoolComplete,
         Stored, WritersReadable, BackupConsistent
<1> QED
  BY <1>1, <1>2, <1>3, <1>4 DEF IInv

\* Renewed rows stay renewed without the lock: new writers use the current key.
LEMMA UnlockAccountsStep ==
  ASSUME IInv, UnlockAccounts
  PROVE  IInv'
<1>1. TypeOK'
  BY DEF IInv, UnlockAccounts, process, keyrings, archives, TypeOK, Keyring,
         Contents, Sealing, RotationStage, NoWrite, NoRotation, NoBackup
<1>2. RotationRuns'
  BY DEF IInv, UnlockAccounts, process, keyrings, archives, RotationRuns
<1>3. RotationAdvances'
  BY DEF IInv, UnlockAccounts, process, keyrings, archives, RotationAdvances,
         Renewed, RotationRuns
<1>4. Known' /\ Readable' /\ BackupRestorable' /\ FileCovers' /\ PoolComplete'
       /\ WritersReadable' /\ BackupConsistent'
  BY DEF IInv, UnlockAccounts, process, keyrings, archives, Known, KeysOf,
         Readable, Validates, BackupRestorable, FileCovers, PoolComplete,
         Stored, WritersReadable, BackupConsistent
<1> QED
  BY <1>1, <1>2, <1>3, <1>4 DEF IInv

\* No writer holds an old key for a virtual key any more.
LEMMA LockKeysStep ==
  ASSUME IInv, LockKeys
  PROVE  IInv'
<1>1. TypeOK'
  BY DEF IInv, LockKeys, process, keyrings, archives, TypeOK, Keyring,
         Contents, Sealing, RotationStage, NoWrite, NoRotation, NoBackup
<1>2. RotationRuns'
  BY DEF IInv, LockKeys, process, keyrings, archives, RotationRuns, KeysFree,
         TypeOK
<1>3. RotationAdvances'
  <2>1. /\ rotation.at = "lock keys" /\ rotation'.at = "keys"
        /\ rotation'.todo = Stored \cap VirtualKeys
        /\ rows' = rows /\ writing' = writing /\ ring' = ring
    BY DEF LockKeys, keyrings
  <2> SUFFICES ASSUME NEW r \in Rows, r \notin Stored \cap VirtualKeys
               PROVE  /\ rows[r] \in {NoKey, ring.current}
                      /\ \A w \in Writers :
                           writing[w].row = r => writing[w].key = ring.current
    BY <2>1 DEF RotationAdvances, Renewed
  <2>2. CASE r \in Accounts
    BY <2>1, <2>2 DEF IInv, RotationAdvances, Renewed
  <2>3. CASE r \in VirtualKeys \ Stored
    BY <2>3 DEF LockKeys, KeysFree, Stored
  <2> QED  BY <2>2, <2>3
<1>4. Known' /\ Readable' /\ BackupRestorable' /\ FileCovers' /\ PoolComplete'
       /\ WritersReadable' /\ BackupConsistent'
  BY DEF IInv, LockKeys, process, keyrings, archives, Known, KeysOf, Readable,
         Validates, BackupRestorable, FileCovers, PoolComplete, Stored,
         WritersReadable, BackupConsistent
<1> QED
  BY <1>1, <1>2, <1>3, <1>4 DEF IInv

\* Now every row is renewed.
LEMMA UnlockKeysStep ==
  ASSUME IInv, UnlockKeys
  PROVE  IInv'
<1>1. TypeOK'
  BY DEF IInv, UnlockKeys, process, keyrings, archives, TypeOK, Keyring,
         Contents, Sealing, RotationStage, NoWrite, NoRotation, NoBackup
<1>2. RotationRuns'
  BY DEF IInv, UnlockKeys, process, keyrings, archives, RotationRuns
<1>3. RotationAdvances'
  BY DEF IInv, UnlockKeys, process, keyrings, archives, RotationAdvances,
         Renewed, RotationRuns
<1>4. Known' /\ Readable' /\ BackupRestorable' /\ FileCovers' /\ PoolComplete'
       /\ WritersReadable' /\ BackupConsistent'
  BY DEF IInv, UnlockKeys, process, keyrings, archives, Known, KeysOf,
         Readable, Validates, BackupRestorable, FileCovers, PoolComplete,
         Stored, WritersReadable, BackupConsistent
<1> QED
  BY <1>1, <1>2, <1>3, <1>4 DEF IInv

\* The keys that go are the key of no row and of no writer.
LEMMA DropPreviousStep ==
  ASSUME IInv, DropPrevious
  PROVE  IInv'
<1>1. /\ ring.current \in MasterKeys /\ ring' \in Keyring
      /\ ring'.current = ring.current /\ ring'.previous = {}
      /\ KeysOf(ring') = {ring.current}
  BY DEF IInv, TypeOK, Keyring, DropPrevious, KeysOf
<1>2. file = ring /\ up /\ backup.at = "idle" /\ file' \in {file, ring'}
  BY DEF IInv, RotationRuns, DropPrevious
<1>3. ring.current \in KeysOf(ring) /\ ring.current \in KeysOf(file')
  BY <1>1, <1>2 DEF KeysOf
<1>4. /\ \A r \in Rows : rows[r] \in {NoKey, ring.current}
      /\ \A w \in Writers : writing[w].row \in Rows => writing[w].key = ring.current
  BY DEF IInv, DropPrevious, RotationAdvances, Renewed
<1>5. TypeOK'
  BY <1>1, <1>2 DEF IInv, DropPrevious, process, archives, TypeOK, NoRotation,
                    RotationStage
<1>6. Known' /\ FileCovers'
  <2>1. KeysOf(file') \subseteq KeysOf(file) \cup {ring.current}
    BY <1>1, <1>2
  <2> QED
    BY <1>1, <1>2, <1>3, <2>1 DEF IInv, DropPrevious, Known, FileCovers, KeysOf
<1>7. Readable'
  BY <1>1, <1>3, <1>4 DEF DropPrevious, Readable, Validates, KeysOf
<1>8. WritersReadable'
  <2> SUFFICES ASSUME NEW w \in Writers, writing[w] # NoWrite
               PROVE  writing[w].key \in KeysOf(ring')
    BY <1>2 DEF DropPrevious, process, WritersReadable, KeysOf
  <2>1. writing[w].row \in Rows
    BY DEF IInv, TypeOK, Sealing
  <2> QED  BY <1>1, <1>4, <2>1
<1>9. RotationRuns' /\ RotationAdvances' /\ BackupConsistent'
  BY <1>2 DEF IInv, DropPrevious, process, archives, NoRotation, RotationRuns,
              RotationAdvances, Renewed, BackupConsistent
<1>10. PoolComplete' /\ BackupRestorable'
  BY DEF IInv, DropPrevious, process, archives, PoolComplete, Stored,
         BackupRestorable, Validates, KeysOf
<1> QED  BY <1>5, <1>6, <1>7, <1>8, <1>9, <1>10 DEF IInv

\* No rotation runs while the database is copied.
LEMMA BackupDatabaseStep ==
  ASSUME IInv, BackupDatabase
  PROVE  IInv'
<1>1. TypeOK'
  BY DEF IInv, BackupDatabase, process, keyrings, TypeOK, Keyring, Contents,
         Sealing, RotationStage, NoWrite, NoRotation, NoBackup
<1>2. RotationRuns'
  BY DEF IInv, BackupDatabase, process, keyrings, RotationRuns, BackupFree
<1>3. BackupConsistent'
  BY DEF IInv, BackupDatabase, process, keyrings, BackupConsistent, Validates,
         KeysOf, Readable, TypeOK
<1>4. Known' /\ Readable' /\ BackupRestorable' /\ FileCovers' /\ PoolComplete'
       /\ WritersReadable' /\ RotationAdvances'
  BY DEF IInv, BackupDatabase, process, keyrings, Known, KeysOf, Readable,
         Validates, BackupRestorable, FileCovers, PoolComplete, Stored,
         WritersReadable, RotationAdvances, Renewed
<1> QED
  BY <1>1, <1>2, <1>3, <1>4 DEF IInv

\* The key file that is copied still reads the rows that were copied.
LEMMA BackupKeyFileStep ==
  ASSUME IInv, BackupKeyFile
  PROVE  IInv'
<1>1. /\ archive'.rows = backup.rows /\ archive'.keyring = file
      /\ archive' \in [rows : Contents, keyring : Keyring]
  BY DEF IInv, TypeOK, BackupKeyFile
<1>2. NoBackup \in [at : {"idle", "key file"}, rows : Contents] /\ NoBackup.at = "idle"
  BY DEF NoBackup, Contents
<1>3. TypeOK'
  BY <1>1, <1>2 DEF IInv, BackupKeyFile, process, keyrings, TypeOK
<1>4. BackupRestorable'
  BY <1>1 DEF IInv, BackupKeyFile, BackupRestorable, BackupConsistent, Validates,
              KeysOf
<1>5. RotationRuns' /\ BackupConsistent'
  BY <1>2 DEF IInv, BackupKeyFile, process, keyrings, RotationRuns, BackupConsistent
<1>6. /\ Known' /\ Readable' /\ FileCovers' /\ PoolComplete' /\ WritersReadable'
      /\ RotationAdvances'
  BY DEF IInv, BackupKeyFile, process, keyrings, Known, Readable, Validates, KeysOf,
         FileCovers, PoolComplete, Stored, WritersReadable, RotationAdvances, Renewed
<1> QED  BY <1>3, <1>4, <1>5, <1>6 DEF IInv

\* An archive that failed replaces none.
LEMMA BackupFailsStep ==
  ASSUME IInv, BackupFails
  PROVE  IInv'
<1>1. TypeOK'
  BY DEF IInv, BackupFails, process, keyrings, TypeOK, Keyring, Contents,
         Sealing, RotationStage, NoWrite, NoRotation, NoBackup
<1>2. RotationRuns'
  BY DEF IInv, BackupFails, process, keyrings, RotationRuns, NoBackup
<1>3. BackupConsistent'
  BY DEF IInv, BackupFails, process, keyrings, BackupConsistent, Validates,
         KeysOf, NoBackup
<1>4. Known' /\ Readable' /\ BackupRestorable' /\ FileCovers' /\ PoolComplete'
       /\ WritersReadable' /\ RotationAdvances'
  BY DEF IInv, BackupFails, process, keyrings, Known, KeysOf, Readable,
         Validates, BackupRestorable, FileCovers, PoolComplete, Stored,
         WritersReadable, RotationAdvances, Renewed
<1> QED
  BY <1>1, <1>2, <1>3, <1>4 DEF IInv

\* A crash loses what was only in memory.
LEMMA CrashStep ==
  ASSUME IInv, Crash
  PROVE  IInv'
<1>1. TypeOK'
  <2>1. /\ NoRotation \in [at : RotationStage, todo : SUBSET Rows]
        /\ NoBackup \in [at : {"idle", "key file"}, rows : Contents]
    BY DEF NoRotation, NoBackup, RotationStage, Contents
  <2>2. writing' \in [Writers -> Sealing \cup {NoWrite}]
    BY DEF Crash
  <2>3. crashes' \in Nat
    <3>1. crashes \in Nat /\ crashes' = crashes + 1
      BY DEF IInv, TypeOK, Crash
    <3> QED  BY <3>1
  <2> QED
    BY <2>1, <2>2, <2>3 DEF IInv, TypeOK, Crash, keyrings
<1>2. Readable'
  BY DEF IInv, Crash, keyrings, Readable, Validates, KeysOf
<1>3. FileCovers'
  BY DEF IInv, Crash, keyrings, FileCovers, KeysOf
<1>4. PoolComplete'
  BY DEF IInv, Crash, keyrings, PoolComplete, Stored
<1>5. WritersReadable'
  BY DEF IInv, Crash, keyrings, WritersReadable, KeysOf, NoWrite
<1>6. RotationRuns'
  BY DEF IInv, Crash, keyrings, RotationRuns, NoWrite, NoRotation, NoBackup
<1>7. RotationAdvances'
  BY DEF IInv, Crash, keyrings, RotationAdvances, Renewed, NoRotation
<1>8. BackupConsistent'
  BY DEF IInv, Crash, keyrings, BackupConsistent, Validates, KeysOf, NoBackup
<1>9. Known' /\ BackupRestorable'
  BY DEF IInv, Crash, keyrings, Known, KeysOf, BackupRestorable, Validates
<1> QED
  BY <1>1, <1>2, <1>3, <1>4, <1>5, <1>6, <1>7, <1>8, <1>9 DEF IInv

\* A start that gets as far as serving has loaded every account into the pool.
LEMMA StartStep ==
  ASSUME NoShadowing, IInv, Start
  PROVE  IInv'
<1>1. configured' = {} /\ up' /\ ring' = file /\ rows' = Rewritten(Stored)
      /\ managed' = Stored \cap Accounts
  BY DEF Start, NoShadowing
<1>2. file.current \in MasterKeys /\ file.current \in KeysOf(file) /\ ~up
  BY DEF IInv, TypeOK, Keyring, KeysOf, Start
<1>3. /\ rows' \in Contents
      /\ \A r \in Rows : rows'[r] = IF r \in Stored THEN file.current ELSE NoKey
  BY <1>1, <1>2 DEF IInv, TypeOK, Contents, Rewritten, Stored
<1>4. TypeOK'
  BY <1>1, <1>3 DEF IInv, Start, archives, TypeOK, NoShadowing
<1>5. Known' /\ FileCovers'
  BY <1>1 DEF IInv, Start, Known, FileCovers, KeysOf
<1>6. Readable'
  BY <1>1, <1>2, <1>3 DEF Start, Readable, Validates, KeysOf
<1>7. PoolComplete'
  <2>1. Stored' = Stored
    BY <1>2, <1>3 DEF Stored
  <2> QED  BY <1>1, <2>1 DEF PoolComplete
<1>8. /\ WritersReadable' /\ RotationRuns' /\ RotationAdvances'
      /\ BackupConsistent'
  BY <1>2 DEF IInv, Start, archives, WritersReadable, RotationRuns, RotationAdvances,
              Renewed, BackupConsistent
<1>9. BackupRestorable'
  BY DEF IInv, Start, archives, BackupRestorable, Validates, KeysOf
<1> QED  BY <1>4, <1>5, <1>6, <1>7, <1>8, <1>9 DEF IInv

\* A start that fails leaves some rows written with the current key.
LEMMA StartFailsStep ==
  ASSUME IInv, StartFails
  PROVE  IInv'
<1>1. PICK written \in SUBSET Stored : rows' = Rewritten(written)
  BY DEF StartFails
<1>2. file.current \in MasterKeys /\ file.current \in KeysOf(file) /\ ~up
  BY DEF IInv, TypeOK, Keyring, KeysOf, StartFails
<1>3. /\ rows' \in Contents
      /\ \A r \in Rows : rows'[r] \in {rows[r], file.current}
  BY <1>1, <1>2 DEF IInv, TypeOK, Contents, Rewritten
<1>4. TypeOK'
  BY <1>3 DEF IInv, StartFails, process, keyrings, archives, TypeOK
<1>5. Readable'
  BY <1>2, <1>3 DEF IInv, StartFails, process, keyrings, Readable, Validates, KeysOf
<1>6. PoolComplete' /\ RotationAdvances'
  BY <1>2 DEF IInv, StartFails, process, keyrings, PoolComplete, RotationAdvances,
              RotationRuns, Renewed
<1>7. /\ Known' /\ FileCovers' /\ WritersReadable' /\ RotationRuns'
      /\ BackupConsistent' /\ BackupRestorable'
  BY DEF IInv, StartFails, process, keyrings, archives, Known, FileCovers, KeysOf,
         WritersReadable, RotationRuns, BackupConsistent, BackupRestorable, Validates
<1> QED  BY <1>4, <1>5, <1>6, <1>7 DEF IInv

-----------------------------------------------------------------------------
(* The theorems.                                                           *)

\* IInv is an invariant when the environment configures no id that SQLite has.
THEOREM Inductive == NoShadowing => (Spec => []IInv)
<1> SUFFICES ASSUME NoShadowing PROVE Spec => []IInv
  OBVIOUS
<1>1. Init => IInv
  BY InitHolds
<1>2. IInv /\ [Next]_vars => IInv'
  <2> SUFFICES ASSUME IInv, [Next]_vars PROVE IInv'
    OBVIOUS
  <2>1. CASE UNCHANGED vars
    BY <2>1, StutterStep
  <2>2. CASE Next
    BY <2>2, EncryptStep, WriteStep, WriteFailsStep, RemoveStep, RotateStep,
       RotateFailsStep, LockAccountsStep, ReencryptStep, ReencryptFailsStep,
       UnlockAccountsStep, LockKeysStep, UnlockKeysStep, DropPreviousStep,
       BackupDatabaseStep, BackupKeyFileStep, BackupFailsStep, CrashStep, StartStep,
       StartFailsStep DEF Next
  <2> QED  BY <2>1, <2>2
<1> QED  BY <1>1, <1>2, PTL DEF Spec

\* Every credential stays readable, in memory and after any crash, through any number
\* of rotations, writers and failing writes (SecretCipher.Rotate).
THEOREM CredentialsReadable == NoShadowing => (Spec => []Readable)
<1> SUFFICES ASSUME NoShadowing PROVE Spec => []Readable
  OBVIOUS
<1>1. IInv => Readable
  BY DEF IInv
<1> QED  BY <1>1, Inductive, PTL

\* Every archive holds the keys of every row in it (createBackup).
THEOREM ArchivesRestorable == NoShadowing => (Spec => []BackupRestorable)
<1> SUFFICES ASSUME NoShadowing PROVE Spec => []BackupRestorable
  OBVIOUS
<1>1. IInv => BackupRestorable
  BY DEF IInv
<1> QED  BY <1>1, Inductive, PTL

-----------------------------------------------------------------------------
(* Types, whatever the environment configures.                             *)

\* What writers, the rotation, backups and starts change keeps its type, and a key that
\* is generated is in neither keyring.
LEMMA TypesStep ==
  ASSUME TypeOK, Known, [Next]_vars
  PROVE  TypeOK' /\ Known'
<1>0. /\ NoRotation \in [at : RotationStage, todo : SUBSET Rows]
      /\ NoBackup \in [at : {"idle", "key file"}, rows : Contents]
  BY DEF NoRotation, NoBackup, RotationStage, Contents
<1>1. ASSUME NEW w \in Writers, NEW r \in Rows, Encrypt(w, r)
      PROVE  TypeOK' /\ Known'
  BY <1>1 DEF Encrypt, process, keyrings, archives, TypeOK, Keyring, Contents, Sealing,
              RotationStage, Known, KeysOf
<1>2. ASSUME NEW w \in Writers, Write(w) \/ WriteFails(w)
      PROVE  TypeOK' /\ Known'
  BY <1>2 DEF Write, WriteFails, process, keyrings, archives, TypeOK, Keyring, Contents,
              Sealing, RotationStage, Known, KeysOf
<1>3. ASSUME NEW a \in Accounts, RemoveManagedAccount(a)
      PROVE  TypeOK' /\ Known'
  BY <1>3 DEF RemoveManagedAccount, keyrings, archives, TypeOK, Keyring, Contents,
              RotationStage, Known, KeysOf
<1>4. CASE Rotate \/ RotateFails
  <2>1. PICK k \in MasterKeys \ generated :
          /\ generated' = generated \cup {k}
          /\ ring' \in {ring, Superseding(k)} /\ file' \in {file, Superseding(k)}
    BY <1>4 DEF Rotate, RotateFails, process
  <2>2. /\ Superseding(k) \in Keyring
        /\ Superseding(k).current \notin Superseding(k).previous
        /\ KeysOf(Superseding(k)) = KeysOf(ring) \cup {k}
    BY SupersedingKeeps DEF TypeOK, Known
  <2>3. UNCHANGED <<process, rows, writing, archives, crashes>>
    BY <1>4 DEF Rotate, RotateFails
  <2>4. rotation' \in [at : RotationStage, todo : SUBSET Rows]
    <3>1. CASE Rotate
      BY <3>1 DEF Rotate, RotationStage
    <3>2. CASE RotateFails
      BY <3>2 DEF RotateFails, TypeOK
    <3> QED  BY <1>4, <3>1, <3>2
  <2>5. TypeOK'
    BY <2>1, <2>2, <2>3, <2>4 DEF process, archives, TypeOK
  <2>6. /\ KeysOf(ring') \subseteq KeysOf(ring) \cup {k}
        /\ KeysOf(file') \subseteq KeysOf(file) \cup KeysOf(ring) \cup {k}
    BY <2>1, <2>2
  <2>7. Known'
    BY <2>1, <2>6 DEF Known, KeysOf
  <2> QED  BY <2>5, <2>7
<1>5. CASE \/ LockAccounts \/ Reencrypt \/ ReencryptFails \/ UnlockAccounts
           \/ LockKeys \/ UnlockKeys
  <2>1. UNCHANGED <<process, keyrings, writing, archives, crashes>>
    BY <1>5 DEF LockAccounts, Reencrypt, ReencryptFails, UnlockAccounts, LockKeys,
                UnlockKeys
  <2>2. rotation' \in [at : RotationStage, todo : SUBSET Rows]
    <3>1. CASE LockAccounts
      BY <3>1 DEF LockAccounts, TypeOK, RotationStage
    <3>2. CASE Reencrypt
      <4>1. /\ rotation.at \in RotationStage /\ rotation.todo \in SUBSET Rows
            /\ \E r \in rotation.todo :
                 rotation' = [rotation EXCEPT !.todo = rotation.todo \ {r}]
        BY <3>2 DEF Reencrypt, TypeOK
      <4>2. rotation = [at |-> rotation.at, todo |-> rotation.todo]
        BY DEF TypeOK
      <4>3. PICK left \in SUBSET Rows : rotation' = [at |-> rotation.at, todo |-> left]
        <5>1. PICK r : rotation' = [rotation EXCEPT !.todo = rotation.todo \ {r}]
          BY <4>1
        <5>2. rotation.todo \ {r} \in SUBSET Rows
          BY <4>1
        <5>3. rotation' = [at |-> rotation.at, todo |-> rotation.todo \ {r}]
          BY <4>2, <5>1
        <5> QED  BY <5>2, <5>3
      <4> QED  BY <4>1, <4>3
    <3>3. CASE ReencryptFails
      BY <1>0, <3>3 DEF ReencryptFails
    <3>4. CASE UnlockAccounts
      BY <3>4 DEF UnlockAccounts, RotationStage
    <3>5. CASE LockKeys
      BY <3>5 DEF LockKeys, RotationStage, Stored
    <3>6. CASE UnlockKeys
      BY <3>6 DEF UnlockKeys, RotationStage
    <3> QED  BY <1>5, <3>1, <3>2, <3>3, <3>4, <3>5, <3>6
  <2>3. rows' \in Contents
    BY <1>5 DEF LockAccounts, Reencrypt, ReencryptFails, UnlockAccounts, LockKeys,
                UnlockKeys, TypeOK, Contents, Keyring
  <2> QED
    BY <2>1, <2>2, <2>3 DEF process, keyrings, archives, TypeOK, Known, KeysOf
<1>6. CASE DropPrevious
  <2>1. /\ ring' \in Keyring /\ ring'.current = ring.current /\ ring'.previous = {}
        /\ file' \in {file, ring'} /\ rotation' = NoRotation
        /\ UNCHANGED <<process, rows, writing, archives, generated, crashes>>
    BY <1>6 DEF DropPrevious, TypeOK, Keyring
  <2>2. TypeOK'
    BY <1>0, <2>1 DEF process, archives, TypeOK
  <2>3. KeysOf(ring') \subseteq KeysOf(ring)
    BY <2>1 DEF KeysOf
  <2> QED
    BY <2>1, <2>2, <2>3 DEF Known, KeysOf
<1>7. CASE BackupDatabase \/ BackupKeyFile \/ BackupFails
  <2>1. UNCHANGED <<process, keyrings, rows, writing, rotation, crashes>>
    BY <1>7 DEF BackupDatabase, BackupKeyFile, BackupFails
  <2>2. /\ backup' \in [at : {"idle", "key file"}, rows : Contents]
        /\ archive' \in [rows : Contents, keyring : Keyring]
    <3>1. CASE BackupDatabase
      BY <3>1 DEF BackupDatabase, TypeOK
    <3>2. CASE BackupKeyFile
      BY <1>0, <3>2 DEF BackupKeyFile, TypeOK
    <3>3. CASE BackupFails
      BY <1>0, <3>3 DEF BackupFails, TypeOK
    <3> QED  BY <1>7, <3>1, <3>2, <3>3
  <2> QED
    BY <2>1, <2>2 DEF process, keyrings, TypeOK, Known, KeysOf
<1>8. CASE Crash
  <2>1. writing' \in [Writers -> Sealing \cup {NoWrite}]
    BY <1>8 DEF Crash
  <2>2. crashes' \in Nat
    <3>1. crashes \in Nat /\ crashes' = crashes + 1
      BY <1>8 DEF TypeOK, Crash
    <3> QED  BY <3>1
  <2>3. TypeOK'
    BY <1>0, <1>8, <2>1, <2>2 DEF TypeOK, Crash, keyrings
  <2> QED
    BY <1>8, <2>3 DEF Crash, keyrings, Known, KeysOf
<1>9. CASE Start \/ StartFails
  <2>1. \E written \in SUBSET Rows : rows' = Rewritten(written)
    BY <1>9 DEF Start, StartFails, Stored
  <2>2. rows' \in Contents
    BY <2>1 DEF TypeOK, Contents, Keyring, Rewritten
  <2>3. TypeOK'
    BY <1>9, <2>2 DEF Start, StartFails, process, keyrings, archives, TypeOK
  <2> QED
    BY <1>9, <2>3 DEF Start, StartFails, keyrings, Known, KeysOf
<1>10. CASE UNCHANGED vars
  BY <1>10 DEF vars, TypeOK, Known, KeysOf
<1> QED
  BY <1>1, <1>2, <1>3, <1>4, <1>5, <1>6, <1>7, <1>8, <1>9, <1>10 DEF Next

\* Every variable keeps its type and no key is both current and previous, even when the
\* environment configures the id of an account of SQLite (SecretCipher.Rotate).
THEOREM TypeCorrect == Spec => []TypeOK
<1>1. Init => TypeOK /\ Known
  BY DEF Init, NoWrite, NoRotation, NoBackup, TypeOK, Keyring, Contents, RotationStage,
         Known, KeysOf
<1>2. TypeOK /\ Known /\ [Next]_vars => TypeOK' /\ Known'
  BY TypesStep
<1> QED  BY <1>1, <1>2, PTL DEF Spec
=============================================================================
