----------------------------- MODULE MasterKey -----------------------------
(***************************************************************************)
(* The master key that encrypts the credentials in SQLite (SecretCipher),  *)
(* its rotation, the writers that encrypt while it is rotated, backups of  *)
(* the database together with the key file, and crashes between any two    *)
(* steps of them.                                                          *)
(*                                                                         *)
(* A row is an upstream account or a virtual key; of its contents the      *)
(* model keeps only the master key it is encrypted with.  accountsMu,      *)
(* keys.mu and backupMu are not variables: who holds them follows from     *)
(* where the writers, the rotation and the backup stand.                   *)
(***************************************************************************)
EXTENDS Naturals, FiniteSets

CONSTANTS
  Accounts,        \* ids of upstream accounts kept in SQLite
  VirtualKeys,     \* ids of virtual keys
  Default,         \* vk-default, which every start writes
  MasterKeys,      \* bound: the master keys ever generated
  Environments,    \* ids that UPSTREAM_ACCOUNTS_JSON may configure at a start
  Writers,         \* admin calls and usage bookings that write a row
  MaxCrashes,      \* bound: crashes of the process
  NoKey, NoRow

Rows == Accounts \cup VirtualKeys

ASSUME MasterKeyAssumption ==
  /\ Default \in VirtualKeys /\ Accounts \cap VirtualKeys = {}
  /\ NoKey \notin MasterKeys /\ NoRow \notin Rows
  /\ Environments \subseteq SUBSET Accounts /\ {} \in Environments
  /\ MaxCrashes \in Nat

VARIABLES
  up,        \* whether the process runs
  configured,\* the account ids the environment of this process configures
  ring,      \* the keyring in memory: its current key and the previous ones
  file,      \* the keyring in the key file
  rows,      \* the key each row is encrypted with; NoKey: there is no such row
  managed,   \* the accounts of SQLite that the pool in memory contains
  writing,   \* what each writer is about to write, under the row's mutex
  rotation,  \* where the rotation stands, and the rows it has yet to write
  backup,    \* the rows copied by the backup under way
  archive,   \* the last archive that was completed
  generated, \* history: the master keys generated so far
  crashes

process == <<up, configured, managed>>
keyrings == <<ring, file, generated>>
archives == <<backup, archive>>
vars == <<up, configured, ring, file, rows, managed, writing, rotation, backup,
          archive, generated, crashes>>

-----------------------------------------------------------------------------
NoWrite == [row |-> NoRow, key |-> NoKey]
NoRotation == [at |-> "idle", todo |-> {}]
NoBackup == [at |-> "idle", rows |-> [r \in Rows |-> NoKey]]

Stored == {r \in Rows : rows[r] # NoKey}
KeysOf(keyring) == keyring.previous \cup {keyring.current}

\* ValidateStoredSecrets: each row finds its key in the keyring.
Validates(contents, keyring) ==
  \A r \in Rows : contents[r] # NoKey => contents[r] \in KeysOf(keyring)

\* The mutexes.  Each is free when neither a writer nor the rotation holds it.
AnyTime == TRUE
AccountsFree ==
  /\ rotation.at # "accounts"
  /\ \A w \in Writers : writing[w].row \notin Accounts
KeysFree ==
  /\ rotation.at # "keys"
  /\ \A w \in Writers : writing[w].row \notin VirtualKeys
BackupFree == rotation.at = "idle" /\ backup.at = "idle"

Init ==
  /\ up = TRUE /\ configured \in Environments
  /\ \E k \in MasterKeys :
       /\ file = [current |-> k, previous |-> {}]
       /\ rows = [r \in Rows |-> IF r = Default THEN k ELSE NoKey]
       /\ generated = {k}
  /\ ring = file
  /\ managed = {}
  /\ writing = [w \in Writers |-> NoWrite]
  /\ rotation = NoRotation
  /\ backup = NoBackup
  /\ archive = [rows |-> [r \in Rows |-> NoKey], keyring |-> file]
  /\ crashes = 0

-----------------------------------------------------------------------------
(* Writers: the mutex of the row is held from before Encrypt to after the  *)
(* write.                                                                  *)

Encrypt(w, r) ==
  /\ up /\ writing[w] = NoWrite
  /\ \/ r \in VirtualKeys /\ KeysFree
     \/ r \in Accounts \ configured /\ AccountsFree
  /\ writing' = [writing EXCEPT ![w] = [row |-> r, key |-> ring.current]]
  /\ UNCHANGED <<process, keyrings, rows, rotation, archives, crashes>>

\* persistKeyLocked, persistManagedAccount; an account joins the pool with its row.
Write(w) ==
  /\ writing[w] # NoWrite
  /\ rows' = [rows EXCEPT ![writing[w].row] = writing[w].key]
  /\ managed' = managed \cup ({writing[w].row} \cap Accounts)
  /\ writing' = [writing EXCEPT ![w] = NoWrite]
  /\ UNCHANGED <<up, configured, keyrings, rotation, archives, crashes>>

WriteFails(w) ==
  /\ writing[w] # NoWrite
  /\ writing' = [writing EXCEPT ![w] = NoWrite]
  /\ UNCHANGED <<process, keyrings, rows, rotation, archives, crashes>>

RemoveManagedAccount(a) ==
  /\ up /\ a \in managed /\ AccountsFree
  /\ rows' = [rows EXCEPT ![a] = NoKey]
  /\ managed' = managed \ {a}
  /\ UNCHANGED <<up, configured, keyrings, writing, rotation, archives, crashes>>

-----------------------------------------------------------------------------
(* Rotation, under backupMu from its start to its end.                     *)

\* The key it supersedes stays readable until every row is written again.
SupersededBy(k) == [current |-> k, previous |-> KeysOf(ring) \cup {k}]
Superseding(k) == [current |-> k, previous |-> KeysOf(ring)]

\* The file is replaced by a rename, under the mutex Encrypt reads the key with.
Rotate ==
  /\ up /\ BackupFree
  /\ \E k \in MasterKeys \ generated :
       /\ generated' = generated \cup {k}
       /\ ring' = Superseding(k)
       /\ file' = ring'
  /\ rotation' = [at |-> "lock accounts", todo |-> {}]
  /\ UNCHANGED <<process, rows, writing, archives, crashes>>

\* Writing the file failed: before the rename, or in the chmod after it.
RotateFails ==
  /\ up /\ BackupFree
  /\ \E k \in MasterKeys \ generated :
       /\ generated' = generated \cup {k}
       /\ file' \in {file, Superseding(k)}
  /\ UNCHANGED <<process, ring, rows, writing, rotation, archives, crashes>>

LockAccounts ==
  /\ rotation.at = "lock accounts" /\ AccountsFree
  /\ rotation' = [at |-> "accounts", todo |-> managed]
  /\ UNCHANGED <<process, keyrings, rows, writing, archives, crashes>>

\* reencryptStoredSecrets writes one row after the other.
Reencrypt ==
  /\ \E r \in rotation.todo :
       /\ rows' = [rows EXCEPT ![r] = ring.current]
       /\ rotation' = [rotation EXCEPT !.todo = @ \ {r}]
  /\ UNCHANGED <<process, keyrings, writing, archives, crashes>>

\* The rotation gives up; both keyrings keep the old key and the new one.
ReencryptFails ==
  /\ rotation.todo # {}
  /\ rotation' = NoRotation
  /\ UNCHANGED <<process, keyrings, rows, writing, archives, crashes>>

UnlockAccounts ==
  /\ rotation.at = "accounts" /\ rotation.todo = {}
  /\ rotation' = [at |-> "lock keys", todo |-> {}]
  /\ UNCHANGED <<process, keyrings, rows, writing, archives, crashes>>

LockKeys ==
  /\ rotation.at = "lock keys" /\ KeysFree
  /\ rotation' = [at |-> "keys", todo |-> Stored \cap VirtualKeys]
  /\ UNCHANGED <<process, keyrings, rows, writing, archives, crashes>>

UnlockKeys ==
  /\ rotation.at = "keys" /\ rotation.todo = {}
  /\ rotation' = [at |-> "drop", todo |-> {}]
  /\ UNCHANGED <<process, keyrings, rows, writing, archives, crashes>>

\* Every row has been written again: the old keys go, from memory in any case and
\* from the file unless writing it fails.
DropPrevious ==
  /\ rotation.at = "drop"
  /\ ring' = [ring EXCEPT !.previous = {}]
  /\ file' \in {file, ring'}
  /\ rotation' = NoRotation
  /\ UNCHANGED <<process, rows, writing, archives, generated, crashes>>

-----------------------------------------------------------------------------
(* Backups.                                                                *)

\* VACUUM INTO copies the database as of one moment.
BackupDatabase ==
  /\ up /\ BackupFree
  /\ backup' = [at |-> "key file", rows |-> rows]
  /\ UNCHANGED <<process, keyrings, rows, writing, rotation, archive, crashes>>

BackupKeyFile ==
  /\ backup.at = "key file"
  /\ archive' = [rows |-> backup.rows, keyring |-> file]
  /\ backup' = NoBackup
  /\ UNCHANGED <<process, keyrings, rows, writing, rotation, crashes>>

\* Any write of the archive may fail: it is removed.
BackupFails ==
  /\ backup.at = "key file"
  /\ backup' = NoBackup
  /\ UNCHANGED <<process, keyrings, rows, writing, rotation, archive, crashes>>

-----------------------------------------------------------------------------
(* Crashes and starts.                                                     *)

Crash ==
  /\ up /\ crashes < MaxCrashes
  /\ crashes' = crashes + 1
  /\ up' = FALSE
  /\ writing' = [w \in Writers |-> NoWrite]
  /\ rotation' = NoRotation
  /\ backup' = NoBackup
  /\ managed' = {}
  /\ UNCHANGED <<configured, keyrings, rows, archive>>

\* The process starts if every row can be read, and writes each again with the
\* current key before it serves; a failing write ends it.
Rewritten(written) ==
  [r \in Rows |-> IF r \in written THEN file.current ELSE rows[r]]
Start ==
  /\ ~up /\ Validates(rows, file)
  /\ ring' = file
  /\ \E environment \in Environments :
       /\ configured' = environment
       /\ rows' = Rewritten(Stored)
       /\ managed' = Stored \cap (Accounts \ environment)
  /\ up' = TRUE
  /\ UNCHANGED <<file, writing, rotation, archives, generated, crashes>>
StartFails ==
  /\ ~up /\ Validates(rows, file)
  /\ \E written \in SUBSET Stored : rows' = Rewritten(written)
  /\ UNCHANGED <<process, keyrings, writing, rotation, archives, crashes>>

-----------------------------------------------------------------------------
Next ==
  \/ \E w \in Writers : (\E r \in Rows : Encrypt(w, r)) \/ Write(w) \/ WriteFails(w)
  \/ \E a \in Accounts : RemoveManagedAccount(a)
  \/ Rotate \/ RotateFails \/ LockAccounts \/ Reencrypt \/ ReencryptFails
  \/ UnlockAccounts \/ LockKeys \/ UnlockKeys \/ DropPrevious
  \/ BackupDatabase \/ BackupKeyFile \/ BackupFails
  \/ Crash \/ Start \/ StartFails

Spec == Init /\ [][Next]_vars

-----------------------------------------------------------------------------
(* Properties.                                                             *)

Keyring == [current : MasterKeys, previous : SUBSET MasterKeys]
Contents == [Rows -> MasterKeys \cup {NoKey}]
Sealing == [row : Rows, key : MasterKeys]
RotationStage == {"idle", "lock accounts", "accounts", "lock keys", "keys", "drop"}

\* Every variable keeps its type, and a key is never both current and previous.
TypeOK ==
  /\ up \in BOOLEAN
  /\ configured \in Environments
  /\ ring \in Keyring /\ ring.current \notin ring.previous
  /\ file \in Keyring /\ file.current \notin file.previous
  /\ rows \in Contents
  /\ managed \subseteq Accounts
  /\ writing \in [Writers -> Sealing \cup {NoWrite}]
  /\ rotation \in [at : RotationStage, todo : SUBSET Rows]
  /\ backup \in [at : {"idle", "key file"}, rows : Contents]
  /\ archive \in [rows : Contents, keyring : Keyring]
  /\ generated \subseteq MasterKeys
  /\ crashes \in Nat

\* Whenever the process dies, the next start can read every credential with the
\* key file it finds, and so can the process that runs: no order of rotation,
\* writers, failing writes and crashes leaves a row behind whose key is gone
\* (SecretCipher.Rotate, ValidateStoredSecrets; README "a rotation first keeps the
\* old key, rewrites all credentials and then removes it").
Readable ==
  /\ Validates(rows, file)
  /\ up => Validates(rows, ring)

\* An archive can be restored: the key file in it reads the database in it, although
\* the two are copied one after the other (createBackup, backupMu).
BackupRestorable == Validates(archive.rows, archive.keyring)
=============================================================================
