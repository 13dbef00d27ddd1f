---------------------------- MODULE ArtifactStore ----------------------------
(***************************************************************************)
(* The artifact store (infrastructure/artifacts/store.py), a directory     *)
(* that the API process, the workers and the CLI share without a lock.     *)
(* Public and internal contents live in a content-addressed directory, one *)
(* blob per content, and one metadata file per content and project; each   *)
(* sensitive content has a file of its own in the vault, encrypted with    *)
(* the project's key.  Every replace, unlink, read and keyring access is a *)
(* step, and a process may stop between any two.                           *)
(***************************************************************************)
EXTENDS Naturals, FiniteSets

CONSTANTS
    Procs,        \* the processes that use the store
    Contents,     \* the contents; equal contents have equal digests
    Projects,
    MaxVault,     \* bound: sensitive artifacts
    MaxKeys       \* bound: keys generated

ASSUME StoreBounds == MaxVault \in Nat /\ MaxKeys \in Nat

VARIABLES
    blobs,     \* the contents present in cas/
    meta,      \* metadata/ of the CAS artifacts
    vault,     \* vault/ and its metadata
    keyring,   \* the key of each project in the keyring (0: none)
    keys,      \* how many keys were generated
    ops,       \* the operation each process is in
    returned,  \* the artifacts that some put has returned
    purges,    \* the artifacts that some purge was called for
    raced      \* the projects of which two processes created the key at once,
               \* and the contents with a purge beside another operation

vars == <<blobs, meta, vault, keyring, keys, ops, returned, purges, raced>>

(* An artifact id of the CAS is the digest and the authority it is for.    *)
Artifacts == Contents \X Projects

VaultIds == 1..MaxVault

VaultRow == [project : Projects, key : 1..MaxKeys,
             state : {"bytes", "live", "unlinked", "purged"}]

NoFile == [state |-> "absent"]

Idle == [stage |-> "idle"]

Ops == [stage : {"blob", "check", "write", "scan", "unlink", "keep", "tombstone"},
        artifact : Artifacts]
       \cup [stage : {"key", "setkey", "seal"}, project : Projects, key : 0..MaxKeys]
       \cup [stage : {"vaultmeta", "vaultunlink"}, id : VaultIds]

TypeOK ==
    /\ blobs \subseteq Contents
    /\ meta \in [Artifacts -> {"absent", "live", "tombstone"}]
    /\ vault \in [VaultIds -> {NoFile} \cup VaultRow]
    /\ keyring \in [Projects -> 0..MaxKeys] /\ keys \in 0..MaxKeys
    /\ ops \in [Procs -> {Idle} \cup Ops]
    /\ returned \subseteq Artifacts /\ purges \subseteq Artifacts
    /\ raced \subseteq Projects \cup Contents

Init ==
    /\ blobs = {}
    /\ meta = [a \in Artifacts |-> "absent"]
    /\ vault = [v \in VaultIds |-> NoFile]
    /\ keyring = [p \in Projects |-> 0] /\ keys = 0
    /\ ops = [p \in Procs |-> Idle]
    /\ returned = {} /\ purges = {} /\ raced = {}

Goto(p, op) == ops' = [ops EXCEPT ![p] = op]

PurgeStages == {"scan", "unlink", "keep", "tombstone"}

(* Operations on a content that are under way, in some of the stages. *)
Handling(x, stages) == {p \in Procs : ops[p].stage \in stages /\ ops[p].artifact[1] = x}

-----------------------------------------------------------------------------
(* put of a public or internal content. *)
Put(p, a) ==
    /\ ops[p] = Idle
    /\ Goto(p, [stage |-> "blob", artifact |-> a])
    /\ raced' = IF Handling(a[1], PurgeStages) # {} THEN raced \cup {a[1]} ELSE raced
    /\ UNCHANGED <<blobs, meta, vault, keyring, keys, returned, purges>>

(* The blob exists already, or a temporary file replaces it. *)
PutBlob(p) ==
    /\ ops[p].stage = "blob"
    /\ blobs' = blobs \cup {ops[p].artifact[1]}
    /\ Goto(p, [ops[p] EXCEPT !.stage = "check"])
    /\ UNCHANGED <<meta, vault, keyring, keys, returned, purges, raced>>

(* A faulty variant: a tombstone does not count as metadata. *)
PutCheckLiveOnly(p) ==
    /\ ops[p].stage = "check"
    /\ LET a == ops[p].artifact IN
         IF meta[a] = "live"
           THEN Goto(p, Idle) /\ returned' = returned \cup {a}
           ELSE Goto(p, [ops[p] EXCEPT !.stage = "write"]) /\ UNCHANGED returned
    /\ UNCHANGED <<blobs, meta, vault, keyring, keys, purges, raced>>

(* Metadata that is there is returned if it agrees; a tombstone never      *)
(* agrees, and put fails.                                                  *)
PutCheck(p) ==
    /\ ops[p].stage = "check"
    /\ LET a == ops[p].artifact IN
         CASE meta[a] = "live"      -> Goto(p, Idle) /\ returned' = returned \cup {a}
           [] meta[a] = "tombstone" -> Goto(p, Idle) /\ UNCHANGED returned
           [] OTHER -> Goto(p, [ops[p] EXCEPT !.stage = "write"]) /\ UNCHANGED returned
    /\ UNCHANGED <<blobs, meta, vault, keyring, keys, purges, raced>>

PutWrite(p) ==
    /\ ops[p].stage = "write"
    /\ meta' = [meta EXCEPT ![ops[p].artifact] = "live"]
    /\ returned' = returned \cup {ops[p].artifact}
    /\ Goto(p, Idle)
    /\ UNCHANGED <<blobs, vault, keyring, keys, purges, raced>>

-----------------------------------------------------------------------------
(* put of an authorized sensitive content: get_or_create of the key first. *)
PutSensitive(p, project) ==
    /\ ops[p] = Idle
    /\ Cardinality({v \in VaultIds : vault[v] # NoFile})
         + Cardinality({q \in Procs : ops[q].stage \in {"key", "setkey", "seal"}}) < MaxVault
    /\ Goto(p, [stage |-> "key", project |-> project, key |-> 0])
    /\ UNCHANGED <<blobs, meta, vault, keyring, keys, returned, purges, raced>>

(* A faulty variant: a new key for every artifact. *)
KeyAlwaysNew(p) ==
    /\ ops[p].stage = "key"
    /\ keys < MaxKeys /\ keys' = keys + 1
    /\ Goto(p, [ops[p] EXCEPT !.stage = "setkey", !.key = keys + 1])
    /\ UNCHANGED <<blobs, meta, vault, keyring, returned, purges, raced>>

KeyRead(p) ==
    /\ ops[p].stage = "key"
    /\ LET k == keyring[ops[p].project] IN
         IF k # 0
           THEN Goto(p, [ops[p] EXCEPT !.stage = "seal", !.key = k]) /\ UNCHANGED keys
           ELSE /\ keys < MaxKeys /\ keys' = keys + 1
                /\ Goto(p, [ops[p] EXCEPT !.stage = "setkey", !.key = keys + 1])
    /\ raced' = IF keyring[ops[p].project] = 0 /\ \E q \in Procs :
                     ops[q].stage = "setkey" /\ ops[q].project = ops[p].project
                  THEN raced \cup {ops[p].project} ELSE raced
    /\ UNCHANGED <<blobs, meta, vault, keyring, returned, purges>>

KeySet(p) ==
    /\ ops[p].stage = "setkey"
    /\ keyring' = [keyring EXCEPT ![ops[p].project] = ops[p].key]
    /\ Goto(p, [ops[p] EXCEPT !.stage = "seal"])
    /\ UNCHANGED <<blobs, meta, vault, keys, returned, purges, raced>>

(* The encrypted file is written under a new artifact id. *)
Seal(p) ==
    /\ ops[p].stage = "seal"
    /\ \E v \in VaultIds :
         /\ vault[v] = NoFile /\ \A w \in 1..(v - 1) : vault[w] # NoFile
         /\ vault' = [vault EXCEPT ![v] = [project |-> ops[p].project, key |-> ops[p].key,
                                           state |-> "bytes"]]
         /\ Goto(p, [stage |-> "vaultmeta", id |-> v])
    /\ UNCHANGED <<blobs, meta, keyring, keys, returned, purges, raced>>

SealMeta(p) ==
    /\ ops[p].stage = "vaultmeta"
    /\ vault' = [vault EXCEPT ![ops[p].id].state = "live"]
    /\ Goto(p, Idle)
    /\ UNCHANGED <<blobs, meta, keyring, keys, returned, purges, raced>>

-----------------------------------------------------------------------------
(* purge of a content that is not purged yet. *)
Purge(p, a) ==
    /\ ops[p] = Idle
    /\ meta[a] = "live"
    /\ purges' = purges \cup {a}
    /\ Goto(p, [stage |-> "scan", artifact |-> a])
    /\ raced' = IF Handling(a[1], PurgeStages \cup {"blob", "check", "write"}) # {}
                  THEN raced \cup {a[1]} ELSE raced
    /\ UNCHANGED <<blobs, meta, vault, keyring, keys, returned>>

(* Faulty variant: the blob belongs to the artifact. *)
PurgeScanAlone(p) ==
    /\ ops[p].stage = "scan"
    /\ Goto(p, [ops[p] EXCEPT !.stage = "unlink"])
    /\ UNCHANGED <<blobs, meta, vault, keyring, keys, returned, purges, raced>>

(* Another live artifact with the digest keeps the blob. *)
PurgeScan(p) ==
    /\ ops[p].stage = "scan"
    /\ LET a == ops[p].artifact IN
         Goto(p, [ops[p] EXCEPT !.stage =
            IF \E b \in Artifacts \ {a} : b[1] = a[1] /\ meta[b] = "live"
              THEN "keep" ELSE "unlink"])
    /\ UNCHANGED <<blobs, meta, vault, keyring, keys, returned, purges, raced>>

PurgeUnlink(p) ==
    /\ ops[p].stage \in {"unlink", "keep"}
    /\ blobs' = IF ops[p].stage = "unlink" THEN blobs \ {ops[p].artifact[1]} ELSE blobs
    /\ Goto(p, [ops[p] EXCEPT !.stage = "tombstone"])
    /\ UNCHANGED <<meta, vault, keyring, keys, returned, purges, raced>>

PurgeTombstone(p) ==
    /\ ops[p].stage = "tombstone"
    /\ meta' = [meta EXCEPT ![ops[p].artifact] = "tombstone"]
    /\ Goto(p, Idle)
    /\ UNCHANGED <<blobs, vault, keyring, keys, returned, purges, raced>>

(* A sensitive artifact has its file for itself. *)
PurgeSensitive(p, v) ==
    /\ ops[p] = Idle
    /\ vault[v].state \in {"live", "unlinked"}
    /\ vault' = [vault EXCEPT ![v].state = "unlinked"]
    /\ Goto(p, [stage |-> "vaultunlink", id |-> v])
    /\ UNCHANGED <<blobs, meta, keyring, keys, returned, purges, raced>>

PurgeVault(p) ==
    /\ ops[p].stage = "vaultunlink"
    /\ vault' = [vault EXCEPT ![ops[p].id].state = "purged"]
    /\ Goto(p, Idle)
    /\ UNCHANGED <<blobs, meta, keyring, keys, returned, purges, raced>>

(* A process stops. *)
Stop(p) ==
    /\ ops[p] # Idle
    /\ Goto(p, Idle)
    /\ UNCHANGED <<blobs, meta, vault, keyring, keys, returned, purges, raced>>

Next ==
    \E p \in Procs :
        \/ \E a \in Artifacts : Put(p, a) \/ Purge(p, a)
        \/ \E project \in Projects : PutSensitive(p, project)
        \/ \E v \in VaultIds : PurgeSensitive(p, v)
        \/ PutBlob(p) \/ PutCheck(p) \/ PutWrite(p)
        \/ KeyRead(p) \/ KeySet(p) \/ Seal(p) \/ SealMeta(p)
        \/ PurgeScan(p) \/ PurgeUnlink(p) \/ PurgeTombstone(p) \/ PurgeVault(p)
        \/ Stop(p)

Spec == Init /\ [][Next]_vars
-----------------------------------------------------------------------------
(* put and get: an artifact that put has returned stays readable until it  *)
(* is purged itself, also when an artifact with the same content is purged *)
(* and when a process stops in the middle of either, unless the content    *)
(* was once purged while another operation was handling it.                *)
ReadableUntilPurged ==
    /\ TypeOK
    /\ \A a \in returned \ purges :
          a[1] \notin raced => meta[a] = "live" /\ a[1] \in blobs

(* purge: a tombstone is never replaced by live metadata, unless the       *)
(* content was once purged while another operation was handling it.        *)
TombstonesAreFinal ==
    [][\A a \in Artifacts : 
          meta[a] = "tombstone" /\ a[1] \notin raced => meta'[a] = "tombstone"]_vars

(* get of a sensitive artifact decrypts with the key in the keyring: it is *)
(* the key the artifact was encrypted with, unless two processes once      *)
(* created the key of the project at the same time.                        *)
VaultReadable ==
    \A v \in VaultIds :
        vault[v].state = "live" /\ vault[v].project \notin raced
            => keyring[vault[v].project] = vault[v].key
=============================================================================
