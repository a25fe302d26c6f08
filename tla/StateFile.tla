----------------------------- MODULE StateFile ------------------------------
(***************************************************************************)
(* internal/state/state.go: FileStore, one JSON file with the identities   *)
(* of all instances.  Save reads the file, merges, writes a temporary file *)
(* and renames it over the target, all under one mutex; the process may    *)
(* end between any two of these steps.  The temporary file has a name of   *)
(* its own and is never read: what it holds is `saving[c].data', and what  *)
(* a crash leaves of it does not matter.                                   *)
(***************************************************************************)
CONSTANTS Client,       \* the northbound clients that share the store
          Url,
          UrlOf,        \* forgejo_url of a client
          Identity, NoIdentity,
          Unlocked      \* nobody holds FileStore.mu

ASSUME FileAssumption == /\ UrlOf \in [Client -> Url]
                         /\ NoIdentity \notin Identity
                         /\ Unlocked \notin Client

VARIABLES disk,     \* the identities in the file; none if there is no file
          mu,       \* who holds FileStore.mu
          saving    \* the Save of each client: where it is, what it writes

fileVars == <<disk, mu, saving>>

Contents == [Url -> Identity \union {NoIdentity}]

NotSaving == [pc |-> "idle", id |-> NoIdentity, data |-> [u \in Url |-> NoIdentity]]

FileTypeOK == /\ disk \in Contents
              /\ mu \in Client \union {Unlocked}
              /\ saving \in [Client -> [pc : {"idle", "lock", "write", "rename"},
                                        id : Identity \union {NoIdentity}, data : Contents]]

FileInit == /\ disk = [u \in Url |-> NoIdentity]
            /\ mu = Unlocked
            /\ saving = [c \in Client |-> NotSaving]

NoSave(c) == saving[c] = NotSaving

\* Load, under the mutex.
Load(c) == disk[UrlOf[c]]

CallSave(c, id) == /\ NoSave(c)
                   /\ saving' = [saving EXCEPT ![c].pc = "lock", ![c].id = id]
                   /\ UNCHANGED <<disk, mu>>

\* Mutation of ReadAndMerge: the file is read without the mutex.
ReadAndMergeUnlocked(c) ==
    /\ saving[c].pc = "lock"
    /\ saving' = [saving EXCEPT ![c].pc = "write",
                                ![c].data = [disk EXCEPT ![UrlOf[c]] = saving[c].id]]
    /\ UNCHANGED <<disk, mu>>

\* The file is read and the identity set among those of the other URLs.
ReadAndMerge(c) ==
    /\ saving[c].pc = "lock"
    /\ mu = Unlocked
    /\ mu' = c
    /\ saving' = [saving EXCEPT ![c].pc = "write",
                                ![c].data = [disk EXCEPT ![UrlOf[c]] = saving[c].id]]
    /\ UNCHANGED disk

\* Mutation of WriteTemp: the target is truncated and written in place.
WriteInPlace(c) == /\ saving[c].pc = "write"
                   /\ disk' = [u \in Url |-> NoIdentity]
                   /\ saving' = [saving EXCEPT ![c].pc = "rename"]
                   /\ UNCHANGED mu

\* The temporary file is created, written, synced and closed.
WriteTemp(c) == /\ saving[c].pc = "write"
                /\ saving' = [saving EXCEPT ![c].pc = "rename"]
                /\ UNCHANGED <<disk, mu>>

\* It replaces the target; Save succeeds.
Rename(c) == /\ saving[c].pc = "rename"
             /\ disk' = saving[c].data
             /\ mu' = Unlocked
             /\ saving' = [saving EXCEPT ![c] = NotSaving]

\* Mutation of SaveFails: the error path does not unlock the mutex.
SaveFailsLocked(c) == /\ saving[c].pc \in {"write", "rename"}
                      /\ saving' = [saving EXCEPT ![c] = NotSaving]
                      /\ UNCHANGED <<disk, mu>>

\* The file cannot be read, or a step on the temporary file fails.
SaveFails(c) == /\ saving[c].pc \in {"write", "rename"}
                /\ mu' = Unlocked
                /\ saving' = [saving EXCEPT ![c] = NotSaving]
                /\ UNCHANGED disk

\* The process ends; only the file outlives it.
FileAfterExit == /\ mu' = Unlocked
                 /\ saving' = [c \in Client |-> NotSaving]
                 /\ UNCHANGED disk

FileNext == \/ \E c \in Client : \/ \E id \in Identity : CallSave(c, id)
                                 \/ ReadAndMerge(c)
                                 \/ WriteTemp(c)
                                 \/ Rename(c)
                                 \/ SaveFails(c)
            \/ FileAfterExit

FileSpec == FileInit /\ [][FileNext]_fileVars

Store == INSTANCE IdentityStore WITH kept <- disk

\* The file behaves like the store: every change of it is the Save of one URL's
\* identity, in one step; crashes, failing writes and concurrent Saves neither
\* damage it nor take another instance's identity back.
StoreSpec == Store!StoreSpec
=============================================================================
