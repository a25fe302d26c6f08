---------------------------- MODULE StartupProofs ---------------------------
(***************************************************************************)
(* Theorems about StateFile and Startup, for every number of instances and *)
(* runners.                                                                *)
(***************************************************************************)
EXTENDS Startup, TLAPS

-----------------------------------------------------------------------------
(* The state file *)

\* Whoever has read the file holds the mutex, and will write what is in the file
\* with its own identity set.
SaveInv == \A c \in Client :
    /\ saving[c].pc = "idle" => NoSave(c)
    /\ saving[c].pc # "idle" => saving[c].id \in Identity
    /\ saving[c].pc \in {"write", "rename"} =>
          mu = c /\ saving[c].data = [disk EXCEPT ![UrlOf[c]] = saving[c].id]

FileInv == FileTypeOK /\ SaveInv

\* At the start nobody saves.
LEMMA FileInvInit == FileInit => FileInv
  BY DEF FileInit, FileInv, FileTypeOK, SaveInv, NoSave, NotSaving, Contents

\* No step of a Save, nor the end of the process, breaks the file's invariant.
LEMMA FileInvNext == FileInv /\ [FileNext]_fileVars => FileInv'
  <1> SUFFICES ASSUME FileInv, [FileNext]_fileVars PROVE FileInv'
    OBVIOUS
  <1> USE FileAssumption DEF FileInv, FileTypeOK, SaveInv, NoSave
  <1>0. NotSaving \in [pc : {"idle", "lock", "write", "rename"},
                       id : Identity \union {NoIdentity}, data : Contents]
        /\ NotSaving.pc = "idle"
    BY DEF NotSaving, Contents
  <1>1. ASSUME NEW c \in Client, NEW id \in Identity, CallSave(c, id) PROVE FileInv'
    BY <1>1 DEF CallSave, NotSaving
  <1>2. ASSUME NEW c \in Client, ReadAndMerge(c) PROVE FileInv'
    <2>1. [disk EXCEPT ![UrlOf[c]] = saving[c].id] \in Contents
      BY DEF Contents
    <2>2. FileTypeOK'
      <3>1. /\ mu' = c /\ disk' = disk
            /\ saving' = [saving EXCEPT ![c].pc = "write",
                                        ![c].data = [disk EXCEPT ![UrlOf[c]] = saving[c].id]]
        BY <1>2 DEF ReadAndMerge
      <3>2. saving' \in [Client -> [pc : {"idle", "lock", "write", "rename"},
                                    id : Identity \union {NoIdentity}, data : Contents]]
        <4> DEFINE merged == [disk EXCEPT ![UrlOf[c]] = saving[c].id]
                   next == [saving[c] EXCEPT !.pc = "write", !.data = merged]
        <4>1. next \in [pc : {"idle", "lock", "write", "rename"},
                        id : Identity \union {NoIdentity}, data : Contents]
          BY <2>1
        <4>2. saving' = [saving EXCEPT ![c] = next]
          BY <3>1
        <4> HIDE DEF next
        <4>3. QED BY <4>1, <4>2
      <3>3. QED BY <3>1, <3>2
    <2>3. /\ mu' = c /\ disk' = disk /\ saving[c].pc = "lock"
          /\ saving'[c].pc = "write" /\ saving'[c].id = saving[c].id
          /\ saving'[c].data = [disk EXCEPT ![UrlOf[c]] = saving[c].id]
          /\ \A d \in Client : d # c => saving'[d] = saving[d]
      BY <1>2, <2>1 DEF ReadAndMerge
    <2>4. \A d \in Client : saving[d].pc \notin {"write", "rename"}
      BY <1>2 DEF ReadAndMerge
    <2>5. ASSUME NEW d \in Client, d # c
          PROVE  saving'[d] = saving[d] /\ saving[d].pc \notin {"write", "rename"}
      BY <2>3, <2>4, <2>5
    <2>6. SaveInv'
      <3>1. ASSUME NEW d \in Client, d # c
            PROVE  /\ saving'[d].pc = "idle" => saving'[d] = NotSaving
                   /\ saving'[d].pc # "idle" => saving'[d].id \in Identity
                   /\ saving'[d].pc \notin {"write", "rename"}
        BY <2>5, <3>1
      <3>2. QED BY <2>3, <3>1
    <2>7. QED BY <2>2, <2>6
  <1>3. ASSUME NEW c \in Client, WriteTemp(c) PROVE FileInv'
    <2>1. /\ mu' = mu /\ disk' = disk /\ saving[c].pc = "write"
          /\ saving' = [saving EXCEPT ![c].pc = "rename"]
      BY <1>3 DEF WriteTemp
    <2>2. FileTypeOK'
      BY <2>1
    <2>3. /\ saving'[c].pc = "rename" /\ saving'[c].id = saving[c].id
          /\ saving'[c].data = saving[c].data
          /\ \A d \in Client : d # c => saving'[d] = saving[d]
      BY <2>1
    <2>4. SaveInv'
      <3>1. ASSUME NEW d \in Client, d # c
            PROVE  /\ saving'[d].pc = "idle" => saving'[d] = NotSaving
                   /\ saving'[d].pc # "idle" => saving'[d].id \in Identity
                   /\ saving'[d].pc \notin {"write", "rename"}
        BY <2>1, <2>3, <3>1
      <3>2. saving[c].id \in Identity /\ mu = c
            /\ saving[c].data = [disk EXCEPT ![UrlOf[c]] = saving[c].id]
        BY <2>1
      <3>3. QED BY <2>1, <2>3, <3>1, <3>2
    <2>5. QED BY <2>2, <2>4
  <1>4. ASSUME NEW c \in Client, Rename(c) PROVE FileInv'
    BY <1>0, <1>4 DEF Rename
  <1>5. ASSUME NEW c \in Client, SaveFails(c) PROVE FileInv'
    BY <1>0, <1>5 DEF SaveFails
  <1>6. CASE FileAfterExit
    BY <1>0, <1>6 DEF FileAfterExit
  <1>7. CASE UNCHANGED fileVars
    BY <1>7 DEF fileVars
  <1>8. QED BY <1>1, <1>2, <1>3, <1>4, <1>5, <1>6, <1>7 DEF FileNext

\* The rename is the store's Put; nothing else changes the file.
LEMMA FileStepRefines == FileInv /\ [FileNext]_fileVars => [Store!StoreNext]_disk
  <1> SUFFICES ASSUME FileInv, [FileNext]_fileVars PROVE [Store!StoreNext]_disk
    OBVIOUS
  <1>1. ASSUME NEW c \in Client, Rename(c) PROVE Store!StoreNext
    <2>1. UrlOf[c] \in Url /\ saving[c].id \in Identity
      BY <1>1, FileAssumption DEF Rename, FileInv, SaveInv
    <2>2. disk' = [disk EXCEPT ![UrlOf[c]] = saving[c].id]
      BY <1>1 DEF Rename, FileInv, SaveInv
    <2>3. QED BY <2>1, <2>2 DEF Store!StoreNext, Store!Put
  <1>2. ASSUME NEW c \in Client, SaveFails(c) \/ WriteTemp(c) \/ ReadAndMerge(c)
        PROVE  UNCHANGED disk
    BY <1>2 DEF SaveFails, WriteTemp, ReadAndMerge
  <1>3. ASSUME NEW c \in Client, NEW id \in Identity, CallSave(c, id) PROVE UNCHANGED disk
    BY <1>3 DEF CallSave
  <1>4. CASE FileAfterExit \/ UNCHANGED fileVars
    BY <1>4 DEF FileAfterExit, fileVars
  <1>5. QED BY <1>1, <1>2, <1>3, <1>4 DEF FileNext

\* Concurrent Saves, failing ones and crashes between any two steps leave the
\* file an atomic map: one identity changes at a time, and none is lost.
THEOREM FileImplementsStore == FileSpec => StoreSpec
  <1>1. FileInit => Store!StoreInit
    BY DEF FileInit, Store!StoreInit
  <1>2. QED
    BY <1>1, FileInvInit, FileInvNext, FileStepRefines, PTL
       DEF FileSpec, StoreSpec, Store!StoreSpec

-----------------------------------------------------------------------------
(* The process *)

\* The order of the startup, and who may be saving.
OrderInv ==
    /\ boot = "off" => turn = 1
    /\ boot \in {"off", "load", "register", "declare", "listen", "spawn"} => ~Polling
    /\ boot \in {"load", "register", "declare"} => \A c \in Client : c < turn => c \in declared
    /\ boot \in {"listen", "spawn", "health", "serving"} => declared = Client
    /\ boot \in {"spawn", "health", "serving"} => "south" \in up
    /\ holding # {} => Polling

SaverInv ==
    \A c \in Client : ~NoSave(c) => /\ Polling \/ (c = turn /\ boot \in {"register", "declare"})
                                   /\ mem[c] = saving[c].id

BootInv == OrderInv /\ SaverInv

StartupInv == StartupTypeOK /\ FileInv /\ BootInv

\* At the start the process is not running.
LEMMA StartupInvInit == StartupInit => StartupInv
  <1> SUFFICES ASSUME StartupInit PROVE StartupInv
    OBVIOUS
  <1> USE FileAssumption, StartupAssumption DEF StartupInit, LifeInit
  <1>1. FileInv
    BY FileInvInit
  <1>2. StartupTypeOK
    BY <1>1 DEF FileInv, StartupTypeOK, Boot
  <1>3. BootInv
    BY DEF FileInit, NoSave, BootInv, OrderInv, SaverInv, Polling
  <1>4. QED BY <1>1, <1>2, <1>3 DEF StartupInv

\* What the process does to the file is what StateFile describes.
LEMMA StartupStepRefines == StartupInv /\ [StartupNext]_startVars => [FileNext]_fileVars
  <1> SUFFICES ASSUME StartupInv, [StartupNext]_startVars PROVE [FileNext]_fileVars
    OBVIOUS
  <1> USE DEF FileNext
  <1>1. CASE Launch \/ LoadIdentity \/ Declares \/ Listens \/ Spawns \/ ServesHealth
    BY <1>1 DEF Launch, LoadIdentity, Declares, Listens, Spawns, ServesHealth
  <1>2. CASE Exit
    BY <1>2 DEF Exit, ProcessEnds
  <1>3. ASSUME NEW c \in Client, Enrolls(c) PROVE FileNext
    <2>1. runners[UrlOf[c]] + 1 \in Identity
      BY <1>3, FileAssumption, StartupAssumption DEF Enrolls, StartupInv, StartupTypeOK
    <2>2. QED BY <1>3, <2>1 DEF Enrolls
  <1>4. ASSUME NEW c \in Client, AnswerLost(c) \/ AssignsTask(c) PROVE UNCHANGED fileVars
    BY <1>4 DEF AnswerLost, AssignsTask
  <1>5. ASSUME NEW c \in Client, SaveStep(c) PROVE FileNext
    BY <1>5 DEF SaveStep, Saves, Saved, NotSaved, ProcessEnds
  <1>6. ASSUME NEW u \in Url, NEW n \in Identity, Revokes(u, n) PROVE UNCHANGED fileVars
    BY <1>6 DEF Revokes
  <1>7. CASE UNCHANGED startVars
    BY <1>7 DEF startVars
  <1>8. QED BY <1>1, <1>2, <1>3, <1>4, <1>5, <1>6, <1>7 DEF StartupNext

\* No step breaks the types.
LEMMA StartupTypeNext == StartupInv /\ [StartupNext]_startVars => StartupTypeOK'
  <1> SUFFICES ASSUME StartupInv, [StartupNext]_startVars PROVE StartupTypeOK'
    OBVIOUS
  <1>1. FileTypeOK'
    BY StartupStepRefines, FileInvNext DEF StartupInv, FileInv
  <1>0. \A c \in Client : ~NoSave(c) => Runner(c) \in Url \X Identity
    BY FileAssumption DEF StartupInv, BootInv, SaverInv, FileInv, SaveInv, Runner, NoSave
  <1> USE FileAssumption, StartupAssumption, <1>1 DEF StartupInv, StartupTypeOK, Boot
  <1>3. CASE Launch \/ Listens \/ Spawns \/ ServesHealth
    BY <1>3 DEF Launch, Listens, Spawns, ServesHealth, worldVars
  <1>4. CASE LoadIdentity
    <2>1. disk[UrlOf[turn]] \in 0 .. MaxRunners
      BY DEF FileInv, FileTypeOK, Contents
    <2>2. QED BY <1>4, <2>1 DEF LoadIdentity, Load, worldVars
  <1>5. CASE Declares
    BY <1>5 DEF Declares, worldVars
  <1>6. ASSUME ProcessEnds, unsaved' \subseteq Url \X Identity PROVE StartupTypeOK'
    BY <1>6 DEF ProcessEnds
  <1>7. CASE Exit
    <2>1. unsaved' \subseteq Url \X Identity
      BY <1>0, <1>7 DEF Exit
    <2>2. QED BY <1>6, <1>7, <2>1 DEF Exit
  <1>8. ASSUME NEW c \in Client, Enrolls(c) PROVE StartupTypeOK'
    <2>1. /\ runners[UrlOf[c]] + 1 \in 0 .. MaxRunners
          /\ runners' = [runners EXCEPT ![UrlOf[c]] = runners[UrlOf[c]] + 1]
          /\ mem' = [mem EXCEPT ![c] = runners[UrlOf[c]] + 1]
          /\ UNCHANGED <<boot, turn, declared, up, holding, revoked, unsaved>>
      BY <1>8 DEF Enrolls
    <2>2. /\ runners' \in [Url -> 0 .. MaxRunners]
          /\ mem' \in [Client -> 0 .. MaxRunners]
      BY <2>1
    <2>3. QED BY <2>1, <2>2
  <1>9. ASSUME NEW c \in Client, AnswerLost(c) PROVE StartupTypeOK'
    <2>1. /\ runners[UrlOf[c]] + 1 \in Identity
          /\ runners' = [runners EXCEPT ![UrlOf[c]] = runners[UrlOf[c]] + 1]
          /\ unsaved' = unsaved \union {<<UrlOf[c], runners[UrlOf[c]] + 1>>}
          /\ UNCHANGED <<lifeVars, revoked>>
      BY <1>9 DEF AnswerLost
    <2>2. runners' \in [Url -> 0 .. MaxRunners]
      BY <2>1
    <2>3. revoked' \union unsaved' \subseteq Url \X Identity
      BY <2>1
    <2>4. QED BY <2>1, <2>2, <2>3 DEF lifeVars
  <1>10. ASSUME NEW c \in Client, SaveStep(c) PROVE StartupTypeOK'
    <2>1. CASE Saves(c)
      BY <2>1 DEF Saves, lifeVars, worldVars
    <2>2. CASE Saved(c)
      BY <2>2 DEF Saved, worldVars
    <2>3. CASE NotSaved(c)
      <3>1. ~NoSave(c)
        BY <2>3 DEF NotSaved, SaveFails, NoSave, NotSaving
      <3>2. unsaved' \subseteq Url \X Identity
        BY <1>0, <2>3, <3>1 DEF NotSaved
      <3>3. CASE Polling
        BY <2>3, <3>2, <3>3 DEF NotSaved, lifeVars
      <3>4. CASE ~Polling
        BY <1>6, <2>3, <3>2, <3>4 DEF NotSaved
      <3>5. QED BY <3>3, <3>4
    <2>4. QED BY <1>10, <2>1, <2>2, <2>3 DEF SaveStep
  <1>11. ASSUME NEW c \in Client, AssignsTask(c) PROVE StartupTypeOK'
    BY <1>11 DEF AssignsTask, worldVars
  <1>12. ASSUME NEW u \in Url, NEW n \in Identity, Revokes(u, n) PROVE StartupTypeOK'
    <2>1. <<u, n>> \in Url \X Identity
      BY <1>12
    <2>2. QED BY <1>12, <2>1 DEF Revokes, lifeVars
  <1>13. CASE UNCHANGED startVars
    BY <1>13 DEF startVars, lifeVars, worldVars
  <1>14. QED
    BY <1>3, <1>4, <1>5, <1>7, <1>8, <1>9, <1>10, <1>11, <1>12, <1>13 DEF StartupNext

\* No step breaks the order of the startup.
LEMMA OrderNext == StartupInv /\ [StartupNext]_startVars => OrderInv'
  <1> SUFFICES ASSUME StartupInv, [StartupNext]_startVars PROVE OrderInv'
    OBVIOUS
  <1> USE DEF OrderInv, Polling
  <1>1. /\ OrderInv
        /\ turn \in Client /\ declared \subseteq Client
        /\ boot \in Boot
        /\ Client = 1 .. Last /\ Last \in Nat
    BY StartupAssumption DEF StartupInv, BootInv, StartupTypeOK
  <1> HIDE DEF OrderInv
  <1>2. ASSUME UNCHANGED lifeVars PROVE OrderInv'
    BY <1>1, <1>2 DEF OrderInv, lifeVars
  <1>3. CASE Launch
    BY <1>1, <1>3 DEF OrderInv, Launch
  <1>4. CASE LoadIdentity
    BY <1>1, <1>4 DEF OrderInv, LoadIdentity
  <1>5. CASE Declares
    <2>1. /\ ~Polling /\ holding = {}
          /\ \A c \in Client : c < turn => c \in declared
      BY <1>1, <1>5 DEF OrderInv, Declares
    <2>2. CASE turn = Last
      <3>0. declared' = declared \union {turn}
        BY <1>5 DEF Declares
      <3>1. declared' = Client
        <4>1. \A c \in Client : c \in declared'
          BY <1>1, <2>1, <2>2, <3>0
        <4>2. QED BY <1>1, <3>0, <4>1
      <3>2. QED BY <1>5, <2>1, <2>2, <3>1 DEF OrderInv, Declares
    <2>3. CASE turn # Last
      <3>1. \A c \in Client : c < turn + 1 => c \in declared \union {turn}
        BY <1>1, <2>1
      <3>2. QED BY <1>5, <2>1, <2>3, <3>1 DEF OrderInv, Declares
    <2>4. QED BY <2>2, <2>3
  <1>6. CASE Listens
    BY <1>1, <1>6 DEF OrderInv, Listens
  <1>7. CASE Spawns
    BY <1>1, <1>7 DEF OrderInv, Spawns
  <1>8. CASE ServesHealth
    BY <1>1, <1>8 DEF OrderInv, ServesHealth
  <1>9. ASSUME ProcessEnds PROVE OrderInv'
    BY <1>9 DEF OrderInv, ProcessEnds
  <1>10. ASSUME NEW c \in Client, Enrolls(c) \/ AnswerLost(c) \/ Saves(c) PROVE OrderInv'
    BY <1>1, <1>10 DEF OrderInv, Enrolls, AnswerLost, Saves, lifeVars
  <1>11. ASSUME NEW c \in Client, Saved(c) PROVE OrderInv'
    BY <1>1, <1>11 DEF OrderInv, Saved
  <1>12. ASSUME NEW c \in Client, NotSaved(c) PROVE OrderInv'
    BY <1>2, <1>9, <1>12 DEF NotSaved
  <1>13. ASSUME NEW c \in Client, AssignsTask(c) PROVE OrderInv'
    BY <1>1, <1>13 DEF OrderInv, AssignsTask
  <1>14. ASSUME NEW u \in Url, NEW n \in Identity, Revokes(u, n) PROVE OrderInv'
    BY <1>2, <1>14 DEF Revokes
  <1>15. CASE UNCHANGED startVars
    BY <1>2, <1>15 DEF startVars
  <1>16. QED
    BY <1>3, <1>4, <1>5, <1>6, <1>7, <1>8, <1>9, <1>10, <1>11, <1>12, <1>13, <1>14, <1>15
       DEF StartupNext, Exit, SaveStep

\* A Save is always one of a client that may register.
LEMMA SaverNext == StartupInv /\ [StartupNext]_startVars => SaverInv'
  <1> SUFFICES ASSUME StartupInv, [StartupNext]_startVars PROVE SaverInv'
    OBVIOUS
  <1> USE DEF Polling, NoSave
  <1>1. /\ SaverInv
        /\ mem \in [Client -> 0 .. MaxRunners]
        /\ saving \in [Client -> [pc : {"idle", "lock", "write", "rename"},
                                  id : Identity \union {NoIdentity}, data : Contents]]
    BY DEF StartupInv, BootInv, StartupTypeOK, FileInv, FileTypeOK
  <1>2. ASSUME UNCHANGED <<boot, turn, mem, up, saving>> PROVE SaverInv'
    BY <1>1, <1>2 DEF SaverInv
  <1>3. CASE Launch
    BY <1>1, <1>3 DEF SaverInv, Launch, fileVars
  <1>4. CASE LoadIdentity
    <2>1. boot = "load" /\ UNCHANGED <<saving, up>> /\ ~Polling
      BY <1>4 DEF LoadIdentity, fileVars, StartupInv, BootInv, OrderInv
    <2>2. QED BY <1>1, <2>1 DEF SaverInv
  <1>5. CASE Declares
    <2>1. ~Polling /\ boot = "declare" /\ NoSave(turn) /\ UNCHANGED saving
      BY <1>5 DEF Declares, fileVars, StartupInv, BootInv, OrderInv
    <2>2. QED BY <1>1, <2>1 DEF SaverInv
  <1>6. CASE Listens \/ Spawns \/ ServesHealth
    <2>1. /\ UNCHANGED <<turn, mem, saving>>
          /\ Polling => Polling'
          /\ boot \notin {"register", "declare"}
      BY <1>6 DEF Listens, Spawns, ServesHealth, fileVars
    <2>2. QED BY <1>1, <2>1 DEF SaverInv
  <1>7. ASSUME ProcessEnds PROVE SaverInv'
    BY <1>7 DEF SaverInv, ProcessEnds, FileAfterExit
  <1>8. ASSUME NEW c \in Client, Enrolls(c) PROVE SaverInv'
    <2>1. /\ UNCHANGED <<boot, turn, up>>
          /\ mem' = [mem EXCEPT ![c] = runners[UrlOf[c]] + 1]
          /\ saving'[c].id = runners[UrlOf[c]] + 1
          /\ \A d \in Client : d # c => saving'[d] = saving[d]
          /\ Polling \/ (c = turn /\ boot \in {"register", "declare"})
      BY <1>1, <1>8 DEF Enrolls, CallSave, MayRegister
    <2>2. QED BY <1>1, <2>1 DEF SaverInv
  <1>9. ASSUME NEW c \in Client, AnswerLost(c) \/ AssignsTask(c) PROVE SaverInv'
    BY <1>2, <1>9 DEF AnswerLost, AssignsTask, lifeVars, fileVars
  <1>10. ASSUME NEW c \in Client, Saves(c) PROVE SaverInv'
    <2>1. /\ UNCHANGED <<boot, turn, mem, up>>
          /\ saving'[c].id = saving[c].id /\ ~NoSave(c)
          /\ \A d \in Client : d # c => saving'[d] = saving[d]
      BY <1>1, <1>10 DEF Saves, ReadAndMerge, WriteTemp, lifeVars, NotSaving
    <2>2. QED BY <1>1, <2>1 DEF SaverInv
  <1>11. ASSUME NEW c \in Client, saving' = [saving EXCEPT ![c] = NotSaving],
                UNCHANGED <<turn, mem, up>>, boot' = boot \/ (c = turn /\ ~Polling) \/ Polling
         PROVE  SaverInv'
    BY <1>1, <1>11 DEF SaverInv
  <1>12. ASSUME NEW c \in Client, Saved(c) PROVE SaverInv'
    <2>1. ~NoSave(c)
      BY <1>12 DEF Saved, Rename, NotSaving
    <2>2. Polling \/ c = turn
      BY <1>1, <2>1 DEF SaverInv
    <2>3. QED BY <1>11, <1>12, <2>2 DEF Saved, Rename
  <1>13. ASSUME NEW c \in Client, NotSaved(c) PROVE SaverInv'
    BY <1>7, <1>11, <1>13 DEF NotSaved, SaveFails, lifeVars
  <1>14. ASSUME NEW u \in Url, NEW n \in Identity, Revokes(u, n) PROVE SaverInv'
    BY <1>2, <1>14 DEF Revokes, lifeVars, fileVars
  <1>15. CASE UNCHANGED startVars
    BY <1>2, <1>15 DEF startVars, lifeVars, fileVars
  <1>16. QED
    BY <1>3, <1>4, <1>5, <1>6, <1>7, <1>8, <1>9, <1>10, <1>12, <1>13, <1>14, <1>15
       DEF StartupNext, Exit, SaveStep

\* The invariant of the startup holds throughout.
LEMMA StartupKept == StartupSpec => []StartupInv
  <1>1. StartupInv /\ [StartupNext]_startVars => StartupInv'
    BY StartupTypeNext, OrderNext, SaverNext, StartupStepRefines, FileInvNext
       DEF StartupInv, BootInv
  <1>2. QED BY <1>1, StartupInvInit, PTL DEF StartupSpec

\* The variables of the startup keep their types, however often it is repeated.
THEOREM StartupTyped == StartupSpec => []StartupTypeOK
  <1>1. StartupInv => StartupTypeOK
    BY DEF StartupInv
  <1>2. QED BY <1>1, StartupKept, PTL

\* No task is ever handed to a process one of whose instances has not declared
\* itself, or whose port the runners cannot reach.
THEOREM ReadyFirst == StartupSpec => []TasksOnlyWhenReady
  <1>1. StartupInv => TasksOnlyWhenReady
    BY DEF StartupInv, StartupTypeOK, Boot, BootInv, OrderInv, TasksOnlyWhenReady
  <1>2. QED BY <1>1, StartupKept, PTL

\* The daemon, all its restarts included, uses the file as FileStore promises.
THEOREM IdentitiesKept == StartupSpec => StoreSpec
  <1>1. StartupInit => FileInit
    BY DEF StartupInit
  <1>2. StartupSpec => FileSpec
    BY <1>1, StartupKept, StartupStepRefines, PTL DEF StartupSpec, FileSpec
  <1>3. QED BY <1>2, FileImplementsStore

-----------------------------------------------------------------------------
(* The runners left behind *)

\* No two instances share a forgejo_url.
OwnUrls == \A c, d \in Client : UrlOf[c] = UrlOf[d] => c = d

\* A client is given the newest runner of its URL; what is being saved is newer than
\* what the file says, and what could not be saved is not in the file.
NumbersInv == \A c \in Client :
    /\ disk[UrlOf[c]] =< runners[UrlOf[c]]
    /\ mem[c] =< runners[UrlOf[c]]
    /\ \A n \in Identity :
          <<UrlOf[c], n>> \in unsaved => n =< runners[UrlOf[c]] /\ n # disk[UrlOf[c]]
    /\ ~NoSave(c) => disk[UrlOf[c]] < mem[c] /\ Runner(c) \notin unsaved

\* No step breaks the order of the numbers.
LEMMA NumbersNext ==
    OwnUrls /\ StartupInv /\ NumbersInv /\ [StartupNext]_startVars => NumbersInv'
  <1> SUFFICES ASSUME OwnUrls, StartupInv, NumbersInv, [StartupNext]_startVars
               PROVE  NumbersInv'
    OBVIOUS
  <1>1. /\ UrlOf \in [Client -> Url] /\ turn \in Client /\ NoIdentity = 0
        /\ Identity = 1 .. MaxRunners /\ MaxRunners \in Nat
        /\ mem \in [Client -> 0 .. MaxRunners]
        /\ disk \in [Url -> 0 .. MaxRunners]
        /\ runners \in [Url -> 0 .. MaxRunners]
        /\ unsaved \subseteq Url \X Identity
        /\ saving \in [Client -> [pc : {"idle", "lock", "write", "rename"},
                                  id : Identity \union {NoIdentity}, data : Contents]]
    <2>1. disk \in [Url -> Identity \union {0}] /\ Identity \union {0} = 0 .. MaxRunners
      BY FileAssumption, StartupAssumption
         DEF StartupInv, StartupTypeOK, FileInv, FileTypeOK, Contents
    <2>2. QED
      BY <2>1, FileAssumption, StartupAssumption
         DEF StartupInv, StartupTypeOK, FileInv, FileTypeOK
  <1>2. ASSUME UNCHANGED <<disk, runners, mem, unsaved>>,
               \A c \in Client : ~NoSave(c)' => ~NoSave(c)
        PROVE  NumbersInv'
    BY <1>2 DEF NumbersInv, Runner
  <1>3. ASSUME UNCHANGED <<disk, runners, mem, unsaved, saving>> PROVE NumbersInv'
    BY <1>2, <1>3 DEF NoSave
  <1>4. CASE Launch \/ Declares \/ Listens \/ Spawns \/ ServesHealth
    BY <1>3, <1>4 DEF Launch, Declares, Listens, Spawns, ServesHealth, worldVars, fileVars
  <1>5. CASE LoadIdentity
    <2>1. \A c \in Client : NoSave(c) /\ NoSave(c)'
      BY <1>5 DEF LoadIdentity, StartupInv, BootInv, OrderInv, SaverInv, NoSave, fileVars
    <2>2. /\ UNCHANGED <<disk, runners, unsaved>>
          /\ \A c \in Client : mem'[c] \in {mem[c], disk[UrlOf[c]]}
      BY <1>1, <1>5 DEF LoadIdentity, Load, worldVars, fileVars
    <2>3. QED BY <1>1, <2>1, <2>2 DEF NumbersInv
  <1>6. ASSUME ProcessEnds, unsaved' \subseteq unsaved \union {Runner(c) : c \in {d \in Client : ~NoSave(d)}}
        PROVE  NumbersInv'
    <2>1. /\ UNCHANGED <<disk, runners>>
          /\ \A c \in Client : mem'[c] = 0 /\ NoSave(c)'
      BY <1>6 DEF ProcessEnds, FileAfterExit, NoSave
    <2>2. ASSUME NEW c \in Client, NEW n \in Identity, <<UrlOf[c], n>> \in unsaved'
          PROVE  n =< runners[UrlOf[c]] /\ n # disk[UrlOf[c]]
      <3>1. CASE <<UrlOf[c], n>> \in unsaved
        BY <3>1 DEF NumbersInv
      <3>2. CASE <<UrlOf[c], n>> \notin unsaved
        <4>1. PICK d \in Client : ~NoSave(d) /\ Runner(d) = <<UrlOf[c], n>>
          BY <1>6, <2>2, <3>2
        <4>2. UrlOf[d] = UrlOf[c] /\ mem[d] = n
          BY <4>1 DEF Runner
        <4>3. QED BY <1>1, <4>1, <4>2 DEF NumbersInv
      <3>3. QED BY <3>1, <3>2
    <2>3. QED BY <1>1, <2>1, <2>2 DEF NumbersInv
  <1>7. CASE Exit
    BY <1>6, <1>7 DEF Exit
  <1>8. ASSUME NEW c \in Client, Enrolls(c) PROVE NumbersInv'
    <2>1. /\ UNCHANGED <<disk, unsaved>>
          /\ runners' = [runners EXCEPT ![UrlOf[c]] = runners[UrlOf[c]] + 1]
          /\ mem' = [mem EXCEPT ![c] = runners[UrlOf[c]] + 1]
          /\ \A d \in Client : d # c => saving'[d] = saving[d]
      BY <1>1, <1>8 DEF Enrolls, CallSave
    <2>2. /\ mem'[c] = runners[UrlOf[c]] + 1
          /\ runners'[UrlOf[c]] = runners[UrlOf[c]] + 1
      BY <1>1, <2>1
    <2>3. \A d \in Client : d # c => /\ mem'[d] = mem[d]
                                     /\ runners'[UrlOf[d]] = runners[UrlOf[d]]
                                     /\ NoSave(d)' = NoSave(d)
      BY <1>1, <2>1 DEF OwnUrls, NoSave
    <2>4. runners[UrlOf[c]] + 1 \in Identity
      BY <1>1, <1>8 DEF Enrolls
    <2>5. disk'[UrlOf[c]] < mem'[c] /\ Runner(c)' \notin unsaved'
      <3>1. disk[UrlOf[c]] =< runners[UrlOf[c]] /\ disk[UrlOf[c]] \in Nat /\ runners[UrlOf[c]] \in Nat
        BY <1>1 DEF NumbersInv
      <3>2. <<UrlOf[c], runners[UrlOf[c]] + 1>> \notin unsaved
        BY <2>4, <3>1 DEF NumbersInv
      <3>3. QED BY <2>1, <2>2, <3>1, <3>2 DEF Runner
    <2>6. ASSUME NEW d \in Client, d # c
          PROVE  /\ disk'[UrlOf[d]] =< runners'[UrlOf[d]]
                 /\ mem'[d] =< runners'[UrlOf[d]]
                 /\ \A n \in Identity : <<UrlOf[d], n>> \in unsaved'
                        => n =< runners'[UrlOf[d]] /\ n # disk'[UrlOf[d]]
                 /\ ~NoSave(d)' => disk'[UrlOf[d]] < mem'[d] /\ Runner(d)' \notin unsaved'
      BY <2>1, <2>3, <2>6 DEF NumbersInv, Runner
    <2>7. /\ disk'[UrlOf[c]] =< runners'[UrlOf[c]]
          /\ mem'[c] =< runners'[UrlOf[c]]
          /\ \A n \in Identity : <<UrlOf[c], n>> \in unsaved'
                 => n =< runners'[UrlOf[c]] /\ n # disk'[UrlOf[c]]
      BY <1>1, <2>1, <2>2 DEF NumbersInv
    <2>8. QED BY <2>1, <2>5, <2>6, <2>7 DEF NumbersInv
  <1>9. ASSUME NEW c \in Client, AnswerLost(c) PROVE NumbersInv'
    <2>1. /\ UNCHANGED <<disk, mem, saving>> /\ NoSave(c)
          /\ runners' = [runners EXCEPT ![UrlOf[c]] = runners[UrlOf[c]] + 1]
          /\ unsaved' = unsaved \union {<<UrlOf[c], runners[UrlOf[c]] + 1>>}
      BY <1>9 DEF AnswerLost, lifeVars, fileVars
    <2>2. runners'[UrlOf[c]] = runners[UrlOf[c]] + 1
      BY <1>1, <2>1
    <2>3. \A d \in Client : d # c => runners'[UrlOf[d]] = runners[UrlOf[d]] /\ UrlOf[d] # UrlOf[c]
      BY <1>1, <2>1 DEF OwnUrls
    <2>4. \A d \in Client : d # c =>
              \A n : <<UrlOf[d], n>> \in unsaved' => <<UrlOf[d], n>> \in unsaved
      BY <2>1, <2>3
    <2>5. ASSUME NEW d \in Client, d # c
          PROVE  /\ disk'[UrlOf[d]] =< runners'[UrlOf[d]]
                 /\ mem'[d] =< runners'[UrlOf[d]]
                 /\ \A n \in Identity : <<UrlOf[d], n>> \in unsaved'
                        => n =< runners'[UrlOf[d]] /\ n # disk'[UrlOf[d]]
                 /\ ~NoSave(d)' => disk'[UrlOf[d]] < mem'[d] /\ Runner(d)' \notin unsaved'
      BY <2>1, <2>3, <2>4, <2>5 DEF NumbersInv, Runner, NoSave
    <2>6. /\ disk'[UrlOf[c]] =< runners'[UrlOf[c]]
          /\ mem'[c] =< runners'[UrlOf[c]]
          /\ \A n \in Identity : <<UrlOf[c], n>> \in unsaved'
                 => n =< runners'[UrlOf[c]] /\ n # disk'[UrlOf[c]]
          /\ NoSave(c)'
      BY <1>1, <2>1, <2>2 DEF NumbersInv, NoSave
    <2>7. QED BY <2>5, <2>6 DEF NumbersInv
  <1>10. ASSUME NEW c \in Client, AssignsTask(c) PROVE NumbersInv'
    BY <1>3, <1>10 DEF AssignsTask, worldVars, fileVars
  <1>11. ASSUME NEW c \in Client, Saves(c) PROVE NumbersInv'
    <2>1. /\ UNCHANGED <<disk, runners, mem, unsaved>> /\ ~NoSave(c)
          /\ \A d \in Client : d # c => saving'[d] = saving[d]
      BY <1>1, <1>11 DEF Saves, ReadAndMerge, WriteTemp, NoSave, NotSaving, lifeVars, worldVars
    <2>2. QED BY <1>2, <2>1 DEF NoSave
  <1>12. ASSUME NEW c \in Client, Saved(c) PROVE NumbersInv'
    <2>1. /\ ~NoSave(c) /\ saving[c].pc = "rename"
          /\ UNCHANGED <<mem, runners, unsaved>>
          /\ disk' = saving[c].data
          /\ NoSave(c)' /\ (\A d \in Client : d # c => saving'[d] = saving[d])
      BY <1>1, <1>12 DEF Saved, Rename, NoSave, NotSaving, worldVars
    <2>2. disk' = [disk EXCEPT ![UrlOf[c]] = mem[c]]
      BY <2>1 DEF StartupInv, FileInv, SaveInv, BootInv, SaverInv
    <2>3. disk'[UrlOf[c]] = mem[c]
      BY <1>1, <2>2
    <2>4. \A d \in Client : d # c => disk'[UrlOf[d]] = disk[UrlOf[d]]
      BY <1>1, <2>2 DEF OwnUrls
    <2>5. ASSUME NEW d \in Client, d # c
          PROVE  /\ disk'[UrlOf[d]] =< runners'[UrlOf[d]]
                 /\ mem'[d] =< runners'[UrlOf[d]]
                 /\ \A n \in Identity : <<UrlOf[d], n>> \in unsaved'
                        => n =< runners'[UrlOf[d]] /\ n # disk'[UrlOf[d]]
                 /\ ~NoSave(d)' => disk'[UrlOf[d]] < mem'[d] /\ Runner(d)' \notin unsaved'
      BY <2>1, <2>4, <2>5 DEF NumbersInv, Runner, NoSave
    <2>6. /\ disk'[UrlOf[c]] =< runners'[UrlOf[c]]
          /\ mem'[c] =< runners'[UrlOf[c]]
          /\ \A n \in Identity : <<UrlOf[c], n>> \in unsaved'
                 => n =< runners'[UrlOf[c]] /\ n # disk'[UrlOf[c]]
      BY <2>1, <2>3 DEF NumbersInv, Runner
    <2>7. QED BY <2>1, <2>5, <2>6 DEF NumbersInv
  <1>13. ASSUME NEW c \in Client, NotSaved(c) PROVE NumbersInv'
    <2>1. ~NoSave(c)
      BY <1>13 DEF NotSaved, SaveFails, NoSave, NotSaving
    <2>2. unsaved' = unsaved \union {Runner(c)}
      BY <1>13 DEF NotSaved
    <2>3. CASE ~Polling
      <3>1. unsaved' \subseteq unsaved \union {Runner(d) : d \in {e \in Client : ~NoSave(e)}}
        BY <2>1, <2>2
      <3>2. QED BY <1>6, <1>13, <2>3, <3>1 DEF NotSaved
    <2>4. CASE Polling
      <3>1. /\ UNCHANGED <<mem, runners, disk>> /\ NoSave(c)'
            /\ \A d \in Client : d # c => saving'[d] = saving[d] /\ UrlOf[d] # UrlOf[c]
        BY <1>1, <1>13, <2>4 DEF NotSaved, SaveFails, lifeVars, NoSave, NotSaving, OwnUrls
      <3>2. \A d \in Client : d # c =>
                \A n : <<UrlOf[d], n>> \in unsaved' => <<UrlOf[d], n>> \in unsaved
        BY <2>2, <3>1 DEF Runner
      <3>3. ASSUME NEW d \in Client, d # c
            PROVE  /\ \A n \in Identity : <<UrlOf[d], n>> \in unsaved'
                          => n =< runners[UrlOf[d]] /\ n # disk[UrlOf[d]]
                   /\ ~NoSave(d)' => disk[UrlOf[d]] < mem[d] /\ Runner(d)' \notin unsaved'
        BY <3>1, <3>2, <3>3 DEF NumbersInv, Runner, NoSave
      <3>4. \A n \in Identity : <<UrlOf[c], n>> \in unsaved'
                => n =< runners[UrlOf[c]] /\ n # disk[UrlOf[c]]
        <4>1. /\ disk[UrlOf[c]] < mem[c] /\ mem[c] =< runners[UrlOf[c]]
              /\ disk[UrlOf[c]] \in Nat /\ mem[c] \in Nat
          BY <1>1, <2>1 DEF NumbersInv
        <4>2. ASSUME NEW n \in Identity, <<UrlOf[c], n>> \in unsaved'
              PROVE  <<UrlOf[c], n>> \in unsaved \/ n = mem[c]
          BY <2>2, <4>2 DEF Runner
        <4>3. QED BY <4>1, <4>2 DEF NumbersInv
      <3>5. QED BY <3>1, <3>3, <3>4 DEF NumbersInv
    <2>5. QED BY <2>3, <2>4
  <1>14. ASSUME NEW u \in Url, NEW n \in Identity, Revokes(u, n) PROVE NumbersInv'
    BY <1>3, <1>14 DEF Revokes, lifeVars, fileVars
  <1>15. CASE UNCHANGED startVars
    BY <1>3, <1>15 DEF startVars, lifeVars, worldVars, fileVars
  <1>16. QED
    BY <1>4, <1>5, <1>7, <1>8, <1>9, <1>10, <1>11, <1>12, <1>13, <1>14, <1>15
       DEF StartupNext, SaveStep

\* The numbers stay in order throughout.
LEMMA NumbersKept == ASSUME OwnUrls PROVE StartupSpec => []NumbersInv
  <1>1. StartupInit => NumbersInv
    BY FileAssumption, StartupAssumption
       DEF StartupInit, LifeInit, FileInit, NumbersInv, NoSave
  <1>2. StartupInv /\ NumbersInv /\ [StartupNext]_startVars => NumbersInv'
    BY NumbersNext
  <1>3. QED BY <1>1, <1>2, StartupKept, PTL DEF StartupSpec

\* What a client's next Save overwrites is no runner, or one explained already.
Overwritable(c) == LET n == disk[UrlOf[c]] IN n = 0 \/ <<UrlOf[c], n>> \in revoked \union unsaved

OverwriteInv == /\ boot = "register" => disk[UrlOf[turn]] = 0
                /\ \A c \in Client : mem[c] # 0 /\ mem[c] # disk[UrlOf[c]] => Overwritable(c)

\* A client registers only when its file entry may be overwritten.
LEMMA OverwriteNext ==
    OwnUrls /\ StartupInv /\ NumbersInv /\ OverwriteInv /\ [StartupNext]_startVars
        => OverwriteInv'
  <1> SUFFICES ASSUME OwnUrls, StartupInv, NumbersInv, OverwriteInv, [StartupNext]_startVars
               PROVE  OverwriteInv'
    OBVIOUS
  <1> USE DEF Overwritable
  <1>1. /\ UrlOf \in [Client -> Url] /\ turn \in Client /\ NoIdentity = 0
        /\ mem \in [Client -> 0 .. MaxRunners]
        /\ disk \in [Url -> Identity \union {NoIdentity}]
        /\ revoked \union unsaved \subseteq Url \X Identity
        /\ saving \in [Client -> [pc : {"idle", "lock", "write", "rename"},
                                  id : Identity \union {NoIdentity}, data : Contents]]
    BY FileAssumption, StartupAssumption
       DEF StartupInv, StartupTypeOK, FileInv, FileTypeOK, Contents
  <1>2. ASSUME UNCHANGED <<turn, mem, disk>>, boot' = "register" => boot = "register",
               revoked \subseteq revoked', unsaved \subseteq unsaved'
        PROVE  OverwriteInv'
    BY <1>2 DEF OverwriteInv
  <1>3. CASE Launch \/ Listens \/ Spawns \/ ServesHealth
    BY <1>2, <1>3 DEF Launch, Listens, Spawns, ServesHealth, worldVars, fileVars
  <1>4. CASE LoadIdentity
    BY <1>1, <1>4 DEF OverwriteInv, LoadIdentity, Load, worldVars, fileVars
  <1>5. CASE Declares
    <2>1. UNCHANGED <<mem, disk, revoked, unsaved>> /\ boot' # "register"
      BY <1>5 DEF Declares, worldVars, fileVars
    <2>2. QED BY <2>1 DEF OverwriteInv
  <1>6. ASSUME ProcessEnds PROVE OverwriteInv'
    BY <1>6 DEF OverwriteInv, ProcessEnds
  <1>7. ASSUME NEW c \in Client, Enrolls(c) PROVE OverwriteInv'
    <2>0. ASSUME Runner(c) \in revoked \union unsaved PROVE Overwritable(c)
      <3>1. mem[c] # 0
        BY <1>1, <2>0, FileAssumption DEF Runner
      <3>2. CASE mem[c] = disk[UrlOf[c]]
        <4>1. mem[c] \in Identity /\ mem[c] # 0
          BY <1>1, <2>0, <3>1 DEF Runner
        <4>2. Runner(c) \in revoked
          BY <2>0, <3>2, <4>1 DEF NumbersInv, Runner
        <4>3. QED BY <3>2, <4>2 DEF Runner
      <3>3. QED BY <3>1, <3>2 DEF OverwriteInv
    <2>1. Overwritable(c)
      BY <1>7, <2>0 DEF OverwriteInv, Enrolls, MayRegister
    <2>2. /\ UNCHANGED <<boot, turn, disk, revoked, unsaved>>
          /\ \A d \in Client : d # c => mem'[d] = mem[d]
      BY <1>1, <1>7 DEF Enrolls, CallSave
    <2>3. QED BY <2>1, <2>2 DEF OverwriteInv
  <1>8. ASSUME NEW c \in Client, AnswerLost(c) \/ AssignsTask(c) \/ Saves(c) PROVE OverwriteInv'
    BY <1>2, <1>8 DEF AnswerLost, AssignsTask, Saves, ReadAndMerge, WriteTemp,
                      lifeVars, worldVars, fileVars
  <1>9. ASSUME NEW c \in Client, Saved(c) PROVE OverwriteInv'
    <2>1. /\ ~NoSave(c) /\ saving[c].pc = "rename"
          /\ UNCHANGED <<mem, revoked, unsaved>>
          /\ disk' = saving[c].data /\ boot' # "register"
      BY <1>9 DEF Saved, Rename, NoSave, NotSaving, worldVars
    <2>2. disk' = [disk EXCEPT ![UrlOf[c]] = mem[c]]
      BY <2>1 DEF StartupInv, FileInv, SaveInv, BootInv, SaverInv
    <2>3. disk'[UrlOf[c]] = mem[c]
      BY <1>1, <2>2
    <2>4. \A d \in Client : d # c => disk'[UrlOf[d]] = disk[UrlOf[d]]
      BY <1>1, <2>2 DEF OwnUrls
    <2>5. QED BY <2>1, <2>3, <2>4 DEF OverwriteInv
  <1>10. ASSUME NEW c \in Client, NotSaved(c) PROVE OverwriteInv'
    BY <1>2, <1>6, <1>10 DEF NotSaved, SaveFails, lifeVars
  <1>11. ASSUME NEW u \in Url, NEW n \in Identity, Revokes(u, n) PROVE OverwriteInv'
    BY <1>2, <1>11 DEF Revokes, lifeVars, fileVars
  <1>12. CASE UNCHANGED startVars
    BY <1>2, <1>12 DEF startVars, lifeVars, worldVars, fileVars
  <1>13. QED
    BY <1>3, <1>4, <1>5, <1>6, <1>7, <1>8, <1>9, <1>10, <1>11, <1>12
       DEF StartupNext, Exit, SaveStep

\* The explanation of a runner changes, but never ceases.
LEMMA ExplainedNext ==
    OwnUrls /\ StartupInv /\ OverwriteInv /\ OrphansExplained /\ [StartupNext]_startVars
        => OrphansExplained'
  <1> SUFFICES ASSUME OwnUrls, StartupInv, OverwriteInv, OrphansExplained,
                      [StartupNext]_startVars, NEW u \in Url, NEW n \in 1 .. runners'[u]
               PROVE  \/ disk'[u] = n
                      \/ <<u, n>> \in revoked' \union unsaved'
                      \/ \E c \in Client : Runner(c)' = <<u, n>> /\ ~NoSave(c)'
    BY DEF OrphansExplained
  <1> DEFINE Explained == \/ disk'[u] = n
                          \/ <<u, n>> \in revoked' \union unsaved'
                          \/ \E c \in Client : Runner(c)' = <<u, n>> /\ ~NoSave(c)'
             Before == \/ disk[u] = n
                       \/ <<u, n>> \in revoked \union unsaved
                       \/ \E c \in Client : Runner(c) = <<u, n>> /\ ~NoSave(c)
  <1>1. /\ UrlOf \in [Client -> Url] /\ NoIdentity = 0
        /\ mem \in [Client -> 0 .. MaxRunners]
        /\ disk \in [Url -> Identity \union {NoIdentity}]
        /\ runners \in [Url -> 0 .. MaxRunners]
        /\ saving \in [Client -> [pc : {"idle", "lock", "write", "rename"},
                                  id : Identity \union {NoIdentity}, data : Contents]]
    BY FileAssumption, StartupAssumption
       DEF StartupInv, StartupTypeOK, FileInv, FileTypeOK, Contents
  <1>2. n \in 1 .. runners[u] => Before
    BY DEF OrphansExplained
  <1>3. ASSUME UNCHANGED <<disk, runners>>, revoked \subseteq revoked', unsaved \subseteq unsaved',
               \A c \in Client : ~NoSave(c) =>
                   Runner(c) \in unsaved' \/ (UNCHANGED Runner(c) /\ ~NoSave(c)')
        PROVE  Explained
    BY <1>2, <1>3
  <1>4. ASSUME UNCHANGED <<disk, runners, revoked, unsaved, mem, saving>> PROVE Explained
    BY <1>3, <1>4 DEF Runner, NoSave
  <1>5. CASE Launch \/ Declares \/ Listens \/ Spawns \/ ServesHealth
    BY <1>4, <1>5 DEF Launch, Declares, Listens, Spawns, ServesHealth, worldVars, fileVars
  <1>6. CASE LoadIdentity
    <2>1. \A c \in Client : NoSave(c)
      BY <1>6 DEF LoadIdentity, StartupInv, BootInv, OrderInv, SaverInv
    <2>2. QED BY <1>3, <1>6, <2>1 DEF LoadIdentity, worldVars, fileVars
  <1>7. CASE Exit
    <2>1. \A c \in Client : ~NoSave(c) => Runner(c) \in unsaved'
      BY <1>7 DEF Exit
    <2>2. QED BY <1>3, <1>7, <2>1 DEF Exit, ProcessEnds, FileAfterExit
  <1>8. ASSUME NEW c \in Client, Enrolls(c) PROVE Explained
    <2>1. /\ UNCHANGED <<disk, revoked, unsaved>> /\ NoSave(c)
          /\ mem'[c] = runners[UrlOf[c]] + 1
          /\ ~NoSave(c)'
          /\ \A d \in Client : d # c => mem'[d] = mem[d] /\ saving'[d] = saving[d]
      BY <1>1, <1>8 DEF Enrolls, CallSave, NoSave, NotSaving
    <2>2. runners' = [runners EXCEPT ![UrlOf[c]] = runners[UrlOf[c]] + 1]
      BY <1>8 DEF Enrolls
    <2>3. CASE n \in 1 .. runners[u]
      <3>1. \A d \in Client : ~NoSave(d) => UNCHANGED Runner(d) /\ ~NoSave(d)'
        BY <2>1 DEF Runner, NoSave
      <3>2. QED BY <1>2, <2>1, <2>3, <3>1
    <2>4. CASE n \notin 1 .. runners[u]
      <3>1. u = UrlOf[c] /\ n = runners[u] + 1
        BY <1>1, <2>2, <2>4
      <3>2. Runner(c)' = <<u, n>>
        BY <2>1, <3>1 DEF Runner
      <3>3. QED BY <2>1, <3>2
    <2>5. QED BY <2>3, <2>4
  <1>9. ASSUME NEW c \in Client, AnswerLost(c) PROVE Explained
    <2>1. /\ UNCHANGED <<disk, revoked, mem, saving>>
          /\ runners' = [runners EXCEPT ![UrlOf[c]] = runners[UrlOf[c]] + 1]
          /\ unsaved' = unsaved \union {<<UrlOf[c], runners[UrlOf[c]] + 1>>}
      BY <1>9 DEF AnswerLost, lifeVars, fileVars
    <2>2. CASE n \in 1 .. runners[u]
      BY <1>2, <2>1, <2>2 DEF Runner, NoSave
    <2>3. CASE n \notin 1 .. runners[u]
      <3>1. u = UrlOf[c] /\ n = runners[u] + 1
        BY <1>1, <2>1, <2>3
      <3>2. QED BY <2>1, <3>1
    <2>4. QED BY <2>2, <2>3
  <1>10. ASSUME NEW c \in Client, AssignsTask(c) PROVE Explained
    BY <1>4, <1>10 DEF AssignsTask, worldVars, fileVars
  <1>11. ASSUME NEW c \in Client, Saves(c) PROVE Explained
    <2>1. /\ UNCHANGED <<disk, runners, revoked, unsaved, mem>>
          /\ saving'[c].pc \in {"write", "rename"}
          /\ \A d \in Client : d # c => saving'[d] = saving[d]
      BY <1>1, <1>11 DEF Saves, ReadAndMerge, WriteTemp, lifeVars, worldVars
    <2>2. ~NoSave(c)'
      BY <2>1 DEF NoSave, NotSaving
    <2>3. QED BY <1>3, <2>1, <2>2 DEF Runner, NoSave
  <1>12. ASSUME NEW c \in Client, Saved(c) PROVE Explained
    <2>1. /\ ~NoSave(c) /\ saving[c].pc = "rename"
          /\ UNCHANGED <<mem, runners, revoked, unsaved>>
          /\ disk' = saving[c].data
          /\ \A d \in Client : d # c => saving'[d] = saving[d]
      BY <1>1, <1>12 DEF Saved, Rename, NoSave, NotSaving, worldVars
    <2>2. disk' = [disk EXCEPT ![UrlOf[c]] = mem[c]]
      BY <2>1 DEF StartupInv, FileInv, SaveInv, BootInv, SaverInv
    <2>3. disk'[UrlOf[c]] = mem[c] /\ \A v \in Url : v # UrlOf[c] => disk'[v] = disk[v]
      BY <1>1, <2>2
    <2>4. Before
      BY <1>2, <2>1
    <2>5. CASE disk[u] = n /\ u = UrlOf[c]
      <3>1. CASE mem[c] = n
        BY <2>3, <2>5, <3>1
      <3>2. CASE mem[c] # n
        <4>1. mem[c] \in Identity
          BY <2>1 DEF StartupInv, BootInv, SaverInv, FileInv, SaveInv
        <4>2. Overwritable(c)
          BY <2>5, <3>2, <4>1, FileAssumption, <1>1 DEF OverwriteInv
        <4>3. <<u, n>> \in revoked \union unsaved
          BY <1>1, <2>5, <4>2 DEF Overwritable
        <4>4. QED BY <2>1, <4>3
      <3>3. QED BY <3>1, <3>2
    <2>6. CASE disk[u] = n /\ u # UrlOf[c]
      BY <2>3, <2>6
    <2>7. CASE <<u, n>> \in revoked \union unsaved
      BY <2>1, <2>7
    <2>8. ASSUME NEW d \in Client, Runner(d) = <<u, n>>, ~NoSave(d) PROVE Explained
      <3>1. CASE d = c
        BY <2>3, <2>8, <3>1 DEF Runner
      <3>2. CASE d # c
        BY <2>1, <2>8, <3>2 DEF Runner, NoSave
      <3>3. QED BY <3>1, <3>2
    <2>9. QED BY <2>4, <2>5, <2>6, <2>7, <2>8
  <1>13. ASSUME NEW c \in Client, NotSaved(c) PROVE Explained
    <2>1. UNCHANGED <<disk, runners, revoked>> /\ unsaved' = unsaved \union {Runner(c)}
      BY <1>13 DEF NotSaved, SaveFails, ProcessEnds, FileAfterExit
    <2>2. \A d \in Client : ~NoSave(d) /\ d # c => UNCHANGED Runner(d) /\ ~NoSave(d)'
      <3>1. CASE Polling
        BY <1>1, <1>13, <3>1 DEF NotSaved, SaveFails, lifeVars, Runner, NoSave
      <3>2. CASE ~Polling
        <4>1. ~NoSave(c)
          BY <1>13, <3>2 DEF NotSaved, NoSave, NotSaving
        <4>2. \A d \in Client : ~NoSave(d) => d = turn
          BY <3>2 DEF StartupInv, BootInv, SaverInv
        <4>3. QED BY <4>1, <4>2
      <3>3. QED BY <3>1, <3>2
    <2>3. QED BY <1>3, <2>1, <2>2
  <1>14. ASSUME NEW v \in Url, NEW m \in Identity, Revokes(v, m) PROVE Explained
    BY <1>3, <1>14 DEF Revokes, lifeVars, fileVars, Runner, NoSave
  <1>15. CASE UNCHANGED startVars
    BY <1>4, <1>15 DEF startVars, lifeVars, worldVars, fileVars
  <1>16. QED
    BY <1>5, <1>6, <1>7, <1>8, <1>9, <1>10, <1>11, <1>12, <1>13, <1>14, <1>15
       DEF StartupNext, SaveStep

\* If every instance has a forgejo_url of its own, a runner is left behind only by
\* a revocation or a Save that failed or was cut short, however often the process
\* restarts.
THEOREM NoUnexplainedOrphan == ASSUME OwnUrls PROVE StartupSpec => []OrphansExplained
  <1>1. StartupInit => OverwriteInv /\ OrphansExplained
    BY FileAssumption, StartupAssumption
       DEF StartupInit, LifeInit, FileInit, OverwriteInv, Overwritable, OrphansExplained
  <1>2. StartupInv /\ NumbersInv /\ OverwriteInv /\ OrphansExplained /\ [StartupNext]_startVars
            => (OverwriteInv /\ OrphansExplained)'
    BY OverwriteNext, ExplainedNext
  <1>3. QED BY <1>1, <1>2, StartupKept, NumbersKept, PTL DEF StartupSpec

-----------------------------------------------------------------------------
(* The identity of each instance, as ClientIdentity promises it *)

\* A start has given no identity yet to the instances that are still to come.
ToCome(c) == \/ boot \in {"off", "load"} /\ c >= turn
             \/ boot \in {"register", "declare"} /\ c > turn

ToComeInv == \A c \in Client : ToCome(c) => mem[c] = 0

\* The loop takes the instances in their order.
LEMMA ToComeNext == StartupInv /\ ToComeInv /\ [StartupNext]_startVars => ToComeInv'
  <1> SUFFICES ASSUME StartupInv, ToComeInv, [StartupNext]_startVars PROVE ToComeInv'
    OBVIOUS
  <1> USE DEF ToCome
  <1>1. /\ turn \in Client /\ Client = 1 .. Last /\ Last \in Nat
        /\ mem \in [Client -> 0 .. MaxRunners]
    BY StartupAssumption DEF StartupInv, StartupTypeOK
  <1>2. ASSUME UNCHANGED <<turn, mem>>, boot' \in {boot, "listen", "spawn", "health", "serving"}
        PROVE  ToComeInv'
    BY <1>2 DEF ToComeInv
  <1>3. CASE Launch
    BY <1>3 DEF ToComeInv, Launch
  <1>4. CASE LoadIdentity
    <2>1. /\ boot = "load" /\ boot' \in {"declare", "register"} /\ turn' = turn
          /\ \A c \in Client : c # turn => mem'[c] = mem[c]
      BY <1>1, <1>4 DEF LoadIdentity
    <2>2. QED BY <1>1, <2>1 DEF ToComeInv
  <1>5. CASE Declares
    <2>1. /\ boot = "declare" /\ mem' = mem
          /\ boot' = "listen" \/ (boot' = "load" /\ turn' = turn + 1)
      BY <1>5 DEF Declares
    <2>2. QED BY <1>1, <2>1 DEF ToComeInv
  <1>6. CASE Listens \/ Spawns \/ ServesHealth
    BY <1>2, <1>6 DEF Listens, Spawns, ServesHealth
  <1>7. ASSUME ProcessEnds PROVE ToComeInv'
    BY <1>7 DEF ToComeInv, ProcessEnds
  <1>8. ASSUME NEW c \in Client, Enrolls(c) PROVE ToComeInv'
    <2>1. /\ UNCHANGED <<boot, turn>>
          /\ \A d \in Client : d # c => mem'[d] = mem[d]
          /\ Polling \/ (c = turn /\ boot \in {"register", "declare"})
      BY <1>1, <1>8 DEF Enrolls, MayRegister
    <2>2. Polling => ~ToCome(c)
      BY DEF StartupInv, BootInv, OrderInv
    <2>3. QED BY <1>1, <2>1, <2>2 DEF ToComeInv
  <1>9. ASSUME NEW c \in Client, AnswerLost(c) \/ AssignsTask(c) \/ Saves(c) PROVE ToComeInv'
    BY <1>2, <1>9 DEF AnswerLost, AssignsTask, Saves, lifeVars
  <1>10. ASSUME NEW c \in Client, Saved(c) PROVE ToComeInv'
    BY <1>10 DEF ToComeInv, Saved
  <1>11. ASSUME NEW c \in Client, NotSaved(c) PROVE ToComeInv'
    BY <1>2, <1>7, <1>11 DEF NotSaved, lifeVars
  <1>12. ASSUME NEW u \in Url, NEW n \in Identity, Revokes(u, n) PROVE ToComeInv'
    BY <1>2, <1>12 DEF Revokes, lifeVars
  <1>13. CASE UNCHANGED startVars
    BY <1>2, <1>13 DEF startVars, lifeVars
  <1>14. QED
    BY <1>3, <1>4, <1>5, <1>6, <1>7, <1>8, <1>9, <1>10, <1>11, <1>12, <1>13
       DEF StartupNext, Exit, SaveStep

\* Enrolls and AnswerLost are Create, Saved is Keep, LoadIdentity Start, and the end
\* of the process Stop; to the other instances each of these is nothing.
LEMMA RecordOfNext ==
    ASSUME OwnUrls, StartupInv, NumbersInv, OverwriteInv, ToComeInv, [StartupNext]_startVars,
           NEW c \in Client
    PROVE  [RecordOf(c)!Next]_(RecordOf(c)!identityVars)
  <1> DEFINE u == UrlOf[c]
             bad == {n \in Identity : <<UrlOf[c], n>> \in revoked}
  <1>1. /\ UrlOf \in [Client -> Url] /\ turn \in Client /\ u \in Url
        /\ Identity = 1 .. MaxRunners /\ MaxRunners \in Nat
        /\ mem \in [Client -> 0 .. MaxRunners]
        /\ disk \in [Url -> 0 .. MaxRunners]
        /\ runners \in [Url -> 0 .. MaxRunners]
        /\ revoked \union unsaved \subseteq Url \X Identity
    <2>1. disk \in [Url -> Identity \union {0}] /\ Identity \union {0} = 0 .. MaxRunners
      BY FileAssumption, StartupAssumption
         DEF StartupInv, StartupTypeOK, FileInv, FileTypeOK, Contents
    <2>2. QED
      BY <2>1, FileAssumption, StartupAssumption DEF StartupInv, StartupTypeOK
  <1> USE DEF RecordOf!Next, RecordOf!identityVars, Load
  <1>2. ASSUME UNCHANGED <<runners[u], bad, mem[c], disk[u]>>
        PROVE  [RecordOf(c)!Next]_(RecordOf(c)!identityVars)
    BY <1>2
  <1>3. ASSUME UNCHANGED <<runners, revoked, mem, disk>>
        PROVE  [RecordOf(c)!Next]_(RecordOf(c)!identityVars)
    BY <1>2, <1>3
  <1>4. CASE Launch \/ Declares \/ Listens \/ Spawns \/ ServesHealth
    BY <1>3, <1>4 DEF Launch, Declares, Listens, Spawns, ServesHealth, worldVars, fileVars
  <1>5. CASE LoadIdentity
    <2>1. /\ UNCHANGED <<runners, revoked, disk>>
          /\ boot = "load" /\ mem' = [mem EXCEPT ![turn] = disk[UrlOf[turn]]]
      BY <1>5 DEF LoadIdentity, worldVars, fileVars
    <2>2. CASE c # turn
      BY <1>1, <1>2, <2>1, <2>2
    <2>3. CASE c = turn
      <3>1. mem[c] = 0
        <4>1. c >= turn
          BY <2>3, StartupAssumption
        <4>2. QED BY <2>1, <4>1 DEF ToComeInv, ToCome
      <3>2. mem'[c] = disk[u]
        BY <1>1, <2>1, <2>3
      <3>3. CASE disk[u] = 0
        BY <1>2, <2>1, <3>1, <3>2, <3>3
      <3>4. CASE disk[u] # 0
        BY <2>1, <3>1, <3>2, <3>4 DEF RecordOf!Start
      <3>5. QED BY <3>3, <3>4
    <2>4. QED BY <2>2, <2>3
  <1>6. ASSUME ProcessEnds PROVE [RecordOf(c)!Next]_(RecordOf(c)!identityVars)
    <2>1. mem'[c] = 0 /\ UNCHANGED <<runners, revoked, disk>>
      BY <1>6 DEF ProcessEnds, FileAfterExit
    <2>2. RecordOf(c)!Stop
      BY <2>1 DEF RecordOf!Stop
    <2>3. QED BY <2>2
  <1>7. ASSUME NEW d \in Client, MayRegister(d)
        PROVE  IF mem[d] = 0 THEN disk[UrlOf[d]] = 0
                             ELSE Runner(d) \in revoked \/ mem[d] # disk[UrlOf[d]]
    <2>1. ASSUME Runner(d) \in unsaved PROVE mem[d] # 0 /\ mem[d] # disk[UrlOf[d]]
      <3>1. mem[d] \in Identity /\ mem[d] # 0
        BY <1>1, <2>1 DEF Runner
      <3>2. <<UrlOf[d], mem[d]>> \in unsaved
        BY <2>1 DEF Runner
      <3>3. QED BY <3>1, <3>2 DEF NumbersInv
    <2>2. ASSUME Runner(d) \in revoked PROVE mem[d] # 0
      BY <1>1, <2>2 DEF Runner
    <2>3. QED BY <1>7, <2>1, <2>2 DEF MayRegister, OverwriteInv
  <1>8. ASSUME NEW d \in Client, MayRegister(d), UNCHANGED <<revoked, disk>>,
               runners' = [runners EXCEPT ![UrlOf[d]] = runners[UrlOf[d]] + 1],
               \/ mem' = mem
               \/ mem' = [mem EXCEPT ![d] = runners[UrlOf[d]] + 1]
        PROVE  [RecordOf(c)!Next]_(RecordOf(c)!identityVars)
    <2>1. CASE d # c
      <3>1. UrlOf[d] # UrlOf[c]
        BY <2>1 DEF OwnUrls
      <3>2. QED BY <1>1, <1>2, <1>8, <2>1, <3>1
    <2>2. CASE d = c
      <3>1. /\ runners'[u] = runners[u] + 1
            /\ mem'[c] \in {mem[c], runners[u] + 1}
        BY <1>1, <1>8, <2>2
      <3>2. mem[c] = 0 \/ mem[c] \in Identity
        BY <1>1
      <3>3. IF mem[c] = 0 THEN disk[u] = 0 ELSE mem[c] \in bad \/ mem[c] # disk[u]
        BY <1>7, <1>8, <2>2, <3>2 DEF Runner
      <3>4. RecordOf(c)!Create
        BY <1>8, <3>1, <3>3 DEF RecordOf!Create
      <3>5. QED BY <3>4
    <2>3. QED BY <2>1, <2>2
  <1>9. ASSUME NEW d \in Client, Enrolls(d) \/ AnswerLost(d)
        PROVE  [RecordOf(c)!Next]_(RecordOf(c)!identityVars)
    BY <1>8, <1>9 DEF Enrolls, AnswerLost, CallSave, lifeVars, fileVars
  <1>10. ASSUME NEW d \in Client, AssignsTask(d) \/ Saves(d)
         PROVE  [RecordOf(c)!Next]_(RecordOf(c)!identityVars)
    BY <1>3, <1>10 DEF AssignsTask, Saves, ReadAndMerge, WriteTemp, lifeVars, worldVars, fileVars
  <1>11. ASSUME NEW d \in Client, Saved(d)
         PROVE  [RecordOf(c)!Next]_(RecordOf(c)!identityVars)
    <2>1. /\ ~NoSave(d) /\ saving[d].pc = "rename"
          /\ UNCHANGED <<mem, runners, revoked>>
          /\ disk' = saving[d].data
      BY <1>11 DEF Saved, Rename, NoSave, NotSaving, worldVars
    <2>2. disk' = [disk EXCEPT ![UrlOf[d]] = mem[d]]
      BY <2>1 DEF StartupInv, FileInv, SaveInv, BootInv, SaverInv
    <2>3. CASE d # c
      <3>1. UrlOf[d] # UrlOf[c]
        BY <2>3 DEF OwnUrls
      <3>2. QED BY <1>1, <1>2, <2>1, <2>2, <3>1
    <2>4. CASE d = c
      <3>1. disk'[u] = mem[c] /\ disk[u] < mem[c]
        BY <1>1, <2>1, <2>2, <2>4 DEF NumbersInv
      <3>2. RecordOf(c)!Keep
        BY <2>1, <3>1 DEF RecordOf!Keep
      <3>3. QED BY <3>2
    <2>5. QED BY <2>3, <2>4
  <1>12. ASSUME NEW d \in Client, NotSaved(d)
         PROVE  [RecordOf(c)!Next]_(RecordOf(c)!identityVars)
    BY <1>3, <1>6, <1>12 DEF NotSaved, SaveFails, lifeVars
  <1>13. ASSUME NEW v \in Url, NEW n \in Identity, Revokes(v, n)
         PROVE  [RecordOf(c)!Next]_(RecordOf(c)!identityVars)
    <2>1. /\ UNCHANGED <<mem, runners, disk>> /\ n \in 1 .. runners[v]
          /\ revoked' = revoked \union {<<v, n>>}
      BY <1>13 DEF Revokes, lifeVars, fileVars
    <2>2. CASE v # u
      <3>1. bad' = bad
        BY <2>1, <2>2
      <3>2. QED BY <1>2, <2>1, <3>1
    <2>3. CASE v = u
      <3>1. bad' = bad \union {n}
        BY <2>1, <2>3
      <3>2. n \in 1 .. runners[u] /\ RecordOf(c)!Revoke(n)
        BY <2>1, <2>3, <3>1 DEF RecordOf!Revoke
      <3>3. QED BY <3>2
    <2>4. QED BY <2>2, <2>3
  <1>14. CASE UNCHANGED startVars
    BY <1>3, <1>14 DEF startVars, lifeVars, worldVars, fileVars
  <1>15. QED
    BY <1>4, <1>5, <1>6, <1>9, <1>10, <1>11, <1>12, <1>13, <1>14
       DEF StartupNext, Exit, SaveStep

\* If every instance has a forgejo_url of its own, the instances, which share the
\* process and the state file, each keep their identity as if they were alone.
THEOREM EachIdentityRecorded == ASSUME OwnUrls PROVE StartupSpec => IdentitySpecs
  <1>1. StartupInit => OverwriteInv /\ ToComeInv /\ \A c \in Client : RecordOf(c)!Init
    BY FileAssumption, StartupAssumption
       DEF StartupInit, LifeInit, FileInit, OverwriteInv, Overwritable, ToComeInv, Load,
           RecordOf!Init
  <1>2. StartupInv /\ NumbersInv /\ OverwriteInv /\ ToComeInv /\ [StartupNext]_startVars
            => (OverwriteInv /\ ToComeInv)'
    BY OverwriteNext, ToComeNext
  <1>3. StartupInv /\ NumbersInv /\ OverwriteInv /\ ToComeInv /\ [StartupNext]_startVars
            => [\A c \in Client : [RecordOf(c)!Next]_(RecordOf(c)!identityVars)]_startVars
    BY RecordOfNext
  <1>4. QED
    BY <1>1, <1>2, <1>3, StartupKept, NumbersKept, PTL DEF StartupSpec, IdentitySpecs

\* What follows from that: no Save, of whichever instance and however late after it
\* read the file, puts an older runner back into it, or none.
THEOREM FileAdvances ==
    ASSUME OwnUrls
    PROVE  StartupSpec => [][\A c \in Client : disk'[UrlOf[c]] >= disk[UrlOf[c]]]_disk
  <1>1. ASSUME StartupInv, NEW c \in Client, [RecordOf(c)!Next]_(RecordOf(c)!identityVars)
        PROVE  disk'[UrlOf[c]] >= disk[UrlOf[c]]
    <2>1. disk[UrlOf[c]] \in Nat /\ mem[c] \in Nat
      <3>1. Identity = 1 .. MaxRunners /\ MaxRunners \in Nat /\ UrlOf[c] \in Url
        BY FileAssumption, StartupAssumption
      <3>2. disk[UrlOf[c]] \in Identity \union {0}
        BY <1>1, <3>1, StartupAssumption DEF StartupInv, FileInv, FileTypeOK, Contents
      <3>3. mem[c] \in 0 .. MaxRunners
        BY <1>1 DEF StartupInv, StartupTypeOK
      <3>4. QED BY <3>1, <3>2, <3>3
    <2>2. QED
      BY <1>1, <2>1
         DEF Load, RecordOf!identityVars, RecordOf!Next, RecordOf!Create, RecordOf!Adopt,
             RecordOf!Keep, RecordOf!Start, RecordOf!Stop, RecordOf!Revoke
  <1>2. StartupInv /\ [\A c \in Client : [RecordOf(c)!Next]_(RecordOf(c)!identityVars)]_startVars
            => [\A c \in Client : disk'[UrlOf[c]] >= disk[UrlOf[c]]]_disk
    BY <1>1 DEF startVars, fileVars
  <1>3. QED
    BY <1>2, StartupKept, EachIdentityRecorded, PTL DEF IdentitySpecs

-----------------------------------------------------------------------------
(* The mutex that all instances share *)

\* FileStore.mu is held by nobody but a Save at work: no return of it, no failure
\* and no end of the process leaves it locked behind.
MuAtWork == mu # Unlocked => saving[mu].pc \in {"write", "rename"}

\* The holder's next step is one of its Save, so that the others' turns come.
THEOREM MuIsReturned == StartupSpec => []MuAtWork
  <1> USE DEF MuAtWork
  <1>1. StartupInit => MuAtWork
    BY DEF StartupInit, FileInit
  <1>2. FileInv /\ MuAtWork /\ [FileNext]_fileVars => MuAtWork'
    <2> SUFFICES ASSUME FileInv, MuAtWork, [FileNext]_fileVars PROVE MuAtWork'
      OBVIOUS
    <2>1. DOMAIN saving = Client /\ mu \in Client \union {Unlocked}
          /\ saving \in [Client -> [pc : {"idle", "lock", "write", "rename"},
                                    id : Identity \union {NoIdentity}, data : Contents]]
      BY DEF FileInv, FileTypeOK
    <2>2. ASSUME NEW c \in Client, NEW id \in Identity, CallSave(c, id) PROVE MuAtWork'
      BY <2>1, <2>2 DEF CallSave, NoSave, NotSaving
    <2>3. ASSUME NEW c \in Client, ReadAndMerge(c) PROVE MuAtWork'
      BY <2>1, <2>3 DEF ReadAndMerge
    <2>4. ASSUME NEW c \in Client, WriteTemp(c) PROVE MuAtWork'
      BY <2>1, <2>4 DEF WriteTemp
    <2>5. CASE FileAfterExit \/ \E c \in Client : Rename(c) \/ SaveFails(c)
      BY <2>5 DEF FileAfterExit, Rename, SaveFails
    <2>6. CASE UNCHANGED fileVars
      BY <2>6 DEF fileVars
    <2>7. QED BY <2>2, <2>3, <2>4, <2>5, <2>6 DEF FileNext
  <1>3. StartupInv => FileInv
    BY DEF StartupInv
  <1>4. QED BY <1>1, <1>2, <1>3, StartupKept, StartupStepRefines, PTL DEF StartupSpec
=============================================================================
