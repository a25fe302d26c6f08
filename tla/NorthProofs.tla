---------------------------- MODULE NorthProofs ----------------------------
(***************************************************************************)
(* Theorems about NorthClient, for any number of concurrent RPCs and of    *)
(* runners, with lost answers, crashes, restarts and failing saves.         *)
(***************************************************************************)
EXTENDS NorthClient, TLAPS

\* Register is past SetIdentity, but its generation has not begun.
Changing(r) == call[r].pc \in {"save", "advance"}

\* regMu and life say who registers: one call at most.
Serial == /\ life = "up" => \A r \in Rpc : call[r].pc \in Registering => regMu = r
          /\ life # "up" => /\ regMu = Free
                            /\ \A r \in Rpc : call[r].pc \in Registering \union {"idle"}
          /\ life = "down" => \A r \in Rpc : call[r].pc = "idle"
          /\ \A r, q \in Rpc : call[r].pc \in Registering /\ call[q].pc \in Registering => r = q

\* The state file follows the identity in use, or a failed save is on record.
Persisted ==
    /\ \A r \in Rpc :
          /\ call[r].pc = "save" => identity = call[r].id
          /\ call[r].pc \in {"answered", "save"} => saved # call[r].id
          /\ call[r].pc = "advance" => saved = identity
          /\ life = "up" /\ call[r].pc = "failed" => saved = identity \/ MaySaveFail
    /\ life = "up" /\ (\A r \in Rpc : ~Changing(r) /\ call[r].pc # "failed")
          => saved = identity \/ (MaySaveFail /\ backoffWait # 0)
    /\ life = "starting" => saved = 0 \/ \E r \in Rpc : call[r].pc = "advance"

\* A call of the current generation was sent with the identity in use, unless
\* that is being changed right now, or could not be saved.
Current ==
    \A r \in Rpc :
        /\ call[r].pc \in {"loaded", "sent", "rejected"} => call[r].gen =< generation
        /\ call[r].pc = "rejected" => call[r].id \in revoked
        /\ (/\ call[r].pc \in {"sent", "rejected"}
            /\ call[r].gen = generation
            /\ \A q \in Rpc : ~Changing(q))
              => call[r].id = identity \/ (MaySaveFail /\ identity # saved)

NorthInv == NorthTypeOK /\ Serial /\ Persisted /\ Current

\* No step breaks the types; in particular the backoff stays within its maximum.
LEMMA NorthTypes ==
    ASSUME NorthTypeOK, [NorthNext]_northVars
    PROVE  NorthTypeOK'
  <1> USE NorthAssumption DEF forgejoVars, clientVars, backoffVars, At, Goto, Return, Idle,
             NorthTypeOK, CallPC, registerBackoffMax
  <1>0. Idle \in [pc : CallPC, gen : Nat, id : 0 .. runners]
    OBVIOUS
  <1>1. ASSUME NEW r \in Rpc, Issue(r) PROVE NorthTypeOK'
    BY <1>1 DEF Issue
  <1>2. ASSUME NEW r \in Rpc, Send(r) PROVE NorthTypeOK'
    <2>1. call' \in [Rpc -> [pc : CallPC, gen : Nat, id : 0 .. runners]]
      <3>1. call[r] \in [pc : CallPC, gen : Nat, id : 0 .. runners]
        OBVIOUS
      <3>2. [call[r] EXCEPT !.pc = "sent", !.id = identity] \in [pc : CallPC, gen : Nat, id : 0 .. runners]
        BY <3>1
      <3>3. call' = [call EXCEPT ![r] = [call[r] EXCEPT !.pc = "sent", !.id = identity]]
        BY <1>2 DEF Send
      <3>4. QED BY <3>2, <3>3
    <2>2. QED BY <1>2, <2>1 DEF Send
  <1>3. ASSUME NEW r \in Rpc, Returns(r) PROVE NorthTypeOK'
    BY <1>3 DEF Returns
  <1>4. ASSUME NEW r \in Rpc, Rejected(r) PROVE NorthTypeOK'
    BY <1>4 DEF Rejected
  <1>5. ASSUME NEW r \in Rpc, Deduplicate(r) PROVE NorthTypeOK'
    BY <1>5 DEF Deduplicate
  <1>6. ASSUME NEW r \in Rpc, BackOff(r) PROVE NorthTypeOK'
    BY <1>6 DEF BackOff
  <1>7. ASSUME NEW r \in Rpc, Lock(r) PROVE NorthTypeOK'
    BY <1>7 DEF Lock
  <1>8. ASSUME NEW r \in Rpc, Enroll(r) PROVE NorthTypeOK'
    BY <1>8 DEF Enroll
  <1>9. ASSUME NEW r \in Rpc, RegisterFails(r) PROVE NorthTypeOK'
    BY <1>9 DEF RegisterFails
  <1>10. ASSUME NEW r \in Rpc, SetIdentity(r) PROVE NorthTypeOK'
    BY <1>10 DEF SetIdentity
  <1>11. ASSUME NEW r \in Rpc, Save(r) PROVE NorthTypeOK'
    BY <1>11 DEF Save
  <1>12. ASSUME NEW r \in Rpc, SaveFails(r) PROVE NorthTypeOK'
    BY <1>12 DEF SaveFails
  <1>13. ASSUME NEW r \in Rpc, Advance(r) PROVE NorthTypeOK'
    <2>1. call' \in [Rpc -> [pc : CallPC, gen : Nat, id : 0 .. runners]]
      BY <1>13, <1>0 DEF Advance
    <2>2. generation' \in Nat /\ backoffWait' \in 0 .. registerBackoffMax
      BY <1>13 DEF Advance
    <2>3. QED BY <1>13, <2>1, <2>2 DEF Advance
  <1>14. ASSUME NEW r \in Rpc, NoteRegisterFailure(r) PROVE NorthTypeOK'
    <2>1. call' \in [Rpc -> [pc : CallPC, gen : Nat, id : 0 .. runners]]
      BY <1>14, <1>0 DEF NoteRegisterFailure
    <2>2. backoffWait' \in 0 .. registerBackoffMax
      BY <1>14 DEF NoteRegisterFailure, NextWait, registerBackoffBase
    <2>3. QED BY <1>14, <2>1, <2>2 DEF NoteRegisterFailure
  <1>15. ASSUME NEW r \in Rpc, FirstRegister(r) PROVE NorthTypeOK'
    BY <1>15 DEF FirstRegister
  <1>16. ASSUME NEW i \in 1 .. MaxRunners, Revoke(i) PROVE NorthTypeOK'
    BY <1>16 DEF Revoke
  <1>17. CASE BackoffElapses
    BY <1>17 DEF BackoffElapses
  <1>18. CASE Exit
    <2>1. call' \in [Rpc -> [pc : CallPC, gen : Nat, id : 0 .. runners]]
      BY <1>18, <1>0 DEF Exit
    <2>2. identity' \in 0 .. runners /\ generation' \in Nat /\ backoffWait' \in 0 .. registerBackoffMax
      BY <1>18 DEF Exit
    <2>3. QED BY <1>18, <2>1, <2>2 DEF Exit
  <1>19. CASE Restore
    BY <1>19 DEF Restore
  <1>20. CASE UNCHANGED northVars
    BY <1>20 DEF northVars
  <1>21. QED
    BY <1>1, <1>2, <1>3, <1>4, <1>5, <1>6, <1>7, <1>8, <1>9, <1>10, <1>11, <1>12, <1>13, <1>14, <1>15, <1>16, <1>17, <1>18, <1>19, <1>20
       DEF NorthNext, RetryOnAuth, Register

\* At most one call registers, and it holds regMu or is the first Register.
LEMMA SerialNext ==
    ASSUME NorthTypeOK, Serial, [NorthNext]_northVars
    PROVE  Serial'
  <1> USE NorthAssumption DEF forgejoVars, clientVars, backoffVars, At, Goto, Return, Idle,
             NorthTypeOK, Serial, Registering, CallPC
  <1>1. ASSUME NEW r \in Rpc, Issue(r) PROVE Serial'
    BY <1>1 DEF Issue
  <1>2. ASSUME NEW r \in Rpc, Send(r) PROVE Serial'
    BY <1>2 DEF Send
  <1>3. ASSUME NEW r \in Rpc, Returns(r) PROVE Serial'
    BY <1>3 DEF Returns
  <1>4. ASSUME NEW r \in Rpc, Rejected(r) PROVE Serial'
    BY <1>4 DEF Rejected
  <1>5. ASSUME NEW r \in Rpc, Deduplicate(r) PROVE Serial'
    BY <1>5 DEF Deduplicate
  <1>6. ASSUME NEW r \in Rpc, BackOff(r) PROVE Serial'
    BY <1>6 DEF BackOff
  <1>7. ASSUME NEW r \in Rpc, Lock(r) PROVE Serial'
    BY <1>7 DEF Lock
  <1>8. ASSUME NEW r \in Rpc, Enroll(r) PROVE Serial'
    BY <1>8 DEF Enroll
  <1>9. ASSUME NEW r \in Rpc, RegisterFails(r) PROVE Serial'
    BY <1>9 DEF RegisterFails
  <1>10. ASSUME NEW r \in Rpc, SetIdentity(r) PROVE Serial'
    BY <1>10 DEF SetIdentity
  <1>11. ASSUME NEW r \in Rpc, Save(r) PROVE Serial'
    BY <1>11 DEF Save
  <1>12. ASSUME NEW r \in Rpc, SaveFails(r) PROVE Serial'
    BY <1>12 DEF SaveFails
  <1>13. ASSUME NEW r \in Rpc, Advance(r) PROVE Serial'
    BY <1>13 DEF Advance
  <1>14. ASSUME NEW r \in Rpc, NoteRegisterFailure(r) PROVE Serial'
    BY <1>14 DEF NoteRegisterFailure
  <1>15. ASSUME NEW r \in Rpc, FirstRegister(r) PROVE Serial'
    BY <1>15 DEF FirstRegister
  <1>16. ASSUME NEW i \in 1 .. MaxRunners, Revoke(i) PROVE Serial'
    BY <1>16 DEF Revoke
  <1>17. CASE BackoffElapses
    BY <1>17 DEF BackoffElapses
  <1>18. CASE Exit
    BY <1>18 DEF Exit
  <1>19. CASE Restore
    BY <1>19 DEF Restore
  <1>20. CASE UNCHANGED northVars
    BY <1>20 DEF northVars
  <1>21. QED
    BY <1>1, <1>2, <1>3, <1>4, <1>5, <1>6, <1>7, <1>8, <1>9, <1>10, <1>11, <1>12, <1>13, <1>14, <1>15, <1>16, <1>17, <1>18, <1>19, <1>20
       DEF NorthNext, RetryOnAuth, Register

\* The state file is brought up to date before regMu is given back.
LEMMA PersistedNext ==
    ASSUME NorthTypeOK, Serial, Persisted, [NorthNext]_northVars
    PROVE  Persisted'
  <1> USE NorthAssumption DEF forgejoVars, clientVars, backoffVars, At, Goto, Return, Idle,
             NorthTypeOK, Serial, Persisted, Changing, Registering, CallPC
  <1>1. ASSUME NEW r \in Rpc, Issue(r) PROVE Persisted'
    BY <1>1 DEF Issue
  <1>2. ASSUME NEW r \in Rpc, Send(r) PROVE Persisted'
    BY <1>2 DEF Send
  <1>3. ASSUME NEW r \in Rpc, Returns(r) PROVE Persisted'
    BY <1>3 DEF Returns
  <1>4. ASSUME NEW r \in Rpc, Rejected(r) PROVE Persisted'
    BY <1>4 DEF Rejected
  <1>5. ASSUME NEW r \in Rpc, Deduplicate(r) PROVE Persisted'
    BY <1>5 DEF Deduplicate
  <1>6. ASSUME NEW r \in Rpc, BackOff(r) PROVE Persisted'
    BY <1>6 DEF BackOff
  <1>7. ASSUME NEW r \in Rpc, Lock(r) PROVE Persisted'
    BY <1>7 DEF Lock
  <1>8. ASSUME NEW r \in Rpc, Enroll(r) PROVE Persisted'
    BY <1>8 DEF Enroll
  <1>9. ASSUME NEW r \in Rpc, RegisterFails(r) PROVE Persisted'
    BY <1>9 DEF RegisterFails
  <1>10. ASSUME NEW r \in Rpc, SetIdentity(r) PROVE Persisted'
    BY <1>10 DEF SetIdentity
  <1>11. ASSUME NEW r \in Rpc, Save(r) PROVE Persisted'
    BY <1>11 DEF Save
  <1>12. ASSUME NEW r \in Rpc, SaveFails(r) PROVE Persisted'
    BY <1>12 DEF SaveFails
  <1>13. ASSUME NEW r \in Rpc, Advance(r) PROVE Persisted'
    BY <1>13 DEF Advance
  <1>14. ASSUME NEW r \in Rpc, NoteRegisterFailure(r) PROVE Persisted'
    <2>1. backoffWait' # 0
      BY <1>14 DEF NoteRegisterFailure, NextWait, registerBackoffBase, registerBackoffMax
    <2>2. \A q \in Rpc : call[q].pc \in Registering => q = r
      BY <1>14 DEF NoteRegisterFailure
    <2>3. saved = identity \/ MaySaveFail
      BY <1>14 DEF NoteRegisterFailure
    <2>4. \A q \in Rpc : q # r => call'[q] = call[q]
      BY <1>14 DEF NoteRegisterFailure
    <2>5. call'[r].pc = "idle"
      BY <1>14 DEF NoteRegisterFailure
    <2>6. saved' = saved /\ identity' = identity /\ life' = "up"
      BY <1>14 DEF NoteRegisterFailure
    <2>7. QED BY <2>1, <2>2, <2>3, <2>4, <2>5, <2>6
  <1>15. ASSUME NEW r \in Rpc, FirstRegister(r) PROVE Persisted'
    BY <1>15 DEF FirstRegister
  <1>16. ASSUME NEW i \in 1 .. MaxRunners, Revoke(i) PROVE Persisted'
    BY <1>16 DEF Revoke
  <1>17. CASE BackoffElapses
    BY <1>17 DEF BackoffElapses
  <1>18. CASE Exit
    BY <1>18 DEF Exit
  <1>19. CASE Restore
    BY <1>19 DEF Restore
  <1>20. CASE UNCHANGED northVars
    BY <1>20 DEF northVars
  <1>21. QED
    BY <1>1, <1>2, <1>3, <1>4, <1>5, <1>6, <1>7, <1>8, <1>9, <1>10, <1>11, <1>12, <1>13, <1>14, <1>15, <1>16, <1>17, <1>18, <1>19, <1>20
       DEF NorthNext, RetryOnAuth, Register

\* The generation tells whether the identity a call was sent with is still in use.
LEMMA CurrentNext ==
    ASSUME NorthTypeOK, Serial, Persisted, Current, [NorthNext]_northVars
    PROVE  Current'
  <1> USE NorthAssumption DEF forgejoVars, clientVars, backoffVars, At, Goto, Return, Idle,
             NorthTypeOK, Serial, Current, Changing, Registering, CallPC
  <1>1. ASSUME NEW r \in Rpc, Issue(r) PROVE Current'
    BY <1>1 DEF Issue
  <1>2. ASSUME NEW r \in Rpc, Send(r) PROVE Current'
    BY <1>2 DEF Send
  <1>3. ASSUME NEW r \in Rpc, Returns(r) PROVE Current'
    BY <1>3 DEF Returns
  <1>4. ASSUME NEW r \in Rpc, Rejected(r) PROVE Current'
    BY <1>4 DEF Rejected
  <1>5. ASSUME NEW r \in Rpc, Deduplicate(r) PROVE Current'
    BY <1>5 DEF Deduplicate
  <1>6. ASSUME NEW r \in Rpc, BackOff(r) PROVE Current'
    BY <1>6 DEF BackOff
  <1>7. ASSUME NEW r \in Rpc, Lock(r) PROVE Current'
    BY <1>7 DEF Lock
  <1>8. ASSUME NEW r \in Rpc, Enroll(r) PROVE Current'
    BY <1>8 DEF Enroll
  <1>9. ASSUME NEW r \in Rpc, RegisterFails(r) PROVE Current'
    BY <1>9 DEF RegisterFails
  <1>10. ASSUME NEW r \in Rpc, SetIdentity(r) PROVE Current'
    BY <1>10 DEF SetIdentity
  <1>11. ASSUME NEW r \in Rpc, Save(r) PROVE Current'
    BY <1>11 DEF Save
  <1>12. ASSUME NEW r \in Rpc, SaveFails(r) PROVE Current'
    <2>1. identity # saved
      BY <1>12 DEF SaveFails, Persisted
    <2>2. QED BY <1>12, <2>1 DEF SaveFails
  <1>13. ASSUME NEW r \in Rpc, Advance(r) PROVE Current'
    BY <1>13 DEF Advance
  <1>14. ASSUME NEW r \in Rpc, NoteRegisterFailure(r) PROVE Current'
    BY <1>14 DEF NoteRegisterFailure
  <1>15. ASSUME NEW r \in Rpc, FirstRegister(r) PROVE Current'
    BY <1>15 DEF FirstRegister
  <1>16. ASSUME NEW i \in 1 .. MaxRunners, Revoke(i) PROVE Current'
    BY <1>16 DEF Revoke
  <1>17. CASE BackoffElapses
    BY <1>17 DEF BackoffElapses
  <1>18. CASE Exit
    BY <1>18 DEF Exit
  <1>19. CASE Restore
    BY <1>19 DEF Restore
  <1>20. CASE UNCHANGED northVars
    BY <1>20 DEF northVars
  <1>21. QED
    BY <1>1, <1>2, <1>3, <1>4, <1>5, <1>6, <1>7, <1>8, <1>9, <1>10, <1>11, <1>12, <1>13, <1>14, <1>15, <1>16, <1>17, <1>18, <1>19, <1>20
       DEF NorthNext, RetryOnAuth, Register

\* The strengthened invariant holds throughout.
LEMMA NorthInvariant == NorthSpec => []NorthInv
  <1>1. NorthInit => NorthInv
    <2> SUFFICES ASSUME NorthInit PROVE NorthInv
      OBVIOUS
    <2>1. \A r \in Rpc : call[r] = Idle
      BY DEF NorthInit
    <2>2. NorthTypeOK
      <3>1. Idle \in [pc : CallPC, gen : Nat, id : 0 .. runners]
        BY DEF NorthInit, Idle, CallPC
      <3>2. call \in [Rpc -> [pc : CallPC, gen : Nat, id : 0 .. runners]]
        BY <3>1 DEF NorthInit
      <3>3. runners \in 0 .. MaxRunners /\ 0 \in 0 .. registerBackoffMax /\ 0 \in 0 .. runners
        BY NorthAssumption DEF NorthInit, registerBackoffMax
      <3>4. QED BY <3>2, <3>3 DEF NorthInit, NorthTypeOK
    <2>3. Serial /\ Persisted /\ Current
      BY <2>1 DEF NorthInit, Serial, Persisted, Current, Changing, Registering, Idle
    <2>4. QED BY <2>2, <2>3 DEF NorthInv
  <1>2. NorthInv /\ [NorthNext]_northVars => NorthInv'
    BY NorthTypes, SerialNext, PersistedNext, CurrentNext DEF NorthInv
  <1>3. QED BY <1>1, <1>2, PTL DEF NorthSpec

\* The client's variables keep their types: no backoff outgrows registerBackoffMax,
\* and nobody holds an identity Forgejo has not given out.
THEOREM NorthTyped == NorthSpec => []NorthTypeOK
  <1>1. NorthInv => NorthTypeOK
    BY DEF NorthInv
  <1>2. QED BY <1>1, NorthInvariant, PTL

\* Whenever no registration is under way a restart would find the identity that
\* is in use, whatever was lost, retried or restarted before; if not, the save
\* failed and the backoff knows.
THEOREM IdentityPersisted == NorthSpec => []SavedIsCurrent
  <1>1. NorthInv => SavedIsCurrent
    BY NorthAssumption DEF NorthInv, NorthTypeOK, Serial, Persisted, SavedIsCurrent, Changing, Registering
  <1>2. QED BY <1>1, NorthInvariant, PTL

\* However many calls are rejected together or late, retryOnAuth sends a Register
\* only if Forgejo rejects the identity in use, or that could not be saved.
THEOREM RegisterIsNeeded == NorthSpec => RegistersOnlyWhenNeeded
  <1>1. ASSUME NorthInv, NEW r \in Rpc, Lock(r)
        PROVE  identity \in revoked \/ (MaySaveFail /\ identity # saved)
    <2>1. life = "up"
      BY <1>1 DEF NorthInv, Serial, Lock, At, Registering
    <2>2. \A q \in Rpc : ~Changing(q)
      BY <1>1, <2>1, NorthAssumption DEF NorthInv, Serial, Lock, Changing, Registering
    <2>3. QED
      BY <1>1, <2>2 DEF NorthInv, Current, Lock, At
  <1>2. NorthInv => \A r \in Rpc : Lock(r) => identity \in revoked \/ (MaySaveFail /\ identity # saved)
    BY <1>1
  <1>3. QED
    BY <1>2, NorthInvariant, PTL DEF RegistersOnlyWhenNeeded

\* With a state file that can be written there is one Register per lost identity,
\* as retryOnAuth promises.
THEOREM OneRegisterPerLoss ==
    ASSUME ~MaySaveFail
    PROVE  NorthSpec => RegistersOnlyWhenLost
  <1>1. [\A r \in Rpc : Lock(r) => identity \in revoked \/ (MaySaveFail /\ identity # saved)]_northVars
          => [\A r \in Rpc : Lock(r) => identity \in revoked]_northVars
    OBVIOUS
  <1>2. QED
    BY <1>1, RegisterIsNeeded, PTL DEF RegistersOnlyWhenNeeded, RegistersOnlyWhenLost
-----------------------------------------------------------------------------
(* The identity, as ClientIdentity promises it *)

\* Which identity is in use and which is on record, while Register is at work: the
\* answer is the newest runner, and nothing has become of it yet.
Numbered ==
    /\ life = "down" => identity = 0
    /\ life = "up" => identity # 0
    /\ \A r \in Rpc :
          /\ call[r].pc \in {"register", "answered"} /\ life = "starting"
                => identity = 0 /\ saved = 0
          /\ call[r].pc = "register" /\ life = "up" => identity \in revoked \/ identity # saved
          /\ call[r].pc \in {"answered", "save"} => call[r].id = runners /\ saved < runners
          /\ call[r].pc = "answered" => identity < runners
          /\ Changing(r) => identity # 0

\* No step breaks that.
LEMMA NumberedNext == NorthInv /\ Numbered /\ [NorthNext]_northVars => Numbered'
  <1> SUFFICES ASSUME NorthInv, Numbered, [NorthNext]_northVars PROVE Numbered'
    OBVIOUS
  <1>0. NorthTypeOK /\ Serial /\ Numbered
    BY DEF NorthInv
  <1>a. /\ runners \in Nat /\ saved \in 0 .. runners /\ identity \in 0 .. runners
        /\ DOMAIN call = Rpc
        /\ call \in [Rpc -> [pc : CallPC, gen : Nat, id : 0 .. runners]]
    BY NorthAssumption DEF NorthInv, NorthTypeOK
  <1> USE DEF forgejoVars, clientVars, backoffVars, At, Goto, Return, Idle, Changing, Registering
  <1>1. ASSUME UNCHANGED <<runners, revoked, saved, life, identity>>,
               \A r \in Rpc : UNCHANGED call[r] \/ call'[r].pc \notin {"register", "answered", "save", "advance"}
        PROVE  Numbered'
    BY <1>0, <1>1 DEF Numbered
  <1>2. ASSUME NEW r \in Rpc, Issue(r) \/ Returns(r) \/ Rejected(r) \/ Deduplicate(r) \/ BackOff(r)
        PROVE  Numbered'
    BY <1>1, <1>2, <1>a DEF Issue, Returns, Rejected, Deduplicate, BackOff
  <1>3. ASSUME NEW r \in Rpc, Send(r) PROVE Numbered'
    BY <1>1, <1>3, <1>a DEF Send
  <1>4. ASSUME NEW r \in Rpc, Lock(r) PROVE Numbered'
    <2>1. life = "up" /\ (\A q \in Rpc : ~Changing(q))
      BY <1>0, <1>4, NorthAssumption DEF Serial, Lock
    <2>2. identity \in revoked \/ identity # saved
      BY <1>4, <2>1 DEF NorthInv, Current, Lock
    <2>3. /\ UNCHANGED <<runners, revoked, saved, life, identity>>
          /\ call'[r].pc = "register"
          /\ \A q \in Rpc : q # r => call'[q] = call[q]
      BY <1>4, <1>a DEF Lock
    <2>4. QED BY <1>0, <2>1, <2>2, <2>3 DEF Numbered
  <1>5. ASSUME NEW r \in Rpc, Enroll(r) PROVE Numbered'
    <2>1. \A q \in Rpc : q # r => call'[q] = call[q] /\ call[q].pc \notin Registering
      BY <1>0, <1>5, <1>a DEF Serial, Enroll
    <2>2. /\ call[r].pc = "register" /\ call'[r].pc = "answered" /\ call'[r].id = runners + 1
          /\ runners' = runners + 1
          /\ UNCHANGED <<revoked, saved, life, identity>>
      BY <1>5, <1>a DEF Enroll
    <2>3. QED BY <1>0, <1>a, <2>1, <2>2 DEF Numbered
  <1>6. ASSUME NEW r \in Rpc, RegisterFails(r) \/ SaveFails(r) \/ NoteRegisterFailure(r)
        PROVE  Numbered'
    BY <1>1, <1>6, <1>a DEF RegisterFails, SaveFails, NoteRegisterFailure
  <1>7. ASSUME NEW r \in Rpc, SetIdentity(r) PROVE Numbered'
    <2>1. \A q \in Rpc : q # r => call'[q] = call[q] /\ call[q].pc \notin Registering
      BY <1>0, <1>7, <1>a DEF Serial, SetIdentity
    <2>2. /\ call[r].pc = "answered" /\ call'[r].pc = "save" /\ call'[r].id = call[r].id
          /\ identity' = call[r].id
          /\ UNCHANGED <<runners, revoked, saved, life>>
      BY <1>7, <1>a DEF SetIdentity
    <2>3. call[r].id = runners /\ saved < runners /\ life # "down"
      BY <1>0, <2>2 DEF Numbered, Serial
    <2>4. QED BY <1>0, <1>a, <2>1, <2>2, <2>3 DEF Numbered
  <1>8. ASSUME NEW r \in Rpc, Save(r) PROVE Numbered'
    <2>1. \A q \in Rpc : q # r => call'[q] = call[q] /\ call[q].pc \notin Registering
      BY <1>0, <1>8, <1>a DEF Serial, Save
    <2>2. /\ call[r].pc = "save" /\ call'[r].pc = "advance"
          /\ UNCHANGED <<runners, revoked, identity, life>>
      BY <1>8, <1>a DEF Save
    <2>3. QED BY <1>0, <2>1, <2>2 DEF Numbered
  <1>9. ASSUME NEW r \in Rpc, Advance(r) PROVE Numbered'
    <2>1. \A q \in Rpc : q # r => call'[q] = call[q] /\ call[q].pc \notin Registering
      BY <1>0, <1>9, <1>a DEF Serial, Advance
    <2>2. /\ call[r].pc = "advance" /\ call'[r].pc = "idle" /\ life' = "up"
          /\ UNCHANGED <<runners, revoked, saved, identity>>
      BY <1>9, <1>a DEF Advance
    <2>3. QED BY <1>0, <2>1, <2>2 DEF Numbered
  <1>10. ASSUME NEW r \in Rpc, FirstRegister(r) PROVE Numbered'
    <2>1. /\ life = "down" /\ life' = "starting" /\ saved = 0 /\ identity = 0
          /\ UNCHANGED <<runners, revoked, saved, identity>>
          /\ call'[r].pc = "register"
          /\ \A q \in Rpc : q # r => call'[q] = call[q]
      BY <1>0, <1>10, <1>a DEF Numbered, FirstRegister
    <2>2. QED BY <1>0, <2>1 DEF Numbered, Serial
  <1>11. ASSUME NEW i \in 1 .. MaxRunners, Revoke(i) PROVE Numbered'
    BY <1>0, <1>11 DEF Numbered, Revoke
  <1>12. CASE Exit
    <2>1. life' = "down" /\ identity' = 0 /\ \A r \in Rpc : call'[r].pc = "idle"
      BY <1>12 DEF Exit
    <2>2. QED BY <2>1 DEF Numbered
  <1>13. CASE Restore
    <2>1. \A r \in Rpc : call'[r].pc = "idle"
      BY <1>0, <1>13 DEF Restore, Serial
    <2>2. QED BY <1>13, <2>1 DEF Numbered, Restore
  <1>14. CASE BackoffElapses \/ UNCHANGED northVars
    BY <1>1, <1>14 DEF BackoffElapses, northVars
  <1>15. QED
    BY <1>2, <1>3, <1>4, <1>5, <1>6, <1>7, <1>8, <1>9, <1>10, <1>11, <1>12, <1>13, <1>14
       DEF NorthNext, RetryOnAuth, Register

\* Enroll is Create, SetIdentity Adopt, Save Keep; the other steps of the calls
\* leave the identity alone.
LEMMA RecordNext ==
    NorthInv /\ Numbered /\ [NorthNext]_northVars => [Record!Next]_(Record!identityVars)
  <1> SUFFICES ASSUME NorthInv, Numbered, [NorthNext]_northVars,
                      ~UNCHANGED <<runners, revoked, identity, saved>>
               PROVE  Record!Next
    BY DEF Record!identityVars
  <1>0. /\ runners \in Nat /\ saved \in 0 .. runners /\ identity \in 0 .. runners
        /\ life \in {"down", "starting", "up"}
    BY NorthAssumption DEF NorthInv, NorthTypeOK
  <1> USE DEF Record!Next, forgejoVars, clientVars, backoffVars, At
  <1>1. ASSUME NEW r \in Rpc, Enroll(r) PROVE Record!Next
    <2>1. life # "down"
      BY <1>1 DEF NorthInv, Serial, Enroll
    <2>2. IF identity = 0 THEN saved = 0 ELSE identity \in revoked \/ identity # saved
      BY <1>0, <1>1, <2>1 DEF Numbered, Enroll
    <2>3. Record!Create
      BY <1>1, <2>2 DEF Record!Create, Enroll
    <2>4. QED BY <2>3
  <1>2. ASSUME NEW r \in Rpc, SetIdentity(r) PROVE Record!Next
    <2>1. Record!Adopt
      BY <1>2 DEF Record!Adopt, SetIdentity, Numbered
    <2>2. QED BY <2>1
  <1>3. ASSUME NEW r \in Rpc, Save(r) PROVE Record!Next
    <2>1. identity = call[r].id /\ identity = runners /\ saved < runners
      BY <1>3 DEF NorthInv, Persisted, Numbered, Save
    <2>2. Record!Keep
      BY <1>3, <2>1 DEF Record!Keep, Save
    <2>3. QED BY <2>2
  <1>4. ASSUME NEW i \in 1 .. MaxRunners, Revoke(i) PROVE Record!Next
    <2>1. i \in 1 .. runners /\ Record!Revoke(i)
      BY <1>4 DEF Record!Revoke, Revoke
    <2>2. QED BY <2>1
  <1>5. CASE Exit
    <2>1. Record!Stop
      BY <1>5 DEF Record!Stop, Exit
    <2>2. QED BY <2>1
  <1>6. CASE Restore
    <2>1. Record!Start
      BY <1>6 DEF Record!Start, Restore, Numbered
    <2>2. QED BY <2>1
  <1>7. ASSUME NEW r \in Rpc, RetryOnAuth(r) \/ RegisterFails(r) \/ SaveFails(r) \/ Advance(r)
                              \/ NoteRegisterFailure(r) \/ FirstRegister(r)
        PROVE  FALSE
    BY <1>7 DEF RetryOnAuth, Issue, Send, Returns, Rejected, Deduplicate, BackOff, Lock,
                RegisterFails, SaveFails, Advance, NoteRegisterFailure, FirstRegister
  <1>8. QED
    BY <1>1, <1>2, <1>3, <1>4, <1>5, <1>6, <1>7
       DEF NorthNext, Register, BackoffElapses, northVars

\* Through concurrent and late rejections, lost answers, failing saves, crashes
\* and restarts, a runner is only created in place of an identity that is lost
\* or not on record, and the record never returns to an older runner.
THEOREM IdentityRecorded == NorthSpec => IdentitySpec
  <1>1. NorthInit => Numbered /\ Record!Init
    BY DEF NorthInit, Numbered, Record!Init, Changing, Idle
  <1>2. QED
    BY <1>1, NorthInvariant, NumberedNext, RecordNext, PTL
       DEF NorthSpec, IdentitySpec, Record!Spec

\* What follows from that promise: whatever restarts, retries and late answers there
\* were, no Save ever puts an older runner back into the state file.
THEOREM RecordAdvances == NorthSpec => [][saved' >= saved]_saved
  <1>1. NorthTypeOK /\ [Record!Next]_(Record!identityVars) => [saved' >= saved]_saved
    BY NorthAssumption
       DEF NorthTypeOK, Record!identityVars, Record!Next, Record!Create, Record!Adopt,
           Record!Keep, Record!Start, Record!Stop, Record!Revoke
  <1>2. QED
    BY <1>1, NorthTyped, IdentityRecorded, PTL DEF IdentitySpec, Record!Spec

-----------------------------------------------------------------------------
(* Register holds the lock no longer than it is at work *)

\* regMu is held by nobody but a call that registers: no return of retryOnAuth or
\* of Register, early ones and crashes included, leaves it locked behind.
RegMuAtWork == regMu # Free => regMu \in Rpc /\ call[regMu].pc \in Registering

\* The holder's next step is Register's, so that a waiting call's turn comes.
THEOREM RegMuIsReturned == NorthSpec => []RegMuAtWork
  <1> USE NorthAssumption DEF RegMuAtWork, Registering, At, Goto, Return, Idle,
                              forgejoVars, clientVars, backoffVars
  <1>1. NorthInit => RegMuAtWork
    BY DEF NorthInit
  <1>2. NorthInv /\ RegMuAtWork /\ [NorthNext]_northVars => RegMuAtWork'
    <2> SUFFICES ASSUME NorthTypeOK, Serial, RegMuAtWork, [NorthNext]_northVars
                 PROVE  RegMuAtWork'
      BY DEF NorthInv
    <2>0. call \in [Rpc -> [pc : CallPC, gen : Nat, id : 0 .. runners]] /\ regMu \in Rpc \union {Free}
      BY DEF NorthTypeOK
    <2>1. ASSUME NEW r \in Rpc, RetryOnAuth(r) PROVE RegMuAtWork'
      BY <2>0, <2>1 DEF RetryOnAuth, Issue, Send, Returns, Rejected, Deduplicate, BackOff, Lock
    <2>2. ASSUME NEW r \in Rpc, Register(r) PROVE RegMuAtWork'
      BY <2>0, <2>2 DEF Register, Enroll, RegisterFails, SetIdentity, Save, SaveFails,
                        Advance, NoteRegisterFailure
    <2>3. ASSUME NEW r \in Rpc, FirstRegister(r) PROVE RegMuAtWork'
      BY <2>0, <2>3 DEF FirstRegister, Serial
    <2>4. CASE Exit \/ Restore \/ BackoffElapses \/ UNCHANGED northVars
      BY <2>4 DEF Exit, Restore, BackoffElapses, northVars
    <2>5. ASSUME NEW i \in 1 .. MaxRunners, Revoke(i) PROVE RegMuAtWork'
      BY <2>5 DEF Revoke
    <2>6. QED BY <2>1, <2>2, <2>3, <2>4, <2>5 DEF NorthNext
  <1>3. QED BY <1>1, <1>2, NorthInvariant, PTL DEF NorthSpec
=============================================================================
