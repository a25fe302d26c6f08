---------------------------- MODULE NorthClient ----------------------------
(***************************************************************************)
(* The runner identity of one Forgejo instance (internal/north/client.go): *)
(* concurrent RPCs under retryOnAuth, re-registration with its generation  *)
(* and backoff, the identity kept in the state file, and restarts.         *)
(*                                                                         *)
(* Forgejo numbers its runners 1, 2, ...; an identity is such a number, 0  *)
(* is none.  What the RPCs carry is left out.                              *)
(***************************************************************************)
EXTENDS Naturals

CONSTANTS Rpc,              \* RPCs that may be in flight at the same time
          Free,             \* regMu is not held
          MaxRunners,       \* a bound on the runners Forgejo ever creates
          MaySaveFail,      \* the state file may be unwritable
          MayLoseAnswer,    \* the answer to Register may be lost
          MayCrash          \* the daemon may crash, or be restarted

ASSUME NorthAssumption == /\ Free \notin Rpc
                          /\ MaxRunners \in Nat
                          /\ {MaySaveFail, MayLoseAnswer, MayCrash} \subseteq BOOLEAN

VARIABLES runners,      \* Forgejo: runners created so far
          revoked,      \* Forgejo: runners whose token it rejects
          saved,        \* the identity in the state file
          life,         \* "down", "starting" (the first Register) or "up"
          identity,     \* client.runnerUUID and client.runnerToken
          generation,   \* client.generation
          regMu,        \* who holds client.regMu
          backoffWait,  \* client.backoffWait, in seconds
          quiet,        \* client.backoffNext is in the future
          call          \* the RPCs: where they are, generation, identity

northVars == <<runners, revoked, saved, life, identity, generation,
               regMu, backoffWait, quiet, call>>

registerBackoffBase == 30
registerBackoffMax == 300

CallPC == {"idle", "loaded", "sent", "rejected", "register", "answered", "save", "advance", "failed"}

\* Register is under way in this call.
Registering == {"register", "answered", "save", "advance", "failed"}

Idle == [pc |-> "idle", gen |-> 0, id |-> 0]

NorthTypeOK == /\ runners \in 0 .. MaxRunners
               /\ revoked \subseteq 1 .. runners
               /\ saved \in 0 .. runners
               /\ life \in {"down", "starting", "up"}
               /\ identity \in 0 .. runners
               /\ generation \in Nat
               /\ regMu \in Rpc \union {Free}
               /\ backoffWait \in 0 .. registerBackoffMax
               /\ quiet \in BOOLEAN
               /\ call \in [Rpc -> [pc : CallPC, gen : Nat, id : 0 .. runners]]

NorthInit == /\ runners = 0
             /\ revoked = {}
             /\ saved = 0
             /\ life = "down"
             /\ identity = 0
             /\ generation = 0
             /\ regMu = Free
             /\ backoffWait = 0
             /\ quiet = FALSE
             /\ call = [r \in Rpc |-> Idle]

forgejoVars == <<runners, revoked>>
clientVars == <<saved, life, identity, generation>>
backoffVars == <<backoffWait, quiet>>

At(r, pc) == call[r].pc = pc
Goto(r, pc) == call' = [call EXCEPT ![r].pc = pc]
Return(r) == call' = [call EXCEPT ![r] = Idle]

-----------------------------------------------------------------------------
(* An RPC and its rejection *)

\* retryOnAuth records the generation ...
Issue(r) == /\ life = "up"
            /\ At(r, "idle")
            /\ call' = [call EXCEPT ![r] = [pc |-> "loaded", gen |-> generation, id |-> 0]]
            /\ UNCHANGED <<forgejoVars, clientVars, regMu, backoffVars>>

\* ... before the interceptor reads the identity for the headers.
Send(r) == /\ At(r, "loaded")
           /\ call' = [call EXCEPT ![r].pc = "sent", ![r].id = identity]
           /\ UNCHANGED <<forgejoVars, clientVars, regMu, backoffVars>>

\* Success, or an error that is no authentication error.
Returns(r) == /\ At(r, "sent")
              /\ Return(r)
              /\ UNCHANGED <<forgejoVars, clientVars, regMu, backoffVars>>

\* Forgejo answers Unauthenticated or PermissionDenied.
Rejected(r) == /\ At(r, "sent")
               /\ call[r].id \in revoked
               /\ Goto(r, "rejected")
               /\ UNCHANGED <<forgejoVars, clientVars, regMu, backoffVars>>

\* Under regMu: somebody else has registered meanwhile, so only fn is retried.
Deduplicate(r) == /\ At(r, "rejected")
                  /\ regMu = Free
                  /\ generation # call[r].gen
                  /\ Return(r)
                  /\ UNCHANGED <<forgejoVars, clientVars, regMu, backoffVars>>

\* Mutation of BackOff: the early return does not unlock regMu.
BackOffLocked(r) ==
    /\ At(r, "rejected")
    /\ regMu = Free
    /\ generation = call[r].gen
    /\ quiet
    /\ regMu' = r
    /\ Return(r)
    /\ UNCHANGED <<forgejoVars, clientVars, backoffVars>>

\* Under regMu: backing off, the rejection is returned.
BackOff(r) == /\ At(r, "rejected")
              /\ regMu = Free
              /\ generation = call[r].gen
              /\ quiet
              /\ Return(r)
              /\ UNCHANGED <<forgejoVars, clientVars, regMu, backoffVars>>

\* Mutation of Lock: the generation is not looked at again under regMu.
LockUnchecked(r) ==
    /\ At(r, "rejected")
    /\ regMu = Free
    /\ ~quiet
    /\ regMu' = r
    /\ Goto(r, "register")
    /\ UNCHANGED <<forgejoVars, clientVars, backoffVars>>

\* Neither: this call keeps regMu and registers.
Lock(r) == /\ At(r, "rejected")
           /\ regMu = Free
           /\ generation = call[r].gen
           /\ ~quiet
           /\ regMu' = r
           /\ Goto(r, "register")
           /\ UNCHANGED <<forgejoVars, clientVars, backoffVars>>

-----------------------------------------------------------------------------
(* Register *)

\* Forgejo creates a runner and answers with its identity.
Enroll(r) == /\ At(r, "register")
             /\ runners < MaxRunners
             /\ runners' = runners + 1
             /\ call' = [call EXCEPT ![r].pc = "answered", ![r].id = runners + 1]
             /\ UNCHANGED <<revoked, clientVars, regMu, backoffVars>>

\* Forgejo refuses or is out of reach, or its answer gets lost.
RegisterFails(r) == /\ \/ At(r, "register")
                       \/ MayLoseAnswer /\ At(r, "answered")
                    /\ Goto(r, "failed")
                    /\ UNCHANGED <<forgejoVars, clientVars, regMu, backoffVars>>

\* The identity is in use from here on ...
SetIdentity(r) == /\ At(r, "answered")
                  /\ identity' = call[r].id
                  /\ Goto(r, "save")
                  /\ UNCHANGED <<forgejoVars, saved, life, generation, regMu, backoffVars>>

\* Mutation of Save: the new identity is not written.
SaveNothing(r) == /\ At(r, "save")
                  /\ Goto(r, "advance")
                  /\ UNCHANGED <<forgejoVars, clientVars, regMu, backoffVars>>

\* ... identities.Save makes it permanent ...
Save(r) == /\ At(r, "save")
           /\ saved' = call[r].id
           /\ Goto(r, "advance")
           /\ UNCHANGED <<forgejoVars, life, identity, generation, regMu, backoffVars>>

\* ... or fails, and Register with it; the identity stays in use.
SaveFails(r) == /\ MaySaveFail
                /\ At(r, "save")
                /\ Goto(r, "failed")
                /\ UNCHANGED <<forgejoVars, clientVars, regMu, backoffVars>>

\* A new generation begins; the backoff is reset, regMu unlocked, fn retried.
Advance(r) == /\ At(r, "advance")
              /\ generation' = generation + 1
              /\ life' = "up"
              /\ backoffWait' = 0
              /\ quiet' = FALSE
              /\ regMu' = Free
              /\ Return(r)
              /\ UNCHANGED <<forgejoVars, saved, identity>>

\* Mutation of NextWait: the ramp has no end.
NextWaitUncapped(w) == IF w = 0 THEN registerBackoffBase ELSE 2 * w

\* The ramp of noteRegisterFailure.
NextWait(w) == CASE w = 0                      -> registerBackoffBase
                 [] 2 * w > registerBackoffMax -> registerBackoffMax
                 [] OTHER                      -> 2 * w

\* noteRegisterFailure, with the maximum at once for an invalid registration
\* token; regMu is unlocked and the original rejection returned.
NoteRegisterFailure(r) ==
    /\ life = "up"
    /\ At(r, "failed")
    /\ backoffWait' \in {NextWait(backoffWait), registerBackoffMax}
    /\ quiet' = TRUE
    /\ regMu' = Free
    /\ Return(r)
    /\ UNCHANGED <<forgejoVars, clientVars>>

-----------------------------------------------------------------------------
(* The world, crashes and restarts *)

BackoffElapses == /\ quiet
                  /\ quiet' = FALSE
                  /\ UNCHANGED <<forgejoVars, clientVars, regMu, backoffWait, call>>

\* A runner is deleted in Forgejo, or its token rotated.
Revoke(i) == /\ i \in (1 .. runners) \ revoked
             /\ revoked' = revoked \union {i}
             /\ UNCHANGED <<runners, clientVars, regMu, backoffVars, call>>

\* The process ends: a crash, or Run returns the error of the first Register.
Exit == /\ \/ MayCrash /\ life # "down"
           \/ life = "starting" /\ \E r \in Rpc : At(r, "failed")
        /\ life' = "down"
        /\ identity' = 0
        /\ generation' = 0
        /\ regMu' = Free
        /\ backoffWait' = 0
        /\ quiet' = FALSE
        /\ call' = [r \in Rpc |-> Idle]
        /\ UNCHANGED <<forgejoVars, saved>>

\* New restores the persisted identity; it counts as generation 1.
Restore == /\ life = "down"
           /\ saved # 0
           /\ life' = "up"
           /\ identity' = saved
           /\ generation' = 1
           /\ UNCHANGED <<forgejoVars, saved, regMu, backoffVars, call>>

\* Mutation of FirstRegister: a restored identity is not looked for.
FirstRegisterAlways(r) ==
    /\ life = "down"
    /\ life' = "starting"
    /\ Goto(r, "register")
    /\ UNCHANGED <<forgejoVars, saved, identity, generation, regMu, backoffVars>>

\* registerInstance without an identity: Register, before any other RPC.
FirstRegister(r) == /\ life = "down"
                    /\ saved = 0
                    /\ life' = "starting"
                    /\ Goto(r, "register")
                    /\ UNCHANGED <<forgejoVars, saved, identity, generation, regMu, backoffVars>>

-----------------------------------------------------------------------------

RetryOnAuth(r) == \/ Issue(r) \/ Send(r) \/ Returns(r) \/ Rejected(r)
                  \/ Deduplicate(r) \/ BackOff(r) \/ Lock(r)

Register(r) == \/ Enroll(r) \/ RegisterFails(r) \/ SetIdentity(r)
               \/ Save(r) \/ SaveFails(r) \/ Advance(r) \/ NoteRegisterFailure(r)

NorthNext == \/ \E r \in Rpc : RetryOnAuth(r) \/ Register(r) \/ FirstRegister(r)
             \/ \E i \in 1 .. MaxRunners : Revoke(i)
             \/ BackoffElapses
             \/ Exit
             \/ Restore

NorthSpec == NorthInit /\ [][NorthNext]_northVars

\* Goroutines run, timers fire and every RPC comes back; the pollers keep
\* calling; of Forgejo it is assumed that rejections and Register get through
\* again and again.
NorthFairness ==
    /\ \A r \in Rpc : /\ WF_northVars(Issue(r)) /\ WF_northVars(Send(r))
                      /\ WF_northVars(Deduplicate(r) \/ BackOff(r) \/ Lock(r))
                      /\ WF_northVars(Register(r))
                      /\ SF_northVars(Rejected(r))
                      /\ SF_northVars(Enroll(r))
                      /\ SF_northVars(SetIdentity(r))
    /\ WF_northVars(BackoffElapses)

NorthFairSpec == NorthSpec /\ NorthFairness

-----------------------------------------------------------------------------
(* Properties *)

\* Whenever no registration is under way, the identity in use is the one a
\* restart would find in the state file, so that no restart leaves an orphan
\* runner behind (client.go: "a restart reuses the same runner"); if it could not
\* be saved, the failure is still on record in backoffWait.
SavedIsCurrent ==
    life = "up" /\ regMu = Free => saved = identity \/ (MaySaveFail /\ backoffWait # 0)

\* retryOnAuth sends a Register only when Forgejo rejects the identity that is
\* in use now, however late the rejection that led to it arrived: concurrent
\* rejections of one identity register once (client.go: "At most one new runner
\* row is created per identity loss").
RegistersOnlyWhenLost == [][\A r \in Rpc : Lock(r) => identity \in revoked]_northVars

\* What is left of that promise when the state file may be unwritable: Register
\* is also sent while the identity in use could not be saved.
RegistersOnlyWhenNeeded ==
    [][\A r \in Rpc : Lock(r) => identity \in revoked \/ (MaySaveFail /\ identity # saved)]_northVars

Record == INSTANCE ClientIdentity WITH made <- runners, bad  <- revoked,
                                       used <- identity, kept <- saved

\* retryOnAuth, Register and the restarts together keep the identity as
\* ClientIdentity promises, however late the rejections and answers arrive.
IdentitySpec == Record!Spec

\* A lost identity is replaced, through whatever failures and backoffs, unless
\* the daemon ends (or the bound on runners is reached).
IdentityRecovered ==
    \A i \in 1 .. MaxRunners :
        (life = "up" /\ identity = i /\ i \in revoked)
            ~> (identity # i \/ life # "up" \/ runners = MaxRunners)
=============================================================================
