--------------------------- MODULE ClientIdentity ---------------------------
(***************************************************************************)
(* What the northbound client promises of its runner identity: Forgejo is  *)
(* asked for a new runner only where the client has none, or where the one *)
(* in use was revoked or is not the one on record; the record only moves   *)
(* on to newer runners, and a restart comes back with what it says.        *)
(***************************************************************************)
EXTENDS Naturals

VARIABLES made,     \* runners Forgejo has created for this client, numbered 1, 2, ...
          bad,      \* those whose token it rejects
          used,     \* the identity in use; 0 is none
          kept      \* the identity on record

identityVars == <<made, bad, used, kept>>

Init == /\ made = 0
        /\ bad = {}
        /\ used = 0
        /\ kept = 0

\* A new runner takes the place of the one in use, unless the answer is lost.
Create == /\ IF used = 0 THEN kept = 0 ELSE used \in bad \/ used # kept
          /\ made' = made + 1
          /\ used' \in {used, made + 1}
          /\ UNCHANGED <<bad, kept>>

\* The same, where the answer comes in later: nothing else was created meanwhile.
Adopt == /\ used < made
         /\ used' = made
         /\ UNCHANGED <<made, bad, kept>>

Keep == /\ kept < used
        /\ kept' = used
        /\ UNCHANGED <<made, bad, used>>

\* The client comes and goes.
Start == /\ used = 0
         /\ kept # 0
         /\ used' = kept
         /\ UNCHANGED <<made, bad, kept>>

Stop == /\ used' = 0
        /\ UNCHANGED <<made, bad, kept>>

Revoke(n) == /\ n \in 1 .. made
             /\ bad' = bad \union {n}
             /\ UNCHANGED <<made, used, kept>>

Next == \/ Create
        \/ Adopt
        \/ Keep
        \/ Start
        \/ Stop
        \/ \E n \in 1 .. made : Revoke(n)

Spec == Init /\ [][Next]_identityVars
=============================================================================
