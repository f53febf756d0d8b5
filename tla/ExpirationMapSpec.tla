-------------------------- MODULE ExpirationMapSpec --------------------------
(***************************************************************************)
(* What an ExpirationMap promises its users (WorkspaceManager): a map from *)
(* keys to deadlines. A key is put with a deadline now + d, renewed to a   *)
(* new deadline, removed, and popped once its deadline is not in the       *)
(* future; popping takes every such key at once and no other key.         *)
(***************************************************************************)
EXTENDS Naturals

CONSTANTS Keys, Durations, MaxTime, None

VARIABLES
  now,       \* the clock
  deadline,  \* key -> deadline, or None when absent
  expired    \* the keys last handed to the expiration callback

absVars == <<now, deadline, expired>>

Present(k) == deadline[k] # None

AbsInit == /\ now = 0
           /\ deadline = [k \in Keys |-> None]
           /\ expired = {}

AbsPut(k, d) == /\ ~Present(k)
                /\ deadline' = [deadline EXCEPT ![k] = now + d]
                /\ UNCHANGED <<now, expired>>

AbsRenew(k, d) == /\ Present(k)
                  /\ deadline' = [deadline EXCEPT ![k] = now + d]
                  /\ UNCHANGED <<now, expired>>

AbsRemove(k) == /\ deadline' = [deadline EXCEPT ![k] = None]
                /\ UNCHANGED <<now, expired>>

Due == {k \in Keys : Present(k) /\ deadline[k] <= now}

AbsPopDue == /\ deadline' = [k \in Keys |-> IF k \in Due THEN None
                                                     ELSE deadline[k]]
             /\ expired' = Due
             /\ UNCHANGED now

AbsTick == /\ now < MaxTime
           /\ now' = now + 1
           /\ UNCHANGED <<deadline, expired>>

AbsNext == \/ \E k \in Keys, d \in Durations : AbsPut(k, d) \/ AbsRenew(k, d)
           \/ \E k \in Keys : AbsRemove(k)
           \/ AbsPopDue
           \/ AbsTick

AbsSpec == AbsInit /\ [][AbsNext]_absVars

=============================================================================
