------------------------------ MODULE Permits ------------------------------
(***************************************************************************)
(* What MmapLimiter (db/Env_posix.cpp) is for: a fixed number of permits,  *)
(* each held by at most one client, of which a client that asks gets one   *)
(* exactly if one is left.  A client that is refused goes on without.      *)
(***************************************************************************)
EXTENDS Naturals

CONSTANTS
  Clients,
  Limit        (* how many permits there are                               *)

VARIABLES
  free,        (* the permits that are left                                *)
  phase        (* "out", "asking", "granted" or "refused", per client      *)

vars == <<free, phase>>

Init ==
  /\ free = Limit
  /\ phase = [c \in Clients |-> "out"]

Ask(c) ==
  /\ phase[c] = "out"
  /\ phase' = [phase EXCEPT ![c] = "asking"]
  /\ UNCHANGED free

Grant(c) ==
  /\ phase[c] = "asking"
  /\ free > 0
  /\ free' = free - 1
  /\ phase' = [phase EXCEPT ![c] = "granted"]

Refuse(c) ==
  /\ phase[c] = "asking"
  /\ free = 0
  /\ phase' = [phase EXCEPT ![c] = "refused"]
  /\ UNCHANGED free

GiveBack(c) ==
  /\ phase[c] = "granted"
  /\ free' = free + 1
  /\ phase' = [phase EXCEPT ![c] = "out"]

GoAway(c) ==
  /\ phase[c] = "refused"
  /\ phase' = [phase EXCEPT ![c] = "out"]
  /\ UNCHANGED free

Next == \E c \in Clients : Ask(c) \/ Grant(c) \/ Refuse(c) \/ GiveBack(c) \/ GoAway(c)

Spec == Init /\ [][Next]_vars
=============================================================================
