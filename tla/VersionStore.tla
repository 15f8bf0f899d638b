---------------------------- MODULE VersionStore ----------------------------
(***************************************************************************)
(* What atomsnap promises, without counters: slots hold a current version, *)
(* threads acquire the one that is current at one instant, a replaced      *)
(* version lives on for as long as somebody holds it, and it is reclaimed  *)
(* once, after its last holder is gone.                                    *)
(***************************************************************************)
EXTENDS Integers

CONSTANTS Threads, Versions, Slots, NULL

VARIABLES
  gate,      \* "none" or "open"
  current,   \* the version of each slot, or NULL
  held,      \* the version each thread has acquired, or NULL
  mine,      \* the version each thread has made and not published, or NULL
  dying,     \* versions being reclaimed
  pool       \* versions that are free

vars == <<gate, current, held, mine, dying, pool>>

Init ==
  /\ gate    = "none"
  /\ current = [c \in Slots |-> NULL]
  /\ held    = [t \in Threads |-> NULL]
  /\ mine    = [t \in Threads |-> NULL]
  /\ dying   = {}
  /\ pool    = Versions

\* v can no longer be acquired and nobody has it.
Garbage(v) ==
  /\ v \notin pool \cup dying
  /\ \A c \in Slots : current[c] # v
  /\ \A t \in Threads : held[t] # v /\ mine[t] # v

-----------------------------------------------------------------------------
Open ==
  /\ gate = "none"
  /\ gate' = "open"
  /\ UNCHANGED <<current, held, mine, dying, pool>>

Close ==
  /\ gate = "open" /\ pool = Versions
  /\ gate' = "none"
  /\ UNCHANGED <<current, held, mine, dying, pool>>

Make(t, v) ==
  /\ gate = "open" /\ mine[t] = NULL /\ v \in pool
  /\ mine' = [mine EXCEPT ![t] = v]
  /\ pool' = pool \ {v}
  /\ UNCHANGED <<gate, current, held, dying>>

\* exchange, and compare_exchange when it returns true.
Publish(t, c) ==
  /\ gate = "open"
  /\ current' = [current EXCEPT ![c] = mine[t]]
  /\ mine'    = [mine EXCEPT ![t] = NULL]
  /\ UNCHANGED <<gate, held, dying, pool>>

Acquire(t, c) ==
  /\ gate = "open" /\ held[t] = NULL
  /\ held' = [held EXCEPT ![t] = current[c]]
  /\ UNCHANGED <<gate, current, mine, dying, pool>>

Release(t) ==
  /\ gate = "open" /\ held[t] # NULL
  /\ held' = [held EXCEPT ![t] = NULL]
  /\ UNCHANGED <<gate, current, mine, dying, pool>>

\* free_version.
Discard(t) ==
  /\ gate = "open" /\ mine[t] # NULL
  /\ dying' = dying \cup {mine[t]}
  /\ mine'  = [mine EXCEPT ![t] = NULL]
  /\ UNCHANGED <<gate, current, held, pool>>

Reclaim(v) ==
  /\ gate = "open" /\ Garbage(v)
  /\ dying' = dying \cup {v}
  /\ UNCHANGED <<gate, current, held, mine, pool>>

Recycle(v) ==
  /\ gate = "open" /\ v \in dying
  /\ dying' = dying \ {v}
  /\ pool'  = pool \cup {v}
  /\ UNCHANGED <<gate, current, held, mine>>

Next ==
  \/ Open \/ Close
  \/ \E t \in Threads :
       \/ \E v \in Versions : Make(t, v)
       \/ \E c \in Slots : Publish(t, c) \/ Acquire(t, c)
       \/ Release(t) \/ Discard(t)
  \/ \E v \in Versions : Reclaim(v) \/ Recycle(v)

Spec == Init /\ [][Next]_vars

\* Garbage is reclaimed without anybody asking for it.
FairSpec ==
  Spec /\ \A v \in Versions : WF_vars(Reclaim(v)) /\ WF_vars(Recycle(v))
=============================================================================
