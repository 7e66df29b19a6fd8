-------------------------- MODULE SessionLifecycle --------------------------
(***************************************************************************)
(* What the identity service promises of sessions, without requests,       *)
(* clocks or statements.  A session is opened once, for one user that      *)
(* exists; it ends alone (logout, rotation) or with all the live sessions  *)
(* of its user (reuse detection), never to reopen; and it disappears with  *)
(* its user, who never opens another one.                                  *)
(***************************************************************************)
CONSTANTS Users, Sessions, Nobody

VARIABLES
    state,    \* the state of each session
    owner,    \* the user of each session, Nobody before it is opened
    removed   \* the users deleted so far

lifecycle == <<state, owner, removed>>

LifecycleInit ==
    /\ state = [s \in Sessions |-> "unborn"]
    /\ owner = [s \in Sessions |-> Nobody]
    /\ removed = {}

Open(s, u) ==
    /\ state[s] = "unborn" /\ u \notin removed
    /\ state' = [state EXCEPT ![s] = "live"]
    /\ owner' = [owner EXCEPT ![s] = u]
    /\ UNCHANGED removed

Close(s) ==
    /\ state[s] = "live"
    /\ state' = [state EXCEPT ![s] = "revoked"]
    /\ UNCHANGED <<owner, removed>>

CloseAll(u) ==
    /\ state' = [s \in Sessions |->
          IF owner[s] = u /\ state[s] = "live" THEN "revoked" ELSE state[s]]
    /\ UNCHANGED <<owner, removed>>

Remove(u) ==
    /\ removed' = removed \cup {u}
    /\ state' = [s \in Sessions |->
          IF owner[s] = u THEN "gone" ELSE state[s]]
    /\ UNCHANGED owner

LifecycleNext ==
    \/ \E s \in Sessions, u \in Users : Open(s, u)
    \/ \E s \in Sessions : Close(s)
    \/ \E u \in Users : CloseAll(u) \/ Remove(u)

LifecycleSpec == LifecycleInit /\ [][LifecycleNext]_lifecycle

=============================================================================
