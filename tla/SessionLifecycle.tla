-------------------------- MODULE SessionLifecycle --------------------------
(***************************************************************************)
(* What a reader of vpn_sessions may rely on, whoever writes it: the       *)
(* session state model of the table (app/models.py), with no requests, no  *)
(* transactions and no units of work.  A commit opens, refreshes, closes   *)
(* or amends any number of rows at once and removes none.                  *)
(***************************************************************************)
EXTENDS SessionRows

VARIABLE sessions

Init == sessions = [s \in SessionId |-> None]

\* A session appears while it lasts, never as one that is over.
Opens(after) == after.state = "ACTIVE"

\* Observed again, or told more about, by an event or a snapshot.
Refreshes(before, after) ==
    before.state = "ACTIVE" /\ after.state = "ACTIVE" /\ Succeeds(before, after)

Closes(before, after) ==
    before.state = "ACTIVE" /\ after.state = "CLOSED" /\ Succeeds(before, after)

\* A snapshot that loaded the row before it was closed writes its own end or
\* attributes over it; an event finds only active rows.
Amends(before, after) ==
    before.state = "CLOSED" /\ Succeeds(before, after)

Moves(before, after) ==
    \/ after = before
    \/ /\ after # None
       /\ Coherent(after)
       /\ \/ before = None /\ Opens(after)
          \/ /\ before # None
             /\ \/ Refreshes(before, after)
                \/ Closes(before, after)
                \/ Amends(before, after)

Commit ==
    /\ sessions' \in [SessionId -> Opt(Row)]
    /\ \A s \in SessionId : Moves(sessions[s], sessions'[s])

Spec == Init /\ [][Commit]_sessions
=============================================================================
