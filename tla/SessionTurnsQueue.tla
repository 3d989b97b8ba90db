-------------------------- MODULE SessionTurnsQueue --------------------------
(***************************************************************************)
(* The turn life cycle implements the promise TurnQueue states.            *)
(***************************************************************************)
EXTENDS SessionTurns

\* The turn a client would see: the claimed batch, or the live task.
AbstractTurn ==
    IF batch # None THEN "running"
    ELSE IF \E t \in completed : Live(t) THEN "completed"
    ELSE IF \E t \in Inputs : Live(t) THEN "running"
    ELSE "none"

\* A begin_turn that will ship what it has just accepted.
AbstractFresh ==
    /\ ~stopping /\ ~Busy
    /\ \E s \in sawIdle : sub[s] = "enqueued"

TQ == INSTANCE TurnQueue
          WITH turn <- AbstractTurn, fresh <- AbstractFresh, gone <- ~exists

(* Every step of the server is a step of the message queue's contract: whole *)
(* inboxes, each message once and in order of acceptance, one turn at a      *)
(* time, hand-over after completion only, and no resumption of a retained    *)
(* inbox except by a message accepted in an idle session.                    *)
QueueContract == TQ!Spec

=============================================================================
