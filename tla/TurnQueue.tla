------------------------------ MODULE TurnQueue ------------------------------
(***************************************************************************)
(* What the message queue of a session promises its clients, and nothing   *)
(* of how: accepted messages are delivered whole, once, in order, to one   *)
(* turn at a time, and only in the place of a turn that completed or on    *)
(* behalf of a message accepted while no turn was at work.  When a turn     *)
(* ends and none follows is left open.                                     *)
(***************************************************************************)
EXTENDS Naturals, Sequences

CONSTANT Inputs

VARIABLES
    inbox,     \* accepted and not yet delivered, oldest first
    shipped,   \* delivered, in order of delivery
    turn,      \* no turn, one at work, or one that completed
    fresh,     \* a message has just been accepted by an idle session
    gone       \* the session was deleted

vars == <<inbox, shipped, turn, fresh, gone>>

Known(m) == \E i \in 1..Len(shipped \o inbox) : (shipped \o inbox)[i] = m

Init ==
    /\ inbox = <<>> /\ shipped = <<>>
    /\ turn = "none" /\ fresh = FALSE /\ gone = FALSE

\* A session on hold (being stopped) takes a message without waking for it.
Accept(m) ==
    /\ ~gone /\ ~Known(m)
    /\ inbox' = Append(inbox, m)
    /\ fresh' \in {FALSE, turn = "none"}
    /\ UNCHANGED <<shipped, turn, gone>>

\* The whole inbox becomes one turn, on behalf of a fresh message or in the
\* place of a turn that completed.
Ship ==
    /\ ~gone /\ inbox # <<>>
    /\ \/ turn = "none" /\ fresh
       \/ turn = "completed"
    /\ shipped' = shipped \o inbox
    /\ inbox' = <<>>
    /\ turn' = "running" /\ fresh' = FALSE
    /\ UNCHANGED gone

Complete ==
    /\ turn = "running" /\ turn' = "completed"
    /\ UNCHANGED <<inbox, shipped, fresh, gone>>

\* The turn is over and none follows, whether it completed or not and whatever
\* the inbox holds: Stop, a failure or a restart may end any turn.
End ==
    /\ turn # "none" /\ turn' = "none"
    /\ UNCHANGED <<inbox, shipped, fresh, gone>>

\* A restart comes before the fresh message is shipped.
Forget ==
    /\ fresh /\ fresh' = FALSE
    /\ UNCHANGED <<inbox, shipped, turn, gone>>

Delete ==
    /\ ~gone /\ turn = "none"
    /\ gone' = TRUE /\ inbox' = <<>> /\ shipped' = <<>>
    /\ UNCHANGED <<turn, fresh>>

Next ==
    \/ \E m \in Inputs : Accept(m)
    \/ Ship \/ Complete \/ End \/ Forget \/ Delete

Spec == Init /\ [][Next]_vars

=============================================================================
