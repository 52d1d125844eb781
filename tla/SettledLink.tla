----------------------------- MODULE SettledLink -----------------------------
(***************************************************************************)
(* What the turn, its notes and WALLET_SETTLE promise together: a link     *)
(* carries one channel at a time, and a new one is opened only once the    *)
(* wallet has had WALLET_SETTLE to notice that the last one closed.        *)
(* Converse is shown to implement this.                                    *)
(***************************************************************************)
EXTENDS Integers

CONSTANTS Conv, WALLET_SETTLE

VARIABLES
    now,      \* the clock
    open,     \* the conversations with a channel open
    closedAt  \* when a channel of the link last closed

vars == <<now, open, closedAt>>

Init == now = 0 /\ open = {} /\ closedAt = -WALLET_SETTLE

Open(c) ==
    /\ open = {} /\ now >= closedAt + WALLET_SETTLE
    /\ open' = {c}
    /\ UNCHANGED <<now, closedAt>>

Close(c) ==
    /\ c \in open
    /\ open' = open \ {c}
    /\ closedAt' = now
    /\ UNCHANGED now

Tick == now' = now + 1 /\ UNCHANGED <<open, closedAt>>

Next == (\E c \in Conv : Open(c) \/ Close(c)) \/ Tick

Spec == Init /\ [][Next]_vars
=============================================================================
