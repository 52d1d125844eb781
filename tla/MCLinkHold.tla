---------------------------- MODULE MCLinkHold ----------------------------
(* Two processes: one pairs, asks and closes, the other asks.             *)
EXTENDS LinkHold, TLC
CONSTANTS Here, There, Pair, Use, Close, Other
McProcOf == (Pair :> Here) @@ (Use :> Here) @@ (Close :> Here) @@ (Other :> There)
McKindOf == (Pair :> "pair") @@ (Use :> "use") @@ (Close :> "close")
            @@ (Other :> "use")
=============================================================================
