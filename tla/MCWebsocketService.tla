------------------------- MODULE MCWebsocketService -------------------------
(* Instances of WebsocketService for TLC.                                   *)
EXTENDS WebsocketService, TLC

CONSTANTS t1, t2

OneTable == {<<t1>>}
AnyOfTwo == {<<>>, <<t1>>, <<t1, t2>>}

\* No action reads the history variables to decide what to do.
WithoutHistory == <<conn, owner, token, socketUserMap, rooms, attempts, handlers,
                    redis>>

Symmetry == Permutations(Sockets)

=============================================================================
