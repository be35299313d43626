---------------------------- MODULE ServerState ----------------------------
(***************************************************************************)
(* Http::Server::State: the two atomics shared by the acceptor, by every   *)
(* connection and by Server::Run.  One operator per member function.  Each *)
(* is a single atomic access, so callers conjoin them to their own steps.  *)
(***************************************************************************)
EXTENDS Integers

VARIABLES
    connection_count,   \* atomic_uint: Connection objects that exist
    stopped             \* atomic_bool: Stop() has been called

StateTypeOK ==
    /\ connection_count \in Nat
    /\ stopped \in BOOLEAN

StateInit ==
    /\ connection_count = 0
    /\ stopped = FALSE

AddConnectionForgotten == UNCHANGED connection_count

AddConnection == connection_count' = connection_count + 1

RemoveConnection == connection_count' = connection_count - 1

StopTestsOnly == ~stopped /\ UNCHANGED stopped

\* compare_exchange_strong(false, true): enabled only for the call that wins.
Stop ==
    /\ ~stopped
    /\ stopped' = TRUE

HasConnectionsForgotten == ~stopped

HasConnections == ~stopped \/ connection_count # 0

IsStopped == stopped
=============================================================================
