--------------------------- MODULE MCRequestRouting ---------------------------
(***************************************************************************)
(* RequestRouting on small instances: the controller k1 is logged in to    *)
(* the account u1, k2 to none (a session with the global token).           *)
(***************************************************************************)
EXTENDS RequestRouting, TLC

CONSTANTS u1, k1, k2, list, read1, read2, write, create, delete, kill, query

ConnSymmetry == Permutations(Conns)

MCAccountOf == [k \in Controllers |-> IF k = k1 THEN u1 ELSE NoUser]
MCFrom == [r \in Requests |-> IF r = read2 THEN k2 ELSE k1]
MCType ==
    [r \in Requests |->
        CASE r = list            -> "LIST"
          [] r \in {read1, read2} -> "READ"
          [] r = write           -> "WRITE"
          [] r = create          -> "CREATE"
          [] r = delete          -> "DELETE"
          [] r = kill            -> "KILL"
          [] r = query           -> "QUERY"]
=============================================================================
