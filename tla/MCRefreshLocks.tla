---------------------------- MODULE MCRefreshLocks ----------------------------
(* Two users and two posts; every pair of statements in two transactions.    *)
(* Beside them the statistics sessions share: a behaviour is either one of   *)
(* RefreshLocks, or one of StatsTable, the TVIEWs of two databases in fewer  *)
(* slots than there are TVIEWs, wherever their probes start.                 *)
EXTENDS RefreshLocks, TLC

CONSTANTS a, b, Key, Elsewhere, Capacity, MaxAdds, FREE
VARIABLES which, slots, overflowed, home

Database(k) == k \in Elsewhere
statsVars == <<slots, overflowed, home>>
Stats == INSTANCE StatsTable

St(op, on, to) == [op |-> op, on |-> on, to |-> to]

Rename(u) == St("rename", u, {})
\* Post 11 is there, by users 1 and 2; user 2 or post 12 may not be.
MCStarts ==
    {[users |-> (1 :> Old @@ 2 :> u[1]), posts |-> (11 :> {1, 2} @@ 12 :> u[2])] :
        u \in {<<Old, Absent>>, <<Old, {1}>>, <<Old, {1, 2}>>, <<Absent, {1}>>}}

Users == {Rename(1), Rename(2), St("adduser", 2, {})}

Posts == {St("insert", 12, {2}), St("repoint", 11, {2}), St("repoint", 12, {2}),
          St("delete", 11, {}), St("comment", 12, {})}

Configure == St("configure", Conf, {})

\* A pair of writes of users, of posts, or of either and the setting.
MCScripts ==
    {(a :> <<x>> @@ b :> <<y>>) : x \in Users \cup Posts, y \in Users \cup {Configure}}
    \cup {(a :> <<x>> @@ b :> <<y>>) : x \in Posts, y \in Posts}
    \cup {(a :> <<St("insert", 12, {1}), Rename(2)>> @@ b :> <<y>>) :
             y \in {Rename(1), Rename(2), St("repoint", 11, {1})}}

MCLevels == {(a :> x @@ b :> y) : x \in {"RC", "RR"}, y \in {"RC"}} \cup {(a :> "RC" @@ b :> "RR")}

MCInit ==
    /\ which \in {"locks", "stats"} /\ Stats!Init
    /\ IF which = "locks" THEN Init /\ home = [k \in Key |-> 0]
       ELSE /\ Init /\ way = "mapping"
            /\ store = Filled(CHOOSE start \in Starts : TRUE)
            /\ level = [s \in Session |-> "RC"] /\ script = (a :> <<Rename(1)>> @@ b :> <<Rename(1)>>)
MCNext ==
    \/ which = "locks" /\ Next /\ UNCHANGED <<which, statsVars>>
    \/ which = "stats" /\ Stats!StatsNext /\ UNCHANGED <<which, vars>>
MCSpec == MCInit /\ [][MCNext]_<<which, vars, statsVars>>

TrackedIsFound == Stats!TrackedIsFound
=============================================================================
