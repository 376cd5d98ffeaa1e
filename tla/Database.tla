------------------------------ MODULE Database ------------------------------
(***************************************************************************)
(* The connection of the alert server to its database, db_mysql.c.  One    *)
(* MYSQL handle in the global g.db serves every thread: a query checks the *)
(* connection, connects again if it is lost and the last attempt was long  *)
(* enough ago, and sends what g.db.query points to.                        *)
(*                                                                         *)
(* The module has one action per step of db_mysql_connect and              *)
(* db_mysql_query for each thread u that may call them; AlertServer says   *)
(* when they do.  Every query of the program is DB_MYSQL_QTYPE_OTHER, and  *)
(* DB_MYSQL_PRE_QUERY_CHECK is never set.                                  *)
(*                                                                         *)
(* A definition named Slip_X is X with a plausible mistake in it; nothing  *)
(* uses it.  Replacing X by it shows that a property notices the mistake.  *)
(***************************************************************************)
EXTENDS Integers

CONSTANTS
    Users,      \* the threads
    Nobody,     \* no thread
    Delay       \* mysql_connect_delay

ASSUME DatabaseAssumption == Delay \in Nat \ {0} /\ Nobody \notin Users

VARIABLES
    connected,  \* DB_MYSQL_CONNECTED
    link,       \* the connection really exists
    tried,      \* time since db->try_t, up to Delay
    noted,      \* time since the try_t of each thread in db_mysql_connect, likewise
    since,      \* history: time since mysql_real_connect was last called, likewise
    late,       \* history: how old the time noted for that call then was
    query,      \* the thread whose text g.db.query points to
    dpc         \* where each thread is in these functions

timeVars == <<tried, noted, since, late>>
dbVars == <<connected, link, timeVars, query, dpc>>

DatabaseTypeOK ==
    /\ connected \in BOOLEAN /\ link \in BOOLEAN
    /\ tried \in 0..Delay /\ noted \in [Users -> 0..Delay]
    /\ since \in 0..Delay /\ late \in 0..Delay
    /\ query \in Users \cup {Nobody}
    /\ dpc \in [Users -> {"out", "ping", "flood", "options", "open", "send", "back"}]

\* init_db clears everything: the last attempt is long ago.
DatabaseInit ==
    /\ connected = FALSE /\ link = FALSE
    /\ tried = Delay /\ noted = [u \in Users |-> 0]
    /\ since = Delay /\ late = 0
    /\ query = Nobody
    /\ dpc = [u \in Users |-> "out"]

DbGoto(u, at, next) == dpc[u] = at /\ dpc' = [dpc EXCEPT ![u] = next]

\* The caller sets g.db.query and calls db_mysql_query.
Enter(u) ==
    /\ DbGoto(u, "out", "ping")
    /\ query' = u
    /\ UNCHANGED <<connected, link, timeVars>>

\* mysql_ping tells whether the connection is still there.
PingSucceeds(u) ==
    /\ connected /\ link
    /\ DbGoto(u, "ping", "send")
    /\ UNCHANGED <<connected, link, timeVars, query>>

PingFails(u) ==
    /\ ~(connected /\ link)
    /\ DbGoto(u, "ping", "flood")
    /\ connected' = FALSE
    /\ UNCHANGED <<link, timeVars, query>>

\* Too soon to connect again: the query is dropped.
TooSoon(u) ==
    /\ tried < Delay
    /\ DbGoto(u, "flood", "back")
    /\ UNCHANGED <<connected, link, timeVars, query>>

\* It is long enough ago: the time is kept in try_t, and the options are set.
CheckPasses(u) ==
    /\ tried = Delay
    /\ DbGoto(u, "flood", "options")
    /\ noted' = [noted EXCEPT ![u] = 0]
    /\ UNCHANGED <<connected, link, tried, since, late, query>>

\* mysql_options fails: the time is not noted.
NoOptions(u) ==
    /\ DbGoto(u, "options", "back")
    /\ noted' = [noted EXCEPT ![u] = 0]
    /\ UNCHANGED <<connected, link, tried, since, late, query>>

\* The time is not noted.
Slip_Attempt(u) ==
    /\ DbGoto(u, "options", "open")
    /\ noted' = [noted EXCEPT ![u] = 0]
    /\ since' = 0 /\ late' = noted[u]
    /\ UNCHANGED <<connected, link, tried, query>>

\* The time kept is noted in db->try_t, and mysql_real_connect starts.
Attempt(u) ==
    /\ DbGoto(u, "options", "open")
    /\ tried' = noted[u] /\ noted' = [noted EXCEPT ![u] = 0]
    /\ since' = 0 /\ late' = noted[u]
    /\ UNCHANGED <<connected, link, query>>

ConnectSucceeds(u) ==
    /\ DbGoto(u, "open", "send")
    /\ connected' = TRUE /\ link' = TRUE
    /\ UNCHANGED <<timeVars, query>>

ConnectFails(u) ==
    /\ DbGoto(u, "open", "back")
    /\ UNCHANGED <<connected, link, timeVars, query>>

\* mysql_query, which may fail.
SendQuery(u) ==
    /\ DbGoto(u, "send", "back")
    /\ UNCHANGED <<connected, link, timeVars, query>>

Leave(u) ==
    /\ DbGoto(u, "back", "out")
    /\ UNCHANGED <<connected, link, timeVars, query>>

ConnectionRuns(u) ==
    \/ PingSucceeds(u) \/ PingFails(u)
    \/ TooSoon(u) \/ CheckPasses(u) \/ NoOptions(u) \/ Attempt(u)
    \/ ConnectSucceeds(u) \/ ConnectFails(u)

\* The connection is lost.
LinkLost ==
    /\ link /\ link' = FALSE
    /\ UNCHANGED <<connected, timeVars, query, dpc>>

\* A second passes, for every time that is still counted.
Older(t) == IF t < Delay THEN t + 1 ELSE t

DbTick ==
    /\ tried' = Older(tried) /\ since' = Older(since)
    /\ noted' = [u \in Users |-> IF dpc[u] = "options" THEN Older(noted[u]) ELSE 0]
    /\ UNCHANGED <<connected, link, late, query, dpc>>

-----------------------------------------------------------------------------

\* One thread at a time uses the handle, and what it sends is the text it set
\* itself: g.db.query points to a buffer on the stack of one thread.
HandleIsExclusive ==
    \A u \in Users : dpc[u] # "out" =>
        /\ query = u
        /\ \A v \in Users \ {u} : dpc[v] = "out"

\* "flood protection": the calls of mysql_real_connect by all threads together
\* are mysql_connect_delay apart, also when they fail, but for the time that
\* the call before spent on its options (its time is taken before them).
ConnectsSpaced ==
    [][\A u \in Users :
         dpc[u] # "open" /\ dpc'[u] = "open" => since + late >= Delay]_dbVars
=============================================================================
