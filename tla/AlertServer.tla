---------------------------- MODULE AlertServer ----------------------------
(***************************************************************************)
(* The alert server, clients.c and the end of main in nvr.c: the main      *)
(* thread listens, connects to the database and accepts connections; one   *)
(* thread per connection serves an alert, adds it to the database and      *)
(* goes.  They share the list g.clients under clients_mutex and g.db under *)
(* mysql_mutex.                                                            *)
(*                                                                         *)
(* A thread is named by the memory its st_client is in, which is used      *)
(* again.  What it reads is in AlertClient, what it does in process_stream *)
(* in Recorder.                                                            *)
(*                                                                         *)
(* A definition named Slip_X is X with a plausible mistake in it; nothing  *)
(* uses it.  Replacing X by it shows that a property notices the mistake.  *)
(***************************************************************************)
EXTENDS Lists, Database

CONSTANTS
    Clients,    \* the memory a st_client may be allocated in
    Main,       \* the main thread
    Sockets,    \* descriptors, numbers
    UseDb,      \* not started with -n
    Limits,     \* max_clients or max_clients_per_ip is set
    MaxAccepts  \* bound: connections ever accepted

ASSUME AlertServerAssumption ==
    /\ Users = Clients \cup {Main} /\ Main \notin Clients
    /\ None \notin Clients \cup Sockets \cup {Main}
    /\ Sockets \subseteq Nat
    /\ UseDb \in BOOLEAN /\ Limits \in BOOLEAN
    /\ MaxAccepts \in Nat

VARIABLES
    list,       \* g.clients and the prev and next of every st_client
    live,       \* the st_client that are allocated
    sd,         \* the descriptor of each, or None
    owner,      \* who holds clients_mutex, or None
    dbOwner,    \* who holds mysql_mutex, or None
    open,       \* the open descriptors
    mpc, cur,   \* the main thread: where it is, and its client
    incoming,   \* and its cl_sd, or None
    listening,  \* g.alert_sd, or None
    cpc,        \* where each client thread is
    \* history
    lost,       \* descriptors nobody will close
    accepted    \* how many connections were accepted

clientVars == <<list, live, sd, cpc>>
mainVars   == <<mpc, cur, incoming, listening>>
fdVars     == <<open, lost, accepted>>
vars == <<clientVars, mainVars, fdVars, owner, dbOwner, dbVars>>

TypeOK ==
    /\ DatabaseTypeOK
    /\ list \in ListsOver(Clients) /\ live \subseteq Clients
    /\ sd \in [Clients -> Sockets \cup {None}]
    /\ owner \in Users \cup {None} /\ dbOwner \in Clients \cup {None}
    /\ open \subseteq Sockets /\ lost \subseteq Sockets
    /\ mpc \in {"start", "init", "names", "zone", "accept", "lock", "count",
                "alloc", "spawn", "unlock", "exit"}
    /\ cur \in Clients \cup {None}
    /\ incoming \in Sockets \cup {None} /\ listening \in Sockets \cup {None}
    /\ cpc \in [Clients -> {"none", "read", "alert", "dblock", "db", "bye",
                            "lock", "unlink", "free"}]
    /\ accepted \in 0..MaxAccepts

Init ==
    /\ DatabaseInit
    /\ list = EmptyList(Clients) /\ live = {}
    /\ sd = [c \in Clients |-> None]
    /\ owner = None /\ dbOwner = None
    /\ open = {} /\ lost = {}
    /\ mpc = "start" /\ cur = None /\ incoming = None /\ listening = None
    /\ cpc = [c \in Clients |-> "none"]
    /\ accepted = 0

-----------------------------------------------------------------------------
(* main, before it accepts.                                                *)

\* The system gives the lowest descriptor that is free, if one is.
NewSocket == {s \in Sockets \ open : \A t \in Sockets \ open : s <= t}

\* s_listen.
Listen ==
    /\ mpc = "start"
    /\ \E s \in NewSocket : open' = {s} /\ listening' = s
    /\ mpc' = IF UseDb THEN "init" ELSE "accept"
    /\ UNCHANGED <<clientVars, cur, incoming, lost, accepted, owner, dbOwner, dbVars>>

\* main goes on whatever s_listen returned.
Slip_ListenFails ==
    /\ mpc = "start" /\ listening' = -1
    /\ mpc' = IF UseDb THEN "init" ELSE "accept"
    /\ UNCHANGED <<clientVars, cur, incoming, fdVars, owner, dbOwner, dbVars>>

\* It fails, having closed its socket, and the program ends.
ListenFails ==
    /\ mpc = "start" /\ mpc' = "exit"
    /\ UNCHANGED <<clientVars, cur, incoming, listening, fdVars, owner, dbOwner, dbVars>>

StartingUp == mpc \in {"init", "names", "zone"}

\* init_db connects, and two settings of the session are sent as queries; the
\* main thread does not lock, as there are no others.
MainCalls ==
    /\ StartingUp /\ Enter(Main)
    /\ UNCHANGED <<clientVars, mainVars, fdVars, owner, dbOwner>>

MainConnects ==
    /\ ConnectionRuns(Main) \/ (mpc # "init" /\ SendQuery(Main))
    /\ UNCHANGED <<clientVars, mainVars, fdVars, owner, dbOwner>>

\* mysql_init finds no memory.
InitFails ==
    /\ mpc = "init" /\ dpc[Main] = "out" /\ mpc' = "exit"
    /\ UNCHANGED <<clientVars, cur, incoming, listening, fdVars, owner, dbOwner, dbVars>>

\* What they return is not looked at.  init_db sends nothing.
MainReturns ==
    /\ StartingUp
    /\ \/ Leave(Main)
       \/ /\ mpc = "init" /\ DbGoto(Main, "send", "out")
          /\ UNCHANGED <<connected, link, timeVars, query>>
    /\ mpc' = CASE mpc = "init" -> "names" [] mpc = "names" -> "zone" [] mpc = "zone" -> "accept"
    /\ UNCHANGED <<clientVars, cur, incoming, listening, fdVars, owner, dbOwner>>

-----------------------------------------------------------------------------
(* accept_clients.                                                         *)

\* A connection.  (If accept or inet_ntop fails, it starts over.)
Accept ==
    /\ mpc = "accept" /\ accepted < MaxAccepts
    /\ \E s \in NewSocket : open' = open \cup {s} /\ incoming' = s
    /\ accepted' = accepted + 1
    /\ mpc' = "lock"
    /\ UNCHANGED <<clientVars, cur, listening, lost, owner, dbOwner, dbVars>>

\* The clients are counted from the first on, if there is a limit.
LockClients ==
    /\ mpc = "lock" /\ owner = None /\ owner' = Main
    /\ mpc' = IF Limits THEN "count" ELSE "alloc"
    /\ cur' = IF Limits THEN list.head ELSE None
    /\ UNCHANGED <<clientVars, incoming, listening, fdVars, dbOwner, dbVars>>

Count ==
    /\ mpc = "count" /\ cur # None
    /\ cur' = list.next[cur]
    /\ UNCHANGED <<clientVars, mpc, incoming, listening, fdVars, owner, dbOwner, dbVars>>

\* At the end of the list or at a limit; a limit that is reached has no effect.
Counted ==
    /\ mpc = "count" /\ mpc' = "alloc" /\ cur' = None
    /\ UNCHANGED <<clientVars, incoming, listening, fdVars, owner, dbOwner, dbVars>>

\* Unlocked before the thread is made.
Slip_AddClient ==
    /\ mpc = "alloc" /\ mpc' = "spawn"
    /\ \E c \in Block(Clients \ live) :
         /\ live' = live \cup {c}
         /\ sd' = [sd EXCEPT ![c] = incoming]
         /\ list' = InsertFirst(list, c)
         /\ cur' = c
    /\ incoming' = None
    /\ owner' = None
    /\ UNCHANGED <<cpc, listening, fdVars, dbOwner, dbVars>>

\* A zeroed st_client with the connection is put first in the list.
AddClient ==
    /\ mpc = "alloc" /\ mpc' = "spawn"
    /\ \E c \in Block(Clients \ live) :
         /\ live' = live \cup {c}
         /\ sd' = [sd EXCEPT ![c] = incoming]
         /\ list' = InsertFirst(list, c)
         /\ cur' = c
    /\ incoming' = None
    /\ UNCHANGED <<cpc, listening, fdVars, owner, dbOwner, dbVars>>

\* Nobody closes the connection.
MallocFails ==
    /\ mpc = "alloc" /\ mpc' = "unlock"
    /\ lost' = lost \cup {incoming} /\ incoming' = None
    /\ UNCHANGED <<clientVars, cur, listening, open, accepted, owner, dbOwner, dbVars>>

\* pthread_create starts the thread and stores its number in the st_client.
Spawn ==
    /\ mpc = "spawn" /\ mpc' = "unlock"
    /\ cpc' = [cpc EXCEPT ![cur] = "read"]
    /\ UNCHANGED <<list, live, sd, cur, incoming, listening, fdVars, owner, dbOwner, dbVars>>

\* free: what the st_client held is not kept (NoUseAfterFree: nobody reads it).
Forget(l, c) ==
    /\ live' = live \ {c}
    /\ list' = Cleared(l, c)
    /\ sd' = [sd EXCEPT ![c] = None]

\* It fails: free_client, which does not close the connection.
SpawnFails ==
    /\ mpc = "spawn" /\ mpc' = "unlock"
    /\ Forget(Remove(list, cur), cur)
    /\ lost' = lost \cup {sd[cur]} /\ cur' = None
    /\ UNCHANGED <<cpc, incoming, listening, open, accepted, owner, dbOwner, dbVars>>

UnlockClients ==
    /\ mpc = "unlock" /\ mpc' = "accept"
    /\ owner' = None /\ cur' = None
    /\ UNCHANGED <<clientVars, incoming, listening, fdVars, dbOwner, dbVars>>

MainRuns ==
    \/ Listen \/ ListenFails \/ InitFails \/ MainCalls \/ MainConnects \/ MainReturns
    \/ LockClients \/ Count \/ Counted
    \/ AddClient \/ MallocFails \/ Spawn \/ SpawnFails \/ UnlockClients

-----------------------------------------------------------------------------
(* client_thread.                                                          *)

Moves(c, at, next) == cpc[c] = at /\ cpc' = [cpc EXCEPT ![c] = next]

\* The alert was read, and process_stream, if it was called, returned.
Serve(c) ==
    /\ Moves(c, "read", IF UseDb THEN "dblock" ELSE "bye")
    /\ UNCHANGED <<list, live, sd, mainVars, fdVars, owner, dbOwner, dbVars>>

ReadFails(c) ==
    /\ Moves(c, "read", "bye")
    /\ UNCHANGED <<list, live, sd, mainVars, fdVars, owner, dbOwner, dbVars>>

\* client_dbsync does not lock.
Slip_LockDb(c) ==
    /\ Moves(c, "dblock", "db")
    /\ dbOwner' = c
    /\ Enter(c)
    /\ UNCHANGED <<list, live, sd, mainVars, fdVars, owner>>

\* client_dbsync: lock, set the query, ...
LockDb(c) ==
    /\ Moves(c, "dblock", "db")
    /\ dbOwner = None /\ dbOwner' = c
    /\ Enter(c)
    /\ UNCHANGED <<list, live, sd, mainVars, fdVars, owner>>

\* ... db_mysql_query, ...
Query(c) ==
    /\ ConnectionRuns(c) \/ SendQuery(c)
    /\ UNCHANGED <<clientVars, mainVars, fdVars, owner, dbOwner>>

\* ... unlock.
UnlockDb(c) ==
    /\ Moves(c, "db", "bye")
    /\ Leave(c) /\ dbOwner' = None
    /\ UNCHANGED <<list, live, sd, mainVars, fdVars, owner>>

\* The descriptor stays in the st_client.
Slip_Close(c) ==
    /\ Moves(c, "bye", "lock")
    /\ open' = open \ {sd[c]}
    /\ UNCHANGED <<list, live, sd, mainVars, lost, accepted, owner, dbOwner, dbVars>>

\* s_close.
Close(c) ==
    /\ Moves(c, "bye", "lock")
    /\ open' = open \ {sd[c]} /\ sd' = [sd EXCEPT ![c] = None]
    /\ UNCHANGED <<list, live, mainVars, lost, accepted, owner, dbOwner, dbVars>>

LockToEnd(c) ==
    /\ Moves(c, "lock", "unlink")
    /\ owner = None /\ owner' = c
    /\ UNCHANGED <<list, live, sd, mainVars, fdVars, dbOwner, dbVars>>

\* free_client, with the lock held: unlink the st_client, ...
Unlink(c) ==
    /\ Moves(c, "unlink", "free")
    /\ list' = Remove(list, c)
    /\ UNCHANGED <<live, sd, mainVars, fdVars, owner, dbOwner, dbVars>>

\* The thread ends without unlocking.
Slip_Free(c) ==
    /\ Moves(c, "free", "none")
    /\ Forget(list, c)
    /\ UNCHANGED <<mainVars, fdVars, owner, dbOwner, dbVars>>

\* ... and free it and its buffer; then unlock, and the thread ends.
Free(c) ==
    /\ Moves(c, "free", "none")
    /\ Forget(list, c)
    /\ owner' = None
    /\ UNCHANGED <<mainVars, fdVars, dbOwner, dbVars>>

ClientRuns(c) ==
    \/ Serve(c) \/ ReadFails(c)
    \/ LockDb(c) \/ Query(c) \/ UnlockDb(c)
    \/ Close(c) \/ LockToEnd(c) \/ Unlink(c) \/ Free(c)

-----------------------------------------------------------------------------

Database == (LinkLost \/ DbTick)
            /\ UNCHANGED <<clientVars, mainVars, fdVars, owner, dbOwner>>

Next ==
    \/ MainRuns \/ Accept
    \/ \E c \in Clients : ClientRuns(c)
    \/ Database

Spec == Init /\ [][Next]_vars

\* Threads run; a read, process_stream (Recorder!AlertsServed) and the calls of
\* the database return, which all have time-outs.  Nobody has to connect.
FairSpec ==
    /\ Spec /\ WF_vars(MainRuns)
    /\ \A c \in Clients : WF_vars(ClientRuns(c))

-----------------------------------------------------------------------------
(* What must hold.                                                         *)

Listed == {c \in live : cpc[c] # "free"}

\* Walking g.clients meets every client once and nothing that was freed,
\* whichever connection ends first.
ClientListIsSound == WellFormed(list, Listed)

\* No thread uses a st_client that was freed: not main, while it counts or
\* until pthread_create has stored the number of a thread that may already be
\* at its end, and not the client's own thread.
NoUseAfterFree ==
    /\ mpc \in {"count", "spawn", "unlock"} /\ cur # None => cur \in live
    /\ \A c \in Clients : cpc[c] # "none" => c \in live

\* Every open descriptor has one owner, who will close it, or belongs to a
\* connection that could not be started (malloc or pthread_create failed); a
\* closed one, which accept may return again, has none.
DescriptorsAccounted ==
    \A s \in Sockets :
        Cardinality({c \in live : sd[c] = s}) + (IF incoming = s THEN 1 ELSE 0)
          + (IF listening = s THEN 1 ELSE 0) + (IF s \in lost THEN 1 ELSE 0)
        = IF s \in open THEN 1 ELSE 0

\* Every client thread ends, whatever the database does and however others
\* come and go, and main gets back to accept.
EveryClientEnds ==
    /\ \A c \in Clients : cpc[c] = "read" ~> cpc[c] = "none"
    /\ []<>(mpc \in {"accept", "exit"})
=============================================================================
