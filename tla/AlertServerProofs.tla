------------------------- MODULE AlertServerProofs -------------------------
(***************************************************************************)
(* The safety properties of AlertServer, for any number of connections,    *)
(* clients, descriptors and any delay: no client is used after it was      *)
(* freed, the list of them stays sound, every descriptor has one owner,    *)
(* the database handle has one user and is connected at most once in a     *)
(* delay.                                                                  *)
(***************************************************************************)
EXTENDS AlertServer, ListsProofs, FiniteSetTheorems

MainLocked == {"count", "alloc", "spawn", "unlock"}
Beginning  == {"start", "init", "names", "zone", "exit"}

\* Who holds the mutexes is where the code locks them.
Locks ==
    /\ owner = Main <=> mpc \in MainLocked
    /\ \A c \in Clients : owner = c <=> cpc[c] \in {"unlink", "free"}
    /\ \A c \in Clients : dbOwner = c <=> cpc[c] = "db"

\* A thread lives in a st_client that is allocated; one without a thread is
\* the one main is about to start.
Lives ==
    /\ \A c \in Clients : cpc[c] # "none" => c \in live
    /\ \A c \in live : cpc[c] = "none" => mpc = "spawn" /\ cur = c
    /\ mpc = "spawn" => cur \in live /\ cpc[cur] = "none"
    /\ mpc \in {"count", "unlock"} => cur \in Listed \cup {None}
    /\ mpc = "alloc" => cur = None
    /\ mpc \in Beginning => live = {}

\* The list is sound, and memory that is not allocated has no pointers.
Chain == WellFormed(list, Listed) /\ Blank(list, Clients, live)

\* Inside the functions of the database is main, while it starts, or the
\* thread that holds mysql_mutex; the text is its own.  The time noted for the
\* last attempt to connect is that attempt's or earlier, and still what the
\* check saw when the options are set.
Handle ==
    /\ \A c \in Clients : dpc[c] # "out" => cpc[c] = "db"
    /\ dpc[Main] # "out" => mpc \in {"init", "names", "zone"}
    /\ \A u \in Users : dpc[u] # "out" => query = u
    /\ tried <= since + late
    /\ \A u \in Users : dpc[u] = "options" => tried = Delay

\* An open descriptor belongs to main, to one client, or is lost.
Owned ==
    /\ \A c, d \in live : sd[c] = sd[d] /\ sd[c] # None => c = d
    /\ \A c \in live : sd[c] # None =>
         sd[c] \in open \ (lost \cup {incoming, listening})
    /\ incoming # None => incoming \in open \ (lost \cup {listening})
    /\ listening # None => listening \in open \ lost
    /\ lost \subseteq open
    /\ \A s \in open : s \in lost \/ s \in {incoming, listening}
                       \/ \E c \in live : sd[c] = s
    /\ incoming # None <=> mpc \in {"lock", "count", "alloc"}
    /\ mpc = "spawn" => sd[cur] # None
    /\ mpc = "start" => open = {} /\ listening = None
    /\ \A c \in Clients : cpc[c] \in {"lock", "unlink", "free"} => sd[c] = None

Inv == TypeOK /\ Locks /\ Lives /\ Chain /\ Handle /\ Owned

-----------------------------------------------------------------------------

\* The constants.
LEMMA Names ==
    /\ Clients \subseteq Users /\ Main \in Users /\ Main \notin Clients
    /\ None \notin Clients /\ None \notin Sockets /\ None # Main
    /\ \A u \in Users : u = Main \/ u \in Clients
    /\ Delay \in Nat /\ MaxAccepts \in Nat
  BY AlertServerAssumption, DatabaseAssumption

\* A step of one thread inside the functions of the database leaves the others
\* where they are, and the text.
LEMMA DbStep ==
    ASSUME DatabaseTypeOK, NEW u \in Users, ConnectionRuns(u) \/ SendQuery(u)
    PROVE  /\ DatabaseTypeOK'
           /\ dpc[u] # "out" /\ dpc'[u] # "out"
           /\ \A v \in Users \ {u} : dpc'[v] = dpc[v]
           /\ query' = query
           /\ \/ tried' = tried /\ since' = since /\ late' = late
              \/ tried' <= since' + late' /\ dpc[u] = "options"
           /\ dpc'[u] = "options" => tried' = Delay
<1>1. CASE PingSucceeds(u) \/ PingFails(u)
  BY <1>1, Names DEF DatabaseTypeOK, PingSucceeds, PingFails, DbGoto, timeVars
<1>2. CASE TooSoon(u)
  BY <1>2, Names DEF DatabaseTypeOK, TooSoon, DbGoto, timeVars
<1>3. CASE CheckPasses(u) \/ NoOptions(u) \/ Attempt(u)
  BY <1>3, Names DEF DatabaseTypeOK, CheckPasses, NoOptions, Attempt, DbGoto
<1>4. CASE ConnectSucceeds(u) \/ ConnectFails(u) \/ SendQuery(u)
  BY <1>4, Names DEF DatabaseTypeOK, ConnectSucceeds, ConnectFails, SendQuery,
       DbGoto, timeVars
<1>5. QED
  BY <1>1, <1>2, <1>3, <1>4 DEF ConnectionRuns

\* A second keeps their order.
LEMMA TickStep ==
    ASSUME DatabaseTypeOK, DbTick
    PROVE  /\ tried' \in 0..Delay /\ since' \in 0..Delay /\ late' \in 0..Delay
           /\ noted' \in [Users -> 0..Delay]
           /\ query' = query /\ dpc' = dpc
           /\ tried <= since + late => tried' <= since' + late'
           /\ tried = Delay => tried' = Delay
  BY Names DEF DatabaseTypeOK, DbTick, Older

LEMMA Initially == Init => Inv
<1> SUFFICES ASSUME Init PROVE Inv
  OBVIOUS
<1>1. TypeOK
  <2>1. DatabaseTypeOK
    <3>1. connected \in BOOLEAN /\ link \in BOOLEAN
      BY Zenon DEF Init, DatabaseInit
    <3>2. QED
      BY <3>1, Names DEF Init, DatabaseInit, DatabaseTypeOK
  <2>2. list \in ListsOver(Clients)
    BY EmptyKeeps DEF Init
  <2>3. QED
    BY <2>1, <2>2, Names DEF Init, TypeOK
<1>2. Locks /\ Lives /\ Handle /\ Owned
  BY Names DEF Init, DatabaseInit, Locks, Lives, Handle, Owned, MainLocked, Beginning
<1>3. Chain
  <2>1. Listed = {}
    BY DEF Init, Listed
  <2>2. QED
    BY <2>1, EmptyKeeps DEF Init, Chain
<1>4. QED
  BY <1>1, <1>2, <1>3 DEF Inv

\* Where main starts.
MainBegins == Listen \/ ListenFails \/ InitFails \/ MainCalls \/ MainConnects \/ MainReturns

LEMMA LocksKept == ASSUME Inv, [Next]_vars PROVE Locks'
<1> USE Names DEF Inv, Locks, MainLocked, TypeOK
<1>1. CASE MainBegins
  BY <1>1 DEF MainBegins, Listen, ListenFails, InitFails, MainCalls,
       MainConnects, MainReturns, StartingUp, clientVars, mainVars
<1>2. CASE LockClients \/ Count \/ Counted \/ AddClient \/ MallocFails \/ UnlockClients \/ Accept
  BY <1>2 DEF LockClients, Count, Counted, AddClient, MallocFails, UnlockClients,
       Accept, clientVars, mainVars
<1>3. CASE Spawn \/ SpawnFails
  BY <1>3 DEF Spawn, SpawnFails, Forget, Lives
<1>4. ASSUME NEW c \in Clients, ClientRuns(c) PROVE Locks'
  BY <1>4 DEF ClientRuns, Serve, ReadFails, LockDb, Query, UnlockDb, Close,
       LockToEnd, Unlink, Free, Moves, clientVars, mainVars
<1>5. CASE Database
  BY <1>5 DEF Database, clientVars, mainVars
<1>6. CASE UNCHANGED vars
  BY <1>6 DEF vars, clientVars, mainVars
<1>7. QED
  BY <1>1, <1>2, <1>3, <1>4, <1>5, <1>6 DEF Next, MainRuns, MainBegins

LEMMA HandleKept == ASSUME Inv, [Next]_vars PROVE Handle'
<1> USE Names DEF Inv, Handle, TypeOK
<1>1. CASE Listen \/ ListenFails \/ InitFails
  BY <1>1 DEF Listen, ListenFails, InitFails, clientVars, dbVars, timeVars
<1>2. CASE MainCalls
  BY <1>2 DEF MainCalls, Enter, DbGoto, StartingUp, Lives, Beginning,
       DatabaseTypeOK, timeVars, clientVars, mainVars
<1>3. CASE MainConnects
  BY <1>3, DbStep DEF MainConnects, clientVars, mainVars
<1>4. CASE MainReturns
  BY <1>4 DEF MainReturns, Leave, DbGoto, StartingUp, DatabaseTypeOK, timeVars,
       clientVars
<1>5. CASE LockClients \/ Count \/ Counted \/ AddClient \/ MallocFails \/ UnlockClients \/ Accept
  BY <1>5 DEF LockClients, Count, Counted, AddClient, MallocFails, UnlockClients,
       Accept, clientVars, mainVars, dbVars, timeVars
<1>6. CASE Spawn \/ SpawnFails
  BY <1>6 DEF Spawn, SpawnFails, Forget, Lives, dbVars, timeVars
<1>7. ASSUME NEW c \in Clients, ClientRuns(c) PROVE Handle'
  <2>1. CASE Query(c)
    BY <2>1, DbStep DEF Query, clientVars, mainVars
  <2>2. CASE LockDb(c)
    BY <2>2 DEF LockDb, Enter, DbGoto, Moves, Locks, Lives, Beginning,
         DatabaseTypeOK, timeVars, mainVars
  <2>3. CASE UnlockDb(c)
    BY <2>3 DEF UnlockDb, Leave, DbGoto, Moves, DatabaseTypeOK, timeVars, mainVars
  <2>4. CASE Serve(c) \/ ReadFails(c) \/ Close(c) \/ LockToEnd(c) \/ Unlink(c) \/ Free(c)
    BY <2>4 DEF Serve, ReadFails, Close, LockToEnd, Unlink, Free, Moves, mainVars, dbVars,
         timeVars
  <2>5. QED
    BY <1>7, <2>1, <2>2, <2>3, <2>4 DEF ClientRuns
<1>8. CASE Database
  BY <1>8, TickStep DEF Database, LinkLost, timeVars, clientVars, mainVars
<1>9. CASE UNCHANGED vars
  BY <1>9 DEF vars, clientVars, mainVars, dbVars, timeVars
<1>10. QED
  BY <1>1, <1>2, <1>3, <1>4, <1>5, <1>6, <1>7, <1>8, <1>9 DEF Next, MainRuns

\* What becomes of the list and the memory.  Only main and the client that
\* holds clients_mutex touch them.
LEMMA ChainKept == ASSUME Inv, [Next]_vars PROVE Chain' /\ list' \in ListsOver(Clients)
<1>1. /\ ListIn(list, Clients, Listed) /\ Blank(list, Clients, live)
      /\ live \subseteq Clients /\ Listed \subseteq live /\ Listed \subseteq Clients
      /\ cpc \in [Clients -> {"none", "read", "alert", "dblock", "db", "bye",
                              "lock", "unlink", "free"}]
  BY Names DEF Inv, Chain, TypeOK, ListIn, Listed
<1>2. CASE AddClient
  <2>1. PICK c \in Clients \ live : /\ live' = live \cup {c}
                                    /\ list' = InsertFirst(list, c)
    BY <1>2, BlockIsFree DEF AddClient
  <2>2. cpc[c] = "none" /\ cpc' = cpc
    BY <1>1, <1>2, <2>1 DEF AddClient, Inv, Lives
  <2>3. Listed' = Listed \cup {c}
    BY <2>1, <2>2 DEF Listed
  <2>4. c \in Clients /\ c \notin Listed /\ list.prev[c] = None
    BY <1>1, <2>1 DEF Blank
  <2>5. /\ ListIn(list', Clients, Listed \cup {c})
        /\ SameOn(list, list', Clients \ (Listed \cup {c}))
    BY <1>1, <2>1, <2>4, InsertKeeps
  <2>6. Blank(list', Clients, live')
    BY <1>1, <2>1, <2>5 DEF Blank, SameOn
  <2>7. QED
    BY <2>3, <2>5, <2>6 DEF Chain, ListIn
<1>3. CASE SpawnFails
  <2> DEFINE m == Remove(list, cur)
  <2>1. cur \in Listed /\ cpc' = cpc
    BY <1>3 DEF SpawnFails, Inv, Lives, Listed
  <2>2. live' = live \ {cur} /\ list' = Cleared(m, cur)
    BY <1>3 DEF SpawnFails, Forget
  <2>3. Listed' = Listed \ {cur}
    BY <2>1, <2>2 DEF Listed
  <2>4. ListIn(m, Clients, Listed \ {cur}) /\ SameOn(list, m, Clients \ Listed)
    BY <1>1, <2>1, RemoveKeeps
  <2> HIDE DEF m
  <2>5. cur \in Clients /\ cur \notin Listed \ {cur}
    BY <1>1, <2>1
  <2>6. /\ ListIn(list', Clients, Listed \ {cur})
        /\ SameOn(m, list', Clients \ {cur})
        /\ list'.next[cur] = None /\ list'.prev[cur] = None
    BY <1>1, <2>2, <2>4, <2>5, ClearedKeeps
  <2>7. Blank(list', Clients, live')
    BY <1>1, <2>1, <2>2, <2>4, <2>6 DEF Blank, SameOn
  <2>8. QED
    BY <2>3, <2>6, <2>7 DEF Chain, ListIn
<1>4. ASSUME NEW c \in Clients, Unlink(c) PROVE Chain' /\ list' \in ListsOver(Clients)
  <2>1. cpc[c] = "unlink" /\ cpc' = [cpc EXCEPT ![c] = "free"]
        /\ live' = live /\ list' = Remove(list, c)
    BY <1>4 DEF Unlink, Moves
  <2>2. c \in Listed
    BY <2>1 DEF Inv, Lives, Listed
  <2>3. Listed' = Listed \ {c}
    BY <1>1, <2>1 DEF Listed
  <2>4. /\ ListIn(list', Clients, Listed \ {c})
        /\ SameOn(list, list', Clients \ Listed)
    BY <1>1, <2>1, <2>2, RemoveKeeps
  <2>5. Blank(list', Clients, live')
    BY <1>1, <2>1, <2>4 DEF Blank, SameOn
  <2>6. QED
    BY <2>3, <2>4, <2>5 DEF Chain, ListIn
<1>5. ASSUME NEW c \in Clients, Free(c) PROVE Chain' /\ list' \in ListsOver(Clients)
  <2>1. cpc[c] = "free" /\ cpc' = [cpc EXCEPT ![c] = "none"]
        /\ live' = live \ {c} /\ list' = Cleared(list, c)
    BY <1>5 DEF Free, Forget, Moves
  <2>2. c \in Clients /\ c \notin Listed /\ Listed' = Listed
    BY <1>1, <2>1 DEF Listed
  <2>3. /\ ListIn(list', Clients, Listed)
        /\ SameOn(list, list', Clients \ {c})
        /\ list'.next[c] = None /\ list'.prev[c] = None
    BY <1>1, <2>1, <2>2, ClearedKeeps
  <2>4. Blank(list', Clients, live')
    BY <1>1, <2>1, <2>3 DEF Blank, SameOn
  <2>5. QED
    BY <2>2, <2>3, <2>4 DEF Chain, ListIn
<1>6. ASSUME list' = list, live' = live, Listed' = Listed
      PROVE  Chain' /\ list' \in ListsOver(Clients)
  BY <1>1, <1>6 DEF Chain, ListIn
<1>7. CASE MainBegins
  BY <1>6, <1>7 DEF MainBegins, Listen, ListenFails, InitFails, MainCalls,
       MainConnects, MainReturns, clientVars, Listed
<1>8. CASE LockClients \/ Count \/ Counted \/ MallocFails \/ UnlockClients \/ Accept \/ Database
  BY <1>6, <1>8 DEF LockClients, Count, Counted, MallocFails, UnlockClients, Accept,
       Database, clientVars, Listed
<1>9. CASE Spawn
  BY <1>1, <1>6, <1>9 DEF Spawn, Inv, Lives, Listed
<1>10. ASSUME NEW c \in Clients,
             \/ Serve(c) \/ ReadFails(c) \/ LockDb(c) \/ Query(c) \/ UnlockDb(c)
             \/ Close(c) \/ LockToEnd(c)
      PROVE  Chain' /\ list' \in ListsOver(Clients)
  BY <1>1, <1>6, <1>10 DEF Serve, ReadFails, LockDb, Query, UnlockDb, Close, LockToEnd,
       Moves, clientVars, Listed
<1>11. CASE UNCHANGED vars
  BY <1>6, <1>11 DEF vars, clientVars, Listed
<1>12. QED
  BY <1>2, <1>3, <1>4, <1>5, <1>7, <1>8, <1>9, <1>10, <1>11
     DEF Next, MainRuns, MainBegins, ClientRuns

\* A st_client that main points to is listed as long as main holds the mutex.
LEMMA LivesKept == ASSUME Inv, [Next]_vars PROVE Lives'
<1> USE Names DEF Inv, Lives, TypeOK, Listed
<1>1. CASE MainBegins
  BY <1>1 DEF MainBegins, Listen, ListenFails, InitFails, MainCalls,
       MainConnects, MainReturns, StartingUp, Beginning, clientVars, mainVars
<1>2. CASE Counted \/ MallocFails
  BY <1>2 DEF Counted, MallocFails, Beginning, clientVars
<1>3. CASE UnlockClients \/ Accept
  BY <1>3 DEF UnlockClients, Accept, Beginning, clientVars
<1>4. CASE LockClients \/ Count
  BY <1>4 DEF LockClients, Count, Chain, WellFormed, Linked, Beginning, clientVars
<1>5. CASE AddClient
  <2>1. PICK c \in Clients \ live : live' = live \cup {c} /\ cur' = c
    BY <1>5, BlockIsFree DEF AddClient
  <2>2. QED
    BY <1>5, <2>1 DEF AddClient, Beginning
<1>6. CASE Spawn \/ SpawnFails
  BY <1>6 DEF Spawn, SpawnFails, Forget, Beginning
<1>7. ASSUME NEW c \in Clients, ClientRuns(c) PROVE Lives'
  <2>1. CASE Unlink(c) \/ Free(c)
    BY <2>1 DEF Unlink, Free, Forget, Moves, Locks, MainLocked, Beginning, mainVars
  <2>2. CASE \/ Serve(c) \/ ReadFails(c) \/ LockDb(c) \/ Query(c) \/ UnlockDb(c)
             \/ Close(c) \/ LockToEnd(c)
    BY <2>2 DEF Serve, ReadFails, LockDb, Query, UnlockDb, Close, LockToEnd,
         Moves, Beginning, clientVars, mainVars
  <2>3. QED
    BY <1>7, <2>1, <2>2 DEF ClientRuns
<1>8. CASE Database
  BY <1>8 DEF Database, clientVars, mainVars
<1>9. CASE UNCHANGED vars
  BY <1>9 DEF vars, clientVars, mainVars
<1>10. QED
  BY <1>1, <1>2, <1>3, <1>4, <1>5, <1>6, <1>7, <1>8, <1>9 DEF Next, MainRuns, MainBegins

LEMMA TypesKept == ASSUME Inv, [Next]_vars PROVE TypeOK'
<1> USE Names DEF Inv, TypeOK
<1>1. DatabaseTypeOK'
  <2>1. ASSUME NEW u \in Users, ConnectionRuns(u) \/ SendQuery(u) PROVE DatabaseTypeOK'
    BY <2>1, DbStep
  <2>2. ASSUME NEW u \in Users, Enter(u) \/ Leave(u) PROVE DatabaseTypeOK'
    BY <2>2 DEF Enter, Leave, DbGoto, DatabaseTypeOK, timeVars
  <2>3. ASSUME DbGoto(Main, "send", "out"),
               UNCHANGED <<connected, link, timeVars, query>>
        PROVE  DatabaseTypeOK'
    BY <2>3 DEF DbGoto, DatabaseTypeOK, timeVars
  <2>4. CASE LinkLost \/ DbTick
    <3>1. connected' \in BOOLEAN /\ link' \in BOOLEAN
      BY <2>4, Zenon DEF LinkLost, DbTick, DatabaseTypeOK
    <3>2. /\ tried' \in 0..Delay /\ since' \in 0..Delay /\ late' \in 0..Delay
          /\ noted' \in [Users -> 0..Delay]
          /\ query' = query /\ dpc' = dpc
      BY <2>4, TickStep DEF LinkLost, timeVars, DatabaseTypeOK
    <3>3. QED
      BY <3>1, <3>2 DEF DatabaseTypeOK
  <2>5. CASE UNCHANGED dbVars
    BY <2>5 DEF dbVars, timeVars, DatabaseTypeOK
  <2>6. CASE MainRuns \/ Accept
    BY <2>1, <2>2, <2>3, <2>5, <2>6 DEF MainRuns, Accept, Listen, ListenFails, InitFails,
         MainCalls, MainConnects, MainReturns, LockClients, Count, Counted, AddClient,
         MallocFails, Spawn, SpawnFails, UnlockClients
  <2>7. ASSUME NEW c \in Clients, ClientRuns(c) PROVE DatabaseTypeOK'
    BY <2>1, <2>2, <2>5, <2>7 DEF ClientRuns, Serve, ReadFails, LockDb, Query, UnlockDb,
         Close, LockToEnd, Unlink, Free
  <2>8. QED
    BY <2>4, <2>5, <2>6, <2>7 DEF Next, Database, vars
<1>2. list' \in ListsOver(Clients)
  BY ChainKept
<1>3. CASE MainBegins
  BY <1>1, <1>2, <1>3 DEF MainBegins, Listen, ListenFails, InitFails, MainCalls,
       MainConnects, MainReturns, StartingUp, NewSocket, clientVars, mainVars, fdVars
<1>4. CASE LockClients \/ Count \/ Counted \/ MallocFails \/ UnlockClients \/ Accept
  BY <1>1, <1>2, <1>4 DEF LockClients, Count, Counted, MallocFails, UnlockClients,
       Accept, NewSocket, Owned, ListsOver, clientVars, fdVars
<1>5. CASE AddClient
  BY <1>1, <1>2, <1>5, BlockIsFree DEF AddClient, fdVars
<1>6. CASE Spawn \/ SpawnFails
  BY <1>1, <1>2, <1>6 DEF Spawn, SpawnFails, Forget, Lives, Owned, fdVars
<1>7. ASSUME NEW c \in Clients, ClientRuns(c) PROVE TypeOK'
  BY <1>1, <1>2, <1>7 DEF ClientRuns, Serve, ReadFails, LockDb, Query, UnlockDb,
       Close, LockToEnd, Unlink, Free, Forget, Moves, clientVars, mainVars, fdVars
<1>8. CASE Database \/ UNCHANGED vars
  BY <1>1, <1>2, <1>8 DEF Database, vars, clientVars, mainVars, fdVars
<1>9. QED
  BY <1>3, <1>4, <1>5, <1>6, <1>7, <1>8 DEF Next, MainRuns, MainBegins

\* accept_clients gives the new descriptor to the client it makes, or loses it;
\* a client that closes its own forgets it.
LEMMA OwnedKept == ASSUME Inv, [Next]_vars PROVE Owned'
<1> USE Names DEF Inv, Owned, TypeOK
<1>1. CASE MainBegins
  BY <1>1 DEF MainBegins, Listen, ListenFails, InitFails, MainCalls,
       MainConnects, MainReturns, StartingUp, NewSocket, Lives, Beginning,
       clientVars, mainVars, fdVars
<1>2. CASE Accept
  BY <1>2 DEF Accept, NewSocket, clientVars
<1>3. CASE LockClients \/ Count \/ Counted \/ MallocFails \/ UnlockClients
  BY <1>3 DEF LockClients, Count, Counted, MallocFails, UnlockClients, clientVars, fdVars
<1>4. CASE AddClient
  BY <1>4, BlockIsFree DEF AddClient, Lives, fdVars
<1>5. CASE Spawn
  BY <1>5 DEF Spawn, Lives, fdVars
<1>6. CASE SpawnFails
  BY <1>6 DEF SpawnFails, Forget, Lives
<1>7. ASSUME NEW c \in Clients, ClientRuns(c) PROVE Owned'
  <2>1. CASE Close(c)
    BY <2>1 DEF Close, Moves, Lives, mainVars
  <2>2. CASE Unlink(c) \/ Free(c)
    BY <2>2 DEF Unlink, Free, Forget, Moves, Lives, mainVars, fdVars
  <2>3. CASE Serve(c) \/ ReadFails(c) \/ LockDb(c) \/ Query(c) \/ UnlockDb(c) \/ LockToEnd(c)
    BY <2>3 DEF Serve, ReadFails, LockDb, Query, UnlockDb, LockToEnd, Moves,
         clientVars, mainVars, fdVars
  <2>4. QED
    BY <1>7, <2>1, <2>2, <2>3 DEF ClientRuns
<1>8. CASE Database \/ UNCHANGED vars
  BY <1>8 DEF Database, vars, clientVars, mainVars, fdVars
<1>9. QED
  BY <1>1, <1>2, <1>3, <1>4, <1>5, <1>6, <1>7, <1>8 DEF Next, MainRuns, MainBegins

-----------------------------------------------------------------------------

\* The inductive invariant of the alert server (clients.c, nvr.c, db_mysql.c).
THEOREM ServerInvariant == Spec => []Inv
<1>1. Inv /\ [Next]_vars => Inv'
  BY LocksKept, HandleKept, ChainKept, LivesKept, TypesKept, OwnedKept DEF Inv
<1>2. QED
  BY Initially, <1>1, PTL DEF Spec

\* Every variable of the alert server keeps its type.
THEOREM TypeCorrect == Spec => []TypeOK
<1>1. Inv => TypeOK
  BY DEF Inv
<1>2. QED
  BY ServerInvariant, <1>1, PTL

\* However connections come and go, neither accept_clients nor a client_thread
\* uses a st_client that free_client gave back.
THEOREM NoneUsedAfterFree == Spec => []NoUseAfterFree
<1>1. Inv => NoUseAfterFree
  BY DEF Inv, Lives, NoUseAfterFree, Listed
<1>2. QED
  BY ServerInvariant, <1>1, PTL

\* g.clients leads to every connected client and to nothing that was freed,
\* whichever connection ends first.
THEOREM ClientListSound == Spec => []ClientListIsSound
<1>1. Inv => ClientListIsSound
  BY DEF Inv, Chain, ClientListIsSound
<1>2. QED
  BY ServerInvariant, <1>1, PTL

\* The MYSQL handle g.db has one user at a time, and g.db.query is the text of
\* that user.
THEOREM HandleExclusive == Spec => []HandleIsExclusive
<1>1. Inv => HandleIsExclusive
  BY Names DEF Inv, Handle, Locks, Lives, Beginning, TypeOK, HandleIsExclusive
<1>2. QED
  BY ServerInvariant, <1>1, PTL

\* Every descriptor has one owner who will close it, or is one that
\* accept_clients lost when it could not start a thread.
THEOREM DescriptorsOwned == Spec => []DescriptorsAccounted
<1> DEFINE Holders(s) == {c \in live : sd[c] = s}
<1>1. ASSUME Inv, NEW s \in Sockets
      PROVE  Cardinality(Holders(s)) = IF \E c \in live : sd[c] = s THEN 1 ELSE 0
  <2>1. CASE \E c \in live : sd[c] = s
    <3>1. PICK c \in live : sd[c] = s
      BY <2>1
    <3>2. Holders(s) = {c}
      BY <1>1, <3>1, Names DEF Inv, Owned, TypeOK
    <3>3. QED
      BY <2>1, <3>2, FS_Singleton
  <2>2. CASE ~ \E c \in live : sd[c] = s
    <3>1. Holders(s) = {}
      BY <2>2
    <3>2. QED
      BY <2>2, <3>1, FS_EmptySet
  <2>3. QED
    BY <2>1, <2>2
<1>2. Inv => DescriptorsAccounted
  BY <1>1, Names DEF Inv, Owned, TypeOK, DescriptorsAccounted
<1>3. QED
  BY ServerInvariant, <1>2, PTL

\* mysql_real_connect is called at most once in mysql_connect_delay, by all
\* threads together, also when it fails, but for the time the options took.
THEOREM ConnectsAreSpaced == Spec => ConnectsSpaced
<1> DEFINE Spaced == \A u \in Users :
             dpc[u] # "open" /\ dpc'[u] = "open" => since + late >= Delay
<1>1. ASSUME Inv, [Next]_vars PROVE Spaced \/ UNCHANGED dbVars
  <2> SUFFICES ASSUME NEW u \in Users, dpc[u] # "open", dpc'[u] = "open"
               PROVE  since + late >= Delay
    OBVIOUS
  <2>0. /\ dpc \in [Users -> {"out", "ping", "flood", "options", "open", "send", "back"}]
        /\ Clients \subseteq Users /\ Main \in Users
        /\ tried <= since + late /\ Delay \in Nat
        /\ since \in 0..Delay /\ late \in 0..Delay
        /\ \A v \in Users : dpc[v] = "options" => tried = Delay
    BY <1>1, Names DEF Inv, TypeOK, DatabaseTypeOK, Handle
  <2>1. ASSUME NEW v \in Users, ConnectionRuns(v) PROVE since + late >= Delay
    <3>1. dpc[u] = "options"
      BY <2>1, <2>0 DEF ConnectionRuns, PingSucceeds, PingFails, TooSoon, CheckPasses,
           NoOptions, Attempt, ConnectSucceeds, ConnectFails, DbGoto
    <3>2. QED
      BY <3>1, <2>0
  <2>2. ASSUME NEW v \in Users, SendQuery(v) \/ Enter(v) \/ Leave(v) PROVE FALSE
    BY <2>2, <2>0 DEF SendQuery, Enter, Leave, DbGoto
  <2>3. ASSUME DbGoto(Main, "send", "out") PROVE FALSE
    BY <2>3, <2>0 DEF DbGoto
  <2>4. CASE MainRuns \/ Accept
    BY <2>1, <2>2, <2>3, <2>4, <2>0 DEF MainRuns, Accept, Listen, ListenFails, InitFails,
         MainCalls, MainConnects, MainReturns, LockClients, Count, Counted, AddClient,
         MallocFails, Spawn, SpawnFails, UnlockClients, dbVars
  <2>5. ASSUME NEW c \in Clients, ClientRuns(c) PROVE since + late >= Delay
    BY <2>1, <2>2, <2>5, <2>0 DEF ClientRuns, Serve, ReadFails, LockDb, Query, UnlockDb,
         Close, LockToEnd, Unlink, Free, dbVars
  <2>6. QED
    BY <1>1, <2>4, <2>5 DEF Next, Database, LinkLost, DbTick, vars, dbVars
<1>2. Inv /\ [Next]_vars => [Spaced]_dbVars
  BY <1>1
<1>3. QED
  BY ServerInvariant, <1>2, PTL DEF Spec, ConnectsSpaced
=============================================================================
