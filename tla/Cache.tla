-------------------------------- MODULE Cache --------------------------------
(***************************************************************************)
(* A cache file and the processes that have it open (db-tdb.c, cache-op.c, *)
(* open_cache).  tdb locks a key for one call; what takes several calls is *)
(* taken apart here, as another process can come between them.             *)
(***************************************************************************)
EXTENDS Integers, FiniteSets

CONSTANTS
  Process,   \* the fetch children
  Key,       \* the strings used as keys
  Age,       \* cache->expire, 0 if the cache has none
  MaxTime    \* bound on the clock

ASSUME CacheAssumption == /\ Age \in Nat /\ MaxTime \in Nat \ {0}

Absent == 0   \* a key that is not there has no time

VARIABLES
  db,       \* the file: the time each key was added
  now,      \* time(NULL)
  handle    \* handle[p]: cache->db of process p, and the expiry it is in

cacheVars == <<db, now, handle>>

\* is: not open, in db_expire with the keys left to visit and the time lim, or
\* open.  old is what the traversal has read and is about to delete.
Shut == [is |-> "shut", left |-> {}, old |-> {}, lim |-> 0]
Open == [Shut EXCEPT !.is = "open"]

CacheTypeOK ==
  /\ db \in [Key -> 0 .. MaxTime]
  /\ now \in 1 .. MaxTime
  /\ handle \in [Process -> [is : {"shut", "expiring", "open"}, left : SUBSET Key,
                             old : SUBSET Key, lim : 0 .. MaxTime]]

CacheInit ==
  /\ db = [k \in Key |-> Absent]
  /\ now = 1
  /\ handle = [p \in Process |-> Shut]

-----------------------------------------------------------------------------
(* The operations, on a file.                                              *)

db_contains(k) == db[k] # Absent

\* tdb_store with TDB_REPLACE.
db_add(k) == [db EXCEPT ![k] = now]

\* tdb_delete, which fails if the key is not there.
db_remove(k) == [db EXCEPT ![k] = Absent]

-----------------------------------------------------------------------------
(* open_cache.                                                             *)

\* Open the file, and start the expiry if the cache has one and has an age's worth
\* of time behind it.
OpenCache(p) ==
  /\ handle[p] = Shut
  /\ handle' = [handle EXCEPT ![p] =
                  IF Age = 0 \/ now <= Age THEN Open
                  ELSE [is |-> "expiring", left |-> {k \in Key : db_contains(k)}, old |-> {},
                        lim |-> now - Age]]
  /\ UNCHANGED <<db, now>>

\* db_expire_item reads an item, which may have been removed since the traversal
\* began.
ExpireRead(p) ==
  /\ handle[p].old = {}
  /\ \E k \in handle[p].left :
       handle' = [handle EXCEPT ![p] =
                    [@ EXCEPT !.left = @ \ {k},
                              !.old  = IF db_contains(k) /\ db[k] < handle[p].lim THEN {k} ELSE {}]]
  /\ UNCHANGED <<db, now>>

\* It deletes the item by its key, whatever that has come to hold.  If the key has
\* gone the traversal stops there.
ExpireDelete(p) ==
  /\ \E k \in handle[p].old :
       /\ handle' = [handle EXCEPT ![p] = IF db_contains(k) THEN [@ EXCEPT !.old = {}] ELSE Open]
       /\ db' = db_remove(k)
  /\ UNCHANGED now

ExpireEnd(p) ==
  /\ handle[p].is = "expiring" /\ handle[p].left = {} /\ handle[p].old = {}
  /\ handle' = [handle EXCEPT ![p] = Open]
  /\ UNCHANGED <<db, now>>

-----------------------------------------------------------------------------
(* Others.                                                                 *)

\* fdm cache remove, and what fdm cache clear does for each key it finds.
CacheOpRemove(k) ==
  /\ db_contains(k)
  /\ db' = db_remove(k)
  /\ UNCHANGED <<now, handle>>

CacheOpAdd(k) ==
  /\ db' = db_add(k)
  /\ UNCHANGED <<now, handle>>

Tick ==
  /\ now < MaxTime
  /\ now' = now + 1
  /\ UNCHANGED <<db, handle>>
=============================================================================
