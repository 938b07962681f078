------------------------------ MODULE CheckCache ------------------------------
(***************************************************************************)
(* The checks cache (cache.py): what its updates are and what it makes of  *)
(* a file of another build.  The steps of an update are LockedFile's, with *)
(* CacheContents, Updated and LeavesAlone for its constants.               *)
(***************************************************************************)
EXTENDS LockedFile

CONSTANTS Keys,       \* (project, task) pairs
          Results,    \* check results
          NoEntry    \* no entry under a key

Entries == [Keys -> Results \cup {NoEntry}]

CacheContents == [version : {"legacy", "ours", "newer"}, entries : Entries]

NoEntries == [k \in Keys |-> NoEntry]

\* No file yet, or one that cannot be read.
EmptyCache == [version |-> "legacy", entries |-> NoEntries]

\* save_results with what is fresh, drop_result of one key, and the save of a
\* build whose format is newer.
SaveOf(fresh) == [op |-> "save", entries |-> fresh]
DropOf(k)     == [op |-> "drop", entries |-> k]
NewerSave     == [op |-> "newer", entries |-> NoEntries]

CacheUpdates == {SaveOf(fresh) : fresh \in Entries} \cup {DropOf(k) : k \in Keys}
                  \cup {NewerSave}

\* save_results merges what is fresh into what it read.
Merged(fresh, old) == [k \in Keys |-> IF fresh[k] = NoEntry THEN old[k] ELSE fresh[k]]

\* Either update stamps this build's version, a legacy file included; a newer
\* build stamps its own.
Updated(u, c) ==
  CASE u.op = "save"  -> [version |-> "ours", entries |-> Merged(u.entries, c.entries)]
    [] u.op = "drop"  -> [version |-> "ours", entries |-> [c.entries EXCEPT ![u.entries] = NoEntry]]
    [] u.op = "newer" -> [c EXCEPT !.version = "newer"]

\* Mutant: a file of a newer build is rewritten like any other.
DeclinesNoSkew(u, c) == u.op = "drop" /\ c.entries[u.entries] = NoEntry

\* A file of a newer build is left alone; dropping what is not there is a no-op.
LeavesAlone(u, c) ==
  \/ u.op # "newer" /\ c.version = "newer"
  \/ u.op = "drop" /\ c.entries[u.entries] = NoEntry

\* The constants of LockedFile are the cache's.
IsCheckCache ==
  /\ Contents = CacheContents /\ Start = EmptyCache /\ Empty = EmptyCache
  /\ Updates = CacheUpdates
  /\ \A u \in Updates, c \in Contents :
       Apply(u, c) = Updated(u, c) /\ Declines(u, c) = LeavesAlone(u, c)

\* A call that was issued goes on; those who wait in flock are woken in turn.
Fairness == \A w \in Writers : WF_fileVars(Proceed(w)) /\ SF_fileVars(Lock(w))

CacheSpec == StoreSpec /\ Fairness

-----------------------------------------------------------------------------
(* Properties. *)

\* "The file is left for the build that owns it" (save_results): while locks and
\* reads succeed, a cache of a newer build gives way only to an older version of
\* the file, which a power loss may bring back.
NewerCacheKept ==
  [][~unguarded' /\ file.version = "newer" /\ file'.version # "newer"
       => file' \in versions /\ \A w \in Writers : step'[w] = Free]_fileVars

\* No call waits for ever, though holders of the lock are killed: a flock dies
\* with its descriptor.
EveryCallEnds == \A w \in Writers : step[w] # Free ~> step[w] = Free
=============================================================================
