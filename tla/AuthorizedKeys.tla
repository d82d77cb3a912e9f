--------------------------- MODULE AuthorizedKeys ---------------------------
(***************************************************************************)
(* The list of device keys and its hot reload (src/sshfwd.go, type         *)
(* authorizedKeys).  Every SSH connection runs in a goroutine of its own   *)
(* and looks up each key its client offers; a lookup first reads the       *)
(* configuration file again if its mtime is not the one of the last        *)
(* successful reload.                                                      *)
(*                                                                         *)
(* The file is written by others: add-device.sh, an editor.  `configs' is  *)
(* what it has held, the last element is what it holds, and the place in   *)
(* the sequence is what os.Stat shows as the mtime (the code compares      *)
(* mtimes only for equality; two writes never carry the same one).  A list *)
(* is named by the write it was read from.                                 *)
(***************************************************************************)
EXTENDS Integers, Sequences

CONSTANTS
    Conns,      \* the SSH connections
    Keys,       \* public keys
    Devices,    \* device ids
    NoKey,      \* no key has been offered
    NoDevice,   \* a key that is not listed
    Lists,      \* contents that give a list: functions from keys to devices
    Broken,     \* contents that do not: not YAML, a key that does not parse
    Missing,    \* no file: os.Stat fails
    Nobody,     \* nobody holds the lock
    MaxWrites   \* bound: contents the file has in a behaviour

ASSUME KeysAssumption ==
    /\ NoDevice \notin Devices
    /\ Lists \subseteq [Keys -> Devices \cup {NoDevice}]
    /\ Broken \notin Lists
    /\ Missing \notin Lists
    /\ Broken # Missing
    /\ Nobody \notin Conns
    /\ MaxWrites \in Nat \ {0}

VARIABLES
    configs,    \* what the configuration file has held
    hot,        \* a.path is not empty: the list is reloaded
    list,       \* in memory: [stat: a.mtime, ver: the write a.keys is from]
    listMu,     \* holder of a.mu
    at,         \* where a connection is in lookup
    seen,       \* local: the mtime os.Stat returned
    got,        \* local: the write os.ReadFile returned
    key,        \* the key looked up
    found,      \* the device the last lookup returned
    asked,      \* history: the file's write when the lookup was called
    kept        \* history: that lookup could not read the file

keyVars == <<configs, hot, list, listMu, at, seen, got, key, found, asked, kept>>
lookupVars == <<at, seen, got, key, found, asked, kept>>

Contents == Lists \cup {Broken, Missing}
Ids == 0..MaxWrites
Now == Len(configs)
File == configs[Now]
Places == {"idle", "lock", "read", "commit", "find"}

KeysTypeOK ==
    /\ configs \in Seq(Contents)
    /\ Now \in 1..MaxWrites
    /\ hot \in BOOLEAN
    /\ list \in [stat: Ids, ver: 1..Now]
    /\ configs[list.ver] \in Lists
    /\ listMu \in Conns \cup {Nobody}
    /\ at \in [Conns -> Places]
    /\ seen \in [Conns -> Ids]
    /\ got \in [Conns -> Ids]
    /\ key \in [Conns -> Keys \cup {NoKey}]
    /\ found \in [Conns -> Devices \cup {NoDevice}]
    /\ asked \in [Conns -> Ids]
    /\ kept \in [Conns -> BOOLEAN]

(* loadConfig has read a list; a.mtime is the zero time, so that the first   *)
(* lookup reads the file again.                                              *)
KeysInit ==
    /\ \E l \in Lists : configs = <<l>>
    /\ hot \in BOOLEAN
    /\ list = [stat |-> 0, ver |-> 1]
    /\ listMu = Nobody
    /\ at = [c \in Conns |-> "idle"]
    /\ seen = [c \in Conns |-> 0]
    /\ got = [c \in Conns |-> 0]
    /\ key = [c \in Conns |-> NoKey]
    /\ found = [c \in Conns |-> NoDevice]
    /\ asked = [c \in Conns |-> 0]
    /\ kept = [c \in Conns |-> FALSE]

----------------------------------------------------------------------------
(* An editor, add-device.sh: what they write need not be a list.             *)
WriteConfig ==
    /\ Now < MaxWrites
    /\ \E content \in Contents : configs' = Append(configs, content)
    /\ UNCHANGED <<hot, list, listMu, lookupVars>>

Goto(c, place) == at' = [at EXCEPT ![c] = place]

Lookup(c, k) ==
    /\ at[c] = "idle"
    /\ Goto(c, "lock")
    /\ key' = [key EXCEPT ![c] = k]
    /\ found' = [found EXCEPT ![c] = NoDevice]
    /\ asked' = [asked EXCEPT ![c] = Now]
    /\ kept' = [kept EXCEPT ![c] = FALSE]
    /\ UNCHANGED <<configs, hot, list, listMu, seen, got>>

Keep(c) == Goto(c, "find") /\ kept' = [kept EXCEPT ![c] = TRUE]

(* Faults of lookup, for the mutation runs: no lock around it; a failed      *)
(* reload that leaves the lock taken; a content that is not tested; the      *)
(* mtime taken after the content.                                            *)
UnlockedLock(c) ==
    /\ at[c] = "lock"
    /\ hot /\ Now # list.stat /\ File # Missing
    /\ Goto(c, "read")
    /\ seen' = [seen EXCEPT ![c] = Now]
    /\ UNCHANGED <<configs, hot, list, listMu, got, key, found, asked, kept>>

LeakingRead(c) ==
    /\ at[c] = "read"
    /\ IF File \in Lists
       THEN /\ Goto(c, "commit")
            /\ got' = [got EXCEPT ![c] = Now]
            /\ UNCHANGED <<found, kept>>
       ELSE /\ Goto(c, "idle")
            /\ kept' = [kept EXCEPT ![c] = TRUE]
            /\ found' = [found EXCEPT ![c] = configs[list.ver][key[c]]]
            /\ UNCHANGED got
    /\ UNCHANGED <<configs, hot, list, listMu, seen, key, asked>>

CarelessRead(c) ==
    /\ at[c] = "read"
    /\ Goto(c, "commit")
    /\ got' = [got EXCEPT ![c] = Now]
    /\ UNCHANGED <<configs, hot, list, listMu, seen, key, found, asked, kept>>

StatLastCommit(c) ==
    /\ at[c] = "commit"
    /\ list' = [stat |-> Now, ver |-> got[c]]
    /\ Goto(c, "find")
    /\ UNCHANGED <<configs, hot, listMu, seen, got, key, found, asked, kept>>

(* a.mu is taken, then maybeReload up to the comparison of the mtimes.       *)
Lock(c) ==
    /\ at[c] = "lock"
    /\ listMu = Nobody
    /\ listMu' = c
    /\ \/ /\ ~hot \/ (File # Missing /\ Now = list.stat)
          /\ Goto(c, "find")
          /\ UNCHANGED <<seen, kept>>
       \/ /\ hot /\ File = Missing
          /\ Keep(c)
          /\ UNCHANGED seen
       \/ /\ hot /\ File # Missing /\ Now # list.stat
          /\ Goto(c, "read")
          /\ seen' = [seen EXCEPT ![c] = Now]
          /\ UNCHANGED kept
    /\ UNCHANGED <<configs, hot, list, got, key, found, asked>>

(* maybeReload: os.ReadFile and the parsing.  reloadFailed keeps the list    *)
(* and the mtime.                                                            *)
Read(c) ==
    /\ at[c] = "read"
    /\ IF File \in Lists
       THEN Goto(c, "commit") /\ got' = [got EXCEPT ![c] = Now] /\ UNCHANGED kept
       ELSE Keep(c) /\ UNCHANGED got
    /\ UNCHANGED <<configs, hot, list, listMu, seen, key, found, asked>>

(* maybeReload: the list and the mtime of the stat are replaced.             *)
Commit(c) ==
    /\ at[c] = "commit"
    /\ list' = [stat |-> seen[c], ver |-> got[c]]
    /\ Goto(c, "find")
    /\ UNCHANGED <<configs, hot, listMu, seen, got, key, found, asked, kept>>

(* lookup: the key is looked up and a.mu released.                           *)
Find(c) ==
    /\ at[c] = "find"
    /\ found' = [found EXCEPT ![c] = configs[list.ver][key[c]]]
    /\ listMu' = Nobody
    /\ seen' = [seen EXCEPT ![c] = 0]
    /\ got' = [got EXCEPT ![c] = 0]
    /\ Goto(c, "idle")
    /\ UNCHANGED <<configs, hot, list, key, asked, kept>>

(* The connection has ended, and with it what was noted for it.              *)
ForgetLookup(c) ==
    /\ key' = [key EXCEPT ![c] = NoKey]
    /\ found' = [found EXCEPT ![c] = NoDevice]
    /\ asked' = [asked EXCEPT ![c] = 0]
    /\ kept' = [kept EXCEPT ![c] = FALSE]
    /\ UNCHANGED <<configs, hot, list, listMu, at, seen, got>>

LookupStep(c) == Lock(c) \/ Read(c) \/ Commit(c) \/ Find(c)
=============================================================================
