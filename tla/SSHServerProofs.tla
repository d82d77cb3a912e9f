-------------------------- MODULE SSHServerProofs --------------------------
(* Proofs about SSHServer and the AuthorizedKeys it is built on, for every   *)
(* set of connections, keys and channels and every number of writes of the   *)
(* configuration file.                                                       *)
EXTENDS SSHServer, TLAPS

(* A list is recent enough for the lookup of a connection.                   *)
Serves(c, v) == v >= asked[c] \/ kept[c] \/ ~hot

(* Whoever is between the comparison of the mtimes and the end of lookup     *)
(* holds a.mu, and nobody else does.                                         *)
LockInv == \A c \in Conns : at[c] \in {"read", "commit", "find"} <=> listMu = c

(* The mtime in memory is not ahead of the list in memory, and what the      *)
(* holder of the lock carries is no older than the file was at its call.     *)
ReloadInv ==
    /\ list.stat <= list.ver
    /\ \A c \in Conns :
           /\ asked[c] <= Now
           /\ at[c] \in {"read", "commit"} => asked[c] <= seen[c] /\ seen[c] <= Now
           /\ at[c] = "commit" =>
                  /\ seen[c] <= got[c]
                  /\ got[c] \in 1..Now
                  /\ configs[got[c]] \in Lists
           /\ at[c] = "find" => Serves(c, list.ver)

(* A device that a lookup has found is the one some recent enough list gives *)
(* to the key.                                                               *)
FoundInv ==
    \A c \in Conns :
        /\ at[c] # "idle" => key[c] \in Keys /\ found[c] = NoDevice
        /\ found[c] # NoDevice =>
               /\ key[c] \in Keys
               /\ \E v \in 1..Now : /\ configs[v] \in Lists
                                    /\ configs[v][key[c]] = found[c]
                                    /\ Serves(c, v)

(* A connection that is open has ended its lookups with that device, and its *)
(* client has the key.                                                       *)
SessionInv ==
    \A c \in Conns : phase[c] = "open" =>
        /\ at[c] = "idle"
        /\ key[c] \in Holds[c]
        /\ device[c] = found[c]
        /\ device[c] # NoDevice

KeysInv == KeysTypeOK /\ LockInv /\ ReloadInv /\ FoundInv
ServerInv == ServerTypeOK /\ LockInv /\ ReloadInv /\ FoundInv /\ SessionInv

USE KeysAssumption, ServerAssumption

LEMMA ServerInitInv == Init => ServerInv
<1> SUFFICES ASSUME Init PROVE ServerInv
  OBVIOUS
<1>1. PICK l \in Lists : configs = <<l>>
  BY DEF Init, KeysInit
<1>2. configs \in Seq(Contents) /\ Now = 1 /\ configs[1] = l
  BY <1>1 DEF Contents, Now
<1>3. ServerTypeOK
  BY <1>2 DEF Init, KeysInit, ServerTypeOK, KeysTypeOK, Ids, Places, Phases, Stages
<1>4. LockInv /\ ReloadInv /\ FoundInv /\ SessionInv
  BY <1>2 DEF Init, KeysInit, LockInv, ReloadInv, FoundInv, SessionInv
<1> QED
  BY <1>3, <1>4 DEF ServerInv

(* A write of the file leaves what it has held before in its place.          *)
LEMMA WriteConfigInv == KeysInv /\ WriteConfig => KeysInv'
<1> SUFFICES ASSUME KeysInv, WriteConfig PROVE KeysInv'
  OBVIOUS
<1>1. PICK content \in Contents : configs' = Append(configs, content)
  BY DEF WriteConfig
<1>2. /\ configs \in Seq(Contents) /\ Now \in 1..MaxWrites /\ Now < MaxWrites
      /\ Now' = Now + 1 /\ configs' \in Seq(Contents)
      /\ \A v \in 1..Now : configs'[v] = configs[v]
  BY <1>1 DEF KeysInv, KeysTypeOK, WriteConfig, Now
<1>3. /\ UNCHANGED <<hot, list, listMu, at, seen, got, key, found, asked, kept>>
      /\ list \in [stat: Ids, ver: 1..Now'] /\ list.ver \in 1..Now
  BY <1>2 DEF KeysInv, KeysTypeOK, WriteConfig, lookupVars, Ids
<1>4. KeysTypeOK'
  BY <1>2, <1>3 DEF KeysInv, KeysTypeOK, Ids
<1>5. LockInv'
  BY <1>3 DEF KeysInv, LockInv
<1>6. ReloadInv'
  <2>1. ASSUME NEW c \in Conns
        PROVE  /\ asked[c] <= Now'
               /\ at[c] \in {"read", "commit"} => asked[c] <= seen[c] /\ seen[c] <= Now'
               /\ at[c] = "commit" => got[c] \in 1..Now' /\ configs'[got[c]] \in Lists
    BY <1>2 DEF KeysInv, KeysTypeOK, ReloadInv, Ids
  <2> QED
    BY <1>3, <2>1 DEF KeysInv, ReloadInv, Serves
<1>7. FoundInv'
  <2>1. ASSUME NEW c \in Conns, found[c] # NoDevice
        PROVE  \E v \in 1..Now' : /\ configs'[v] \in Lists
                                  /\ configs'[v][key[c]] = found[c]
                                  /\ Serves(c, v)
    <3>1. PICK v \in 1..Now : /\ configs[v] \in Lists
                              /\ configs[v][key[c]] = found[c]
                              /\ Serves(c, v)
      BY <2>1 DEF KeysInv, FoundInv
    <3> QED
      BY <1>2, <3>1
  <2> QED
    BY <1>3, <2>1 DEF KeysInv, FoundInv, Serves
<1> QED
  BY <1>4, <1>5, <1>6, <1>7 DEF KeysInv

LEMMA LookupInv ==
    ASSUME KeysInv, NEW c \in Conns, NEW k \in Keys, Lookup(c, k)
    PROVE  KeysInv'
<1>1. Now' = Now /\ Now \in 1..MaxWrites
  BY DEF Lookup, Now, KeysInv, KeysTypeOK
<1>2. KeysTypeOK'
  BY <1>1 DEF KeysInv, KeysTypeOK, Lookup, Goto, Ids, Places
<1>3. LockInv' /\ ReloadInv' /\ FoundInv'
  BY <1>1 DEF KeysInv, KeysTypeOK, LockInv, ReloadInv, FoundInv, Serves, Lookup, Goto, Ids
<1> QED
  BY <1>2, <1>3 DEF KeysInv

LEMMA LockStepInv == ASSUME KeysInv, NEW c \in Conns, Lock(c) PROVE KeysInv'
<1>1. Now' = Now /\ Now \in 1..MaxWrites
  BY DEF Lock, Now, KeysInv, KeysTypeOK
<1>2. KeysTypeOK'
  <2>1. at' \in [Conns -> Places] /\ kept' \in [Conns -> BOOLEAN]
    BY DEF KeysInv, KeysTypeOK, Lock, Keep, Goto, Places
  <2>2. seen' \in [Conns -> Ids]
    <3>1. Now \in Ids /\ seen \in [Conns -> Ids]
      BY <1>1 DEF KeysInv, KeysTypeOK, Ids
    <3>2. seen' = seen \/ seen' = [seen EXCEPT ![c] = Now]
      BY DEF Lock
    <3> QED
      BY <3>1, <3>2
  <2> QED
    BY <1>1, <2>1, <2>2 DEF KeysInv, KeysTypeOK, Lock
<1>3. LockInv'
  BY DEF KeysInv, KeysTypeOK, LockInv, Lock, Keep, Goto
<1>4. ReloadInv'
  <2>1. Now \in Nat /\ asked[c] <= Now /\ list.stat <= list.ver
    BY <1>1 DEF KeysInv, ReloadInv
  <2>2. CASE ~hot \/ (File # Missing /\ Now = list.stat)
    <3>1. Serves(c, list.ver)
      BY <2>1, <2>2 DEF KeysInv, KeysTypeOK, Serves, Ids
    <3>2. at' = [at EXCEPT ![c] = "find"] /\ UNCHANGED <<seen, kept>>
      BY <2>2 DEF Lock, Goto
    <3> QED
      BY <1>1, <3>1, <3>2 DEF KeysInv, KeysTypeOK, ReloadInv, Serves, Lock
  <2>3. CASE hot /\ File = Missing
    BY <1>1, <2>3 DEF KeysInv, KeysTypeOK, ReloadInv, Serves, Lock, Keep, Goto
  <2>4. CASE hot /\ File # Missing /\ Now # list.stat
    BY <1>1, <2>1, <2>4 DEF KeysInv, KeysTypeOK, ReloadInv, Serves, Lock, Goto
  <2> QED
    BY <2>2, <2>3, <2>4
<1>5. FoundInv'
  BY <1>1 DEF KeysInv, KeysTypeOK, FoundInv, Serves, Lock, Keep, Goto, Ids
<1> QED
  BY <1>2, <1>3, <1>4, <1>5 DEF KeysInv

LEMMA ReadInv == ASSUME KeysInv, NEW c \in Conns, Read(c) PROVE KeysInv'
<1>1. Now' = Now /\ Now \in 1..MaxWrites
  BY DEF Read, Now, KeysInv, KeysTypeOK
<1>2. KeysTypeOK'
  <2>1. at' \in [Conns -> Places] /\ kept' \in [Conns -> BOOLEAN]
    BY DEF KeysInv, KeysTypeOK, Read, Keep, Goto, Places
  <2>2. got' \in [Conns -> Ids]
    <3>1. Now \in Ids /\ got \in [Conns -> Ids]
      BY <1>1 DEF KeysInv, KeysTypeOK, Ids
    <3>2. got' = got \/ got' = [got EXCEPT ![c] = Now]
      BY DEF Read
    <3> QED
      BY <3>1, <3>2
  <2> QED
    BY <1>1, <2>1, <2>2 DEF KeysInv, KeysTypeOK, Read
<1>3. LockInv'
  BY DEF KeysInv, KeysTypeOK, LockInv, Read, Keep, Goto
<1>4. ReloadInv'
  BY <1>1 DEF KeysInv, KeysTypeOK, ReloadInv, Serves, Read, Keep, Goto, Ids, File
<1>5. FoundInv'
  BY <1>1 DEF KeysInv, KeysTypeOK, FoundInv, Serves, Read, Keep, Goto, Ids
<1> QED
  BY <1>2, <1>3, <1>4, <1>5 DEF KeysInv

(* The lock makes sure that no other lookup is between Lock and Find.        *)
LEMMA CommitInv == ASSUME KeysInv, NEW c \in Conns, Commit(c) PROVE KeysInv'
<1>1. Now' = Now /\ Now \in 1..MaxWrites
  BY DEF Commit, Now, KeysInv, KeysTypeOK
<1>2. KeysTypeOK'
  BY <1>1 DEF KeysInv, KeysTypeOK, ReloadInv, Commit, Goto, Ids, Places
<1>3. LockInv'
  BY DEF KeysInv, KeysTypeOK, LockInv, Commit, Goto
<1>4. ReloadInv'
  BY <1>1 DEF KeysInv, KeysTypeOK, LockInv, ReloadInv, Serves, Commit, Goto, Ids
<1>5. FoundInv'
  BY <1>1 DEF KeysInv, KeysTypeOK, FoundInv, Serves, Commit, Goto, Ids
<1> QED
  BY <1>2, <1>3, <1>4, <1>5 DEF KeysInv

LEMMA FindInv == ASSUME KeysInv, NEW c \in Conns, Find(c) PROVE KeysInv'
<1>1. Now' = Now /\ Now \in 1..MaxWrites
  BY DEF Find, Now, KeysInv, KeysTypeOK
<1>2. /\ key[c] \in Keys /\ configs[list.ver] \in Lists /\ list.ver \in 1..Now
      /\ Serves(c, list.ver)
      /\ configs[list.ver][key[c]] \in Devices \cup {NoDevice}
  BY DEF KeysInv, KeysTypeOK, ReloadInv, FoundInv, Find
<1>3. KeysTypeOK'
  BY <1>1, <1>2 DEF KeysInv, KeysTypeOK, Find, Goto, Ids, Places
<1>4. LockInv'
  BY DEF KeysInv, KeysTypeOK, LockInv, Find, Goto
<1>5. ReloadInv'
  BY <1>1 DEF KeysInv, KeysTypeOK, ReloadInv, Serves, Find, Goto, Ids
<1>6. FoundInv'
  <2>1. ASSUME NEW d \in Conns, d # c
        PROVE  /\ at'[d] = at[d] /\ found'[d] = found[d] /\ key'[d] = key[d]
               /\ \A v \in 1..Now : Serves(d, v)' <=> Serves(d, v)
    BY <2>1 DEF KeysInv, KeysTypeOK, Serves, Find, Goto
  <2>2. /\ at'[c] = "idle" /\ key'[c] = key[c]
        /\ found'[c] = configs[list.ver][key[c]] /\ Serves(c, list.ver)'
    BY <1>2 DEF KeysInv, KeysTypeOK, Serves, Find, Goto
  <2> QED
    BY <1>1, <1>2, <2>1, <2>2 DEF KeysInv, FoundInv, Find
<1> QED
  BY <1>3, <1>4, <1>5, <1>6 DEF KeysInv

LEMMA ForgetInv ==
    ASSUME KeysInv, NEW c \in Conns, at[c] = "idle", ForgetLookup(c) PROVE KeysInv'
<1>1. Now' = Now /\ Now \in 1..MaxWrites
  BY DEF ForgetLookup, Now, KeysInv, KeysTypeOK
<1>2. KeysTypeOK'
  BY <1>1 DEF KeysInv, KeysTypeOK, ForgetLookup, Ids
<1>3. LockInv' /\ ReloadInv' /\ FoundInv'
  BY <1>1 DEF KeysInv, KeysTypeOK, LockInv, ReloadInv, FoundInv, Serves, ForgetLookup, Ids
<1> QED
  BY <1>2, <1>3 DEF KeysInv

LEMMA KeysStutterInv == KeysInv /\ UNCHANGED keyVars => KeysInv'
BY DEF KeysInv, KeysTypeOK, LockInv, ReloadInv, FoundInv, Serves, keyVars, Now

(* Every step of every connection and channel, and every write by others.    *)
LEMMA ServerStepInv == ServerInv /\ [Next]_vars => ServerInv'
<1> SUFFICES ASSUME ServerInv, [Next]_vars PROVE ServerInv'
  OBVIOUS
<1>1. KeysInv
  BY DEF ServerInv, KeysInv, ServerTypeOK
<1>2. ASSUME KeysInv', ServerTypeOK', SessionInv' PROVE ServerInv'
  BY <1>2 DEF ServerInv, KeysInv
<1> DEFINE Typed == ServerTypeOK' /\ SessionInv'
<1>3. CASE WriteConfig /\ UNCHANGED serverVars
  <2>1. KeysInv'
    BY <1>1, <1>3, WriteConfigInv
  <2>2. Typed
    BY <1>3, <2>1 DEF ServerInv, ServerTypeOK, SessionInv, KeysInv, WriteConfig,
       lookupVars, serverVars, chanVars
  <2> QED
    BY <1>2, <2>1, <2>2
<1>4. ASSUME NEW c \in Conns, LookupStep(c), UNCHANGED serverVars PROVE ServerInv'
  <2>1. KeysInv'
    BY <1>1, <1>4, LockStepInv, ReadInv, CommitInv, FindInv DEF LookupStep
  <2>2. at[c] # "idle"
    BY <1>4 DEF LookupStep, Lock, Read, Commit, Find
  <2>3. phase[c] # "open"
    BY <2>2 DEF ServerInv, SessionInv
  <2>4. \A d \in Conns \ {c} : at'[d] = at[d] /\ found'[d] = found[d] /\ key'[d] = key[d]
    BY <1>4 DEF LookupStep, Lock, Read, Commit, Find, Keep, Goto, ServerInv, ServerTypeOK,
       KeysTypeOK
  <2>5. Typed
    BY <1>4, <2>1, <2>3, <2>4 DEF ServerInv, ServerTypeOK, SessionInv, KeysInv,
       serverVars, chanVars
  <2> QED
    BY <1>2, <2>1, <2>5
<1>5. ASSUME NEW c \in Conns, Offer(c) PROVE ServerInv'
  <2>1. PICK k \in Keys : Lookup(c, k)
    BY <1>5 DEF Offer
  <2>2. KeysInv'
    BY <1>1, <2>1, LookupInv
  <2>3. phase[c] # "open"
    BY <1>5 DEF Offer
  <2>4. \A d \in Conns \ {c} : at'[d] = at[d] /\ found'[d] = found[d] /\ key'[d] = key[d]
    BY <2>1 DEF Lookup, Goto, ServerInv, ServerTypeOK, KeysTypeOK
  <2>5. Typed
    BY <1>5, <2>2, <2>3, <2>4 DEF Offer, ServerInv, ServerTypeOK, SessionInv, KeysInv,
       serverVars, chanVars
  <2> QED
    BY <1>2, <2>2, <2>5
<1>6. ASSUME NEW c \in Conns, SignIn(c) PROVE ServerInv'
  <2>1. KeysInv'
    BY <1>1, <1>6, KeysStutterInv DEF SignIn
  <2>2. Typed
    BY <1>6, <2>1 DEF SignIn, Enters, ServerInv, ServerTypeOK, KeysTypeOK, SessionInv,
       KeysInv, keyVars, chanVars, Phases
  <2> QED
    BY <1>2, <2>1, <2>2
<1>7. ASSUME NEW c \in Conns, HandshakeFails(c) \/ HandleConnEnds(c) PROVE ServerInv'
  <2>1. at[c] = "idle" /\ Closes(c) /\ UNCHANGED chanVars
    BY <1>7 DEF HandshakeFails, HandleConnEnds, ServerInv, SessionInv
  <2>2. KeysInv'
    BY <1>1, <2>1, ForgetInv DEF Closes
  <2>3. Typed
    BY <2>1, <2>2 DEF Closes, ForgetLookup, Enters, ServerInv, ServerTypeOK, KeysTypeOK,
       SessionInv, KeysInv, chanVars, Phases
  <2> QED
    BY <1>2, <2>2, <2>3
<1>8. ASSUME NEW c \in Conns, Accept(c) \/ PeerLeaves(c) PROVE ServerInv'
  <2>1. KeysInv'
    BY <1>1, <1>8, KeysStutterInv DEF Accept, PeerLeaves
  <2>2. Typed
    BY <1>8, <2>1 DEF Accept, PeerLeaves, Enters, ServerInv, ServerTypeOK, SessionInv,
       KeysInv, keyVars, chanVars, Phases
  <2> QED
    BY <1>2, <2>1, <2>2
<1>9. ASSUME NEW h \in Chans,
             OpenChannel(h) \/ Dispatch(h) \/ ForwardEnds(h) \/ SessionStep(h)
      PROVE  ServerInv'
  <2>1. UNCHANGED <<keyVars, phase, peer, device>>
    BY <1>9 DEF OpenChannel, Dispatch, ForwardEnds, SessionStep, SessionEnds, ExecDenied,
       ExecStarts, CopyFails, CopyEnds
  <2>2. KeysInv' /\ SessionInv'
    BY <1>1, <2>1, KeysStutterInv DEF ServerInv, SessionInv, keyVars
  <2>3. chan' \in [Chans -> Stages] /\ ask' \in [Chans -> Asks \cup {NoAsk}]
    BY <1>9 DEF OpenChannel, Dispatch, ForwardEnds, SessionStep, SessionEnds, ExecDenied,
       ExecStarts, CopyFails, CopyEnds, Becomes, ServerInv, ServerTypeOK, Stages
  <2>4. ServerTypeOK'
    BY <2>1, <2>2, <2>3 DEF ServerInv, ServerTypeOK, KeysInv
  <2> QED
    BY <1>2, <2>2, <2>4
<1>10. CASE UNCHANGED vars
  <2>1. KeysInv'
    BY <1>1, <1>10, KeysStutterInv DEF vars
  <2>2. Typed
    BY <1>10, <2>1 DEF vars, ServerInv, ServerTypeOK, SessionInv, KeysInv, keyVars,
       serverVars, chanVars
  <2> QED
    BY <1>2, <2>1, <2>2
<1> QED
  BY <1>3, <1>4, <1>5, <1>6, <1>7, <1>8, <1>9, <1>10 DEF Next

(* The invariant on which the theorems below rest.                           *)
THEOREM ServerInvariant == Spec => []ServerInv
<1> QED
  BY ServerInitInv, ServerStepInv, PTL DEF Spec

(* Type correctness, for every number of connections, channels and writes;   *)
(* the list in memory is always one that parsed: a configuration file that   *)
(* is broken or missing never becomes the list.                              *)
THEOREM ServerTypeCorrect == Spec => []ServerTypeOK
<1>1. ServerInv => ServerTypeOK
  BY DEF ServerInv
<1> QED
  BY <1>1, ServerInvariant, PTL

(* A connection acts for the device that a list gives to a key its client    *)
(* has, a list no older than the lookup unless the file could not be read,   *)
(* however many connections reload at the same time.                         *)
THEOREM DeviceIsAlwaysTheKeys == Spec => []DeviceIsTheKeys
<1>1. ServerInv => DeviceIsTheKeys
  <2> SUFFICES ASSUME ServerInv, NEW c \in Conns, phase[c] = "open"
               PROVE  \E k \in Holds[c], v \in 1..Now :
                          /\ configs[v] \in Lists
                          /\ configs[v][k] = device[c]
                          /\ device[c] # NoDevice
                          /\ v >= asked[c] \/ kept[c] \/ ~hot
    BY DEF DeviceIsTheKeys
  <2>1. key[c] \in Holds[c] /\ device[c] = found[c] /\ device[c] # NoDevice
    BY DEF ServerInv, SessionInv
  <2>2. PICK v \in 1..Now : /\ configs[v] \in Lists
                            /\ configs[v][key[c]] = found[c]
                            /\ Serves(c, v)
    BY <2>1 DEF ServerInv, FoundInv
  <2> QED
    BY <2>1, <2>2 DEF Serves
<1> QED
  BY <1>1, ServerInvariant, PTL
=============================================================================
