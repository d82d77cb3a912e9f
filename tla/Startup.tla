------------------------------ MODULE Startup ------------------------------
(***************************************************************************)
(* The start of the gateway (src/main.go, main, up to the listener), step  *)
(* by step: the configuration (src/config.go), the source of the           *)
(* credential (src/credentials.go, newTokenSource), the SSH host key       *)
(* (src/sshfwd.go) and the CA (src/tlsterm.go).                            *)
(*                                                                         *)
(* Every log.Fatalf, and a crash at any place, puts the process down; the  *)
(* files stay as they are.  os.WriteFile empties the file first, so that a *)
(* crash before its end leaves a torn one.  Keys are numbered in the order *)
(* they are generated; the certificate of a CA has the number of its key.  *)
(***************************************************************************)
EXTENDS Integers

CONSTANTS
    Layers,     \* what a configuration file or the environment sets
    Worlds,     \* environments and files a gateway can be started in
    NoWorld,    \* not starting
    Missing,    \* no file
    Torn,       \* a file cut short, or one that does not parse
    MaxKeys     \* bound: keys of a kind that are generated

Switch == {"unset", "on", "off"}
KeyLists == {"unset", "good", "bad", "malformed"}
Settings == [oauth: BOOLEAN, credentials: BOOLEAN, refresh: Switch, keys: KeyLists]
CredentialFiles == {"none", "refreshable", "access only"}

ASSUME StartupAssumption ==
    /\ MaxKeys \in Nat
    /\ Missing \notin Int
    /\ Torn \notin Int
    /\ Missing # Torn
    /\ Layers \subseteq Settings
    /\ Worlds \subseteq
           [named: BOOLEAN,
            files: [{"named", "local", "example"} -> Layers \cup {Missing, Torn}],
            env: Layers,
            given: CredentialFiles,
            default: CredentialFiles,
            claude: BOOLEAN]
    /\ NoWorld \notin Worlds

VARIABLES
    pc,         \* where main is
    world,      \* what the starting process finds
    settings,   \* cfg, until main has used it
    source,     \* of the credential: "static", "given", "default"
    refreshing, \* the token source refreshes itself
    hostKey,    \* in memory: the host key, 0 if there is none yet
    ca,         \* in memory: the CA
    hostFile,   \* on disk: ssh.host_key
    caFile,     \* on disk: ssh.ca_key
    crtFile,    \* on disk: its .crt
    made,       \* the newest key of each kind
    learned     \* history: what devices were given of each kind, 0 if nothing

processVars == <<pc, world, settings, source, refreshing, hostKey, ca>>
fileVars == <<hostFile, caFile, crtFile>>
startupVars == <<processVars, fileVars, made, learned>>

Kinds == {"host", "ca"}
KeyIds == 0..MaxKeys
FileContents == {Missing, Torn} \cup 1..MaxKeys
NoSettings == [oauth |-> FALSE, credentials |-> FALSE, refresh |-> "unset", keys |-> "unset"]
Sources == {"none", "static", "given", "default"}
Stages == {"down", "config", "tokens", "host", "host empty", "keys", "ca", "ca empty", "crt", "crt empty", "up"}

StartupTypeOK ==
    /\ pc \in Stages
    /\ world \in Worlds \cup {NoWorld}
    /\ settings \in Settings
    /\ source \in Sources
    /\ refreshing \in BOOLEAN
    /\ hostKey \in KeyIds
    /\ ca \in KeyIds
    /\ hostFile \in FileContents
    /\ caFile \in FileContents
    /\ crtFile \in FileContents
    /\ made \in [Kinds -> KeyIds]
    /\ learned \in [Kinds -> KeyIds]

StartupInit ==
    /\ pc = "down"
    /\ world = NoWorld
    /\ settings = NoSettings
    /\ source = "none"
    /\ refreshing = FALSE
    /\ hostKey = 0
    /\ ca = 0
    /\ hostFile = Missing
    /\ caFile = Missing
    /\ crtFile = Missing
    /\ made = [k \in Kinds |-> 0]
    /\ learned = [k \in Kinds |-> 0]

----------------------------------------------------------------------------
(* main *)

(* log.Fatalf or a crash: what the process knew is lost.                     *)
Down ==
    /\ pc' = "down"
    /\ world' = NoWorld
    /\ settings' = NoSettings
    /\ source' = "none"
    /\ refreshing' = FALSE
    /\ hostKey' = 0
    /\ ca' = 0

Crash ==
    /\ pc # "down"
    /\ Down
    /\ UNCHANGED <<fileVars, made, learned>>

Start ==
    /\ pc = "down"
    /\ pc' = "config"
    /\ world' \in Worlds
    /\ UNCHANGED <<settings, source, refreshing, hostKey, ca, fileVars, made, learned>>

(* configFilePath                                                            *)
ConfigFile(w) ==
    IF w.named THEN w.files["named"]
    ELSE IF w.files["local"] # Missing THEN w.files["local"]
    ELSE w.files["example"]

(* applyEnvOverrides: an empty variable overrides nothing, nor does a list   *)
(* of keys that is not JSON.                                                 *)
Override(file, env) ==
    [oauth |-> env.oauth \/ file.oauth,
     credentials |-> env.credentials \/ file.credentials,
     refresh |-> IF env.refresh = "unset" THEN file.refresh ELSE env.refresh,
     keys |-> IF env.keys \in {"unset", "malformed"} THEN file.keys ELSE env.keys]

LoadConfig ==
    /\ pc = "config"
    /\ IF ConfigFile(world) \in {Missing, Torn}
       THEN Down
       ELSE /\ pc' = "tokens"
            /\ settings' = Override(ConfigFile(world), world.env)
            /\ UNCHANGED <<world, source, refreshing, hostKey, ca>>
    /\ UNCHANGED <<fileVars, made, learned>>

(* Whether enableRefresh succeeds with a credential file.                    *)
CanRefresh(file) == file = "refreshable" /\ world.claude

TakesSource(s, refreshes) ==
    /\ pc' = "host"
    /\ world' = NoWorld
    /\ source' = s
    /\ refreshing' = refreshes
    /\ UNCHANGED <<settings, hostKey, ca>>

TakesFile(s, file) ==
    IF file = "none" \/ (settings.refresh = "on" /\ ~CanRefresh(file))
    THEN Down
    ELSE TakesSource(s, settings.refresh # "off" /\ CanRefresh(file))

(* Fault: a static token wins over a credential file without a word.         *)
StaticWins ==
    /\ pc = "tokens"
    /\ IF settings.oauth
       THEN IF settings.refresh = "on" THEN Down ELSE TakesSource("static", FALSE)
       ELSE IF settings.credentials THEN TakesFile("given", world.given)
       ELSE TakesFile("default", world.default)
    /\ UNCHANGED <<fileVars, made, learned>>

NewTokenSource ==
    /\ pc = "tokens"
    /\ \/ settings.oauth /\ settings.credentials /\ Down
       \/ settings.oauth /\ ~settings.credentials /\ settings.refresh = "on" /\ Down
       \/ /\ settings.oauth /\ ~settings.credentials /\ settings.refresh # "on"
          /\ TakesSource("static", FALSE)
       \/ ~settings.oauth /\ settings.credentials /\ TakesFile("given", world.given)
       \/ ~settings.oauth /\ ~settings.credentials /\ TakesFile("default", world.default)
    /\ UNCHANGED <<fileVars, made, learned>>

----------------------------------------------------------------------------
(* newSSHServer *)

Goes(stage) ==
    /\ pc' = stage
    /\ UNCHANGED <<world, settings, source, refreshing>>

Generates(kind) ==
    /\ made[kind] < MaxKeys
    /\ made' = [made EXCEPT ![kind] = @ + 1]

(* Fault: a host key that cannot be read or parsed is replaced.              *)
ReplaceHostKey ==
    /\ pc = "host"
    /\ \/ /\ Generates("host")
          /\ hostKey' = made["host"] + 1
          /\ hostFile' = Torn
          /\ Goes("host empty")
       \/ /\ hostFile \notin {Missing, Torn}
          /\ hostKey' = hostFile
          /\ Goes("keys")
          /\ UNCHANGED <<hostFile, made>>
    /\ UNCHANGED <<ca, caFile, crtFile, learned>>

(* loadOrCreateHostKey: only a file that does not exist is generated, and    *)
(* the write has emptied it; one that cannot be read or parsed ends the      *)
(* start.                                                                    *)
LoadHostKey ==
    /\ pc = "host"
    /\ \/ /\ hostFile = Missing
          /\ Generates("host")
          /\ hostKey' = made["host"] + 1
          /\ hostFile' = Torn
          /\ Goes("host empty")
          /\ UNCHANGED ca
       \/ /\ hostFile # Missing
          /\ Down
          /\ UNCHANGED <<hostFile, made>>
       \/ /\ hostFile \notin {Missing, Torn}
          /\ hostKey' = hostFile
          /\ Goes("keys")
          /\ UNCHANGED <<ca, hostFile, made>>
    /\ UNCHANGED <<caFile, crtFile, learned>>

(* The .pub, which only people read, and a failure to write it are left out. *)
WriteHostKey ==
    /\ pc = "host empty"
    /\ hostFile' = hostKey
    /\ Goes("keys")
    /\ UNCHANGED <<hostKey, ca, caFile, crtFile, made, learned>>

(* newAuthorizedKeys.  The settings are not looked at after it.              *)
ParseKeys ==
    /\ pc = "keys"
    /\ \/ settings.keys = "bad" /\ Down
       \/ /\ settings.keys # "bad"
          /\ pc' = "ca"
          /\ settings' = NoSettings
          /\ UNCHANGED <<world, source, refreshing, hostKey, ca>>
    /\ UNCHANGED <<fileVars, made, learned>>

(* Fault: a CA that was loaded is not written to the .crt again.             *)
LoadCAOnly ==
    /\ pc = "ca"
    /\ IF caFile = Missing
       THEN /\ Generates("ca")
            /\ ca' = made["ca"] + 1
            /\ caFile' = Torn
            /\ Goes("ca empty")
       ELSE caFile # Torn /\ ca' = caFile /\ Goes("up") /\ UNCHANGED <<caFile, made>>
    /\ UNCHANGED <<hostKey, hostFile, crtFile, learned>>

(* loadOrCreateCA: the file has the certificate and the key.                 *)
LoadCA ==
    /\ pc = "ca"
    /\ \/ /\ caFile = Missing
          /\ Generates("ca")
          /\ ca' = made["ca"] + 1
          /\ caFile' = Torn
          /\ Goes("ca empty")
          /\ UNCHANGED hostKey
       \/ /\ caFile # Missing
          /\ Down
          /\ UNCHANGED <<caFile, made>>
       \/ /\ caFile \notin {Missing, Torn}
          /\ ca' = caFile
          /\ Goes("crt")
          /\ UNCHANGED <<hostKey, caFile, made>>
    /\ UNCHANGED <<hostFile, crtFile, learned>>

WriteCA ==
    /\ pc = "ca empty"
    /\ caFile' = ca
    /\ Goes("crt")
    /\ UNCHANGED <<hostKey, ca, hostFile, crtFile, made, learned>>

EmptyCrt ==
    /\ pc = "crt"
    /\ crtFile' = Torn
    /\ Goes("crt empty")
    /\ UNCHANGED <<hostKey, ca, hostFile, caFile, made, learned>>

(* The .crt is complete; the leaf certificate and the rest of main follow,   *)
(* and the listener runs.                                                    *)
WriteCrt ==
    /\ pc = "crt empty"
    /\ crtFile' = ca
    /\ Goes("up")
    /\ UNCHANGED <<hostKey, ca, hostFile, caFile, made, learned>>

----------------------------------------------------------------------------
(* Devices and the administrator *)

(* A device connects for the first time and notes the host key.              *)
LearnHostKey ==
    /\ pc = "up"
    /\ learned["host"] = 0
    /\ learned' = [learned EXCEPT !["host"] = hostKey]
    /\ UNCHANGED <<processVars, fileVars, made>>

(* A key is rotated: its file is removed while the gateway is down, and the  *)
(* devices are set up again.  The certificate need not be removed with it.   *)
RemoveHostKey ==
    /\ pc = "down"
    /\ hostFile # Missing
    /\ hostFile' = Missing
    /\ learned' = [learned EXCEPT !["host"] = 0]
    /\ UNCHANGED <<processVars, caFile, crtFile, made>>

RemoveCA ==
    /\ pc = "down"
    /\ caFile # Missing
    /\ caFile' = Missing
    /\ crtFile' \in {crtFile, Missing}
    /\ learned' = [learned EXCEPT !["ca"] = 0]
    /\ UNCHANGED <<processVars, hostFile, made>>

RemoveCrt ==
    /\ pc = "down"
    /\ crtFile # Missing
    /\ crtFile' = Missing
    /\ UNCHANGED <<processVars, hostFile, caFile, made, learned>>

StartStep ==
    \/ Start \/ LoadConfig \/ NewTokenSource
    \/ LoadHostKey \/ WriteHostKey \/ ParseKeys
    \/ LoadCA \/ WriteCA \/ EmptyCrt \/ WriteCrt

AdminStep == RemoveHostKey \/ RemoveCA \/ RemoveCrt

----------------------------------------------------------------------------
(* Properties *)

(* A serving gateway presents the host key and the CA that devices were      *)
(* given earlier, over any number of crashes and failed starts, as long as   *)
(* nobody removes the file; and the .crt is the certificate of its CA.       *)
IdentityIsKept ==
    pc = "up" =>
        /\ learned["host"] \in {0, hostKey}
        /\ learned["ca"] \in {0, ca}
        /\ crtFile = ca

(* A start goes on only with the credential that somebody named, whether in  *)
(* the file or in the environment, and with neither only with the default    *)
(* one; it refreshes itself if that was asked for, not if it was forbidden,  *)
(* and by default whenever it can.                                           *)
NothingIsIgnored ==
    [][LET file == ConfigFile(world)
           wanted == IF world.env.refresh = "unset" THEN file.refresh ELSE world.env.refresh
           content == IF source' = "given" THEN world.given ELSE world.default
       IN  pc = "tokens" /\ pc' = "host" =>
               /\ file.oauth \/ world.env.oauth <=> source' = "static"
               /\ file.credentials \/ world.env.credentials <=> source' = "given"
               /\ wanted = "on" => refreshing'
               /\ wanted = "off" => ~refreshing'
               /\ wanted = "unset" =>
                      (refreshing' <=> source' # "static" /\ CanRefresh(content))]_startupVars
=============================================================================
