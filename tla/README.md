# A TLA+ verification of claude-credential-gateway

`claude-credential-gateway` keeps the one real subscription credential on a gateway. Devices run
Claude Code with a placeholder credential. A local splitting proxy on the device sends the
Claude-related hosts over one SSH connection to the gateway, which decrypts `api.anthropic.com`,
replaces the placeholder with the real token, and relays the other listed hosts as they are.
The gateway also keeps the credential fresh, by running `claude auth login` as a child.

This directory holds TLA+ models of the parts in which order, failure and timing matter, the TLC
configurations that check them on small instances, and TLAPS proofs for all instances.
`PROJECT.json` lists components, runs, mutants, hazards, findings and theorems, and maps each
definition to the source lines it stands for.

## 1. Inventory

| component | state | operations | interacts with | what makes it correct |
|---|---|---|---|---|
| token source (`credentials.go`) | token, refresh token, scopes, mtime, `lastStat` under `mu`; `reloadMu` | `get`, `maybeReload`, `reload`, `reloadNow` | the credential file, written by claude, cron or a human; every handler and the watcher | memory follows the file: no lost change, no step back, no torn content, a 401 recovered by what is in the file now |
| expiry warnings (`credentials.go`) | two ladders with a stage each | `checkExpiry`, `newlyCrossed`, rebuilt by `reload` | the watcher | each stage is announced, once |
| self-refresh (`refresh.go`) | `refreshMu`, `lastRefresh`, `backoff` | `ensureFresh`, `runRefresh`, `refreshCooldown`, `noteRefreshDone` | a child process, the OAuth server behind it, the file, the token source | one child at a time, forks spaced, a spent refresh token not presented again, no request held up needlessly |
| request handler (`main.go`) | locals of a request | check, send, recover from a 401, replay once, stream | token source, upstream | replay only with a newer token; every request ends |
| device SSH link (`device.go`) | `client`, `nextTry`, `backoff` under `mu`; per connection a keepalive loop and a `Wait` | `Dial`, `connect`, `drop`, `keepAlive` | the gateway's SSH server | no leaked connection, a new one is not dropped for an old one, the backoff holds, dead connections are found |
| device proxy (`device.go`) | per connection: a buffer, two copying goroutines | `handle`, `connect`, `plain`, `pipe` | the client, the SSH link, targets | right route, bytes intact, one answer, all closed at the end |
| gateway tunnel layer (`sshfwd.go`) | per channel: a buffer, a guard timer; the channel listener | `acceptForward`, `serveTunnelConn`, `push`, `Accept` | SSH channels, the HTTP server | bytes intact, silent channels do not stay |
| gateway CONNECT handling (`proxy.go`) | the host lists; two copying goroutines | `handleConnect`, `relay` | targets, the HTTP server | only the forged host is decrypted, others relayed or refused |
| SSH server (`sshfwd.go`) | connections, sessions | `handleConn`, `handleSession`, `execCommand` | devices | forwarding and one fixed command only |
| authorized keys (`sshfwd.go`) | key map, mtime | `lookup`, `maybeReload` | `config.yaml` | follows the file, keeps the old list on a bad file |
| rate limit (`ratelimit.go`) | one atomic pointer | `sampleRateLimit` | handlers, `/status` | the newest sample wins |
| blocked paths (`proxy.go`) | none | `isBlockedPath` | the handler | a blocked endpoint is blocked in every spelling |
| TLS and key store (`tlsterm.go`, `sshfwd.go`) | key files | create or load | the file system | a crash while creating does not leave a key nobody can use |
| configuration (`config.go`, `main.go`) | none | load, override, default, choose the credential source | environment, files | one source, explicit settings obeyed |
| logging, usage parsing, scripts | none | formatting, parsing, setup | | not about state |

What is hard here: goroutines that reload one file while others write it; a lock held across a
child process and two more locks; several goroutines that may each decide that a shared connection
is dead; timers that close a connection under the goroutine that uses it; bytes buffered in two
places before the real stream starts; two independent decisions about one route.
`PROJECT.json` lists each such place as a hazard with the properties that cover it.

## 2. Modules

```
TokenSource <---------------- Refresh --INSTANCE--> RefreshPromise (abstract)
     ^                           ^
TokenSourceProofs <------ RefreshProofs

SSHLink <- SSHLinkProofs                        the device's SSH connection
AuthorizedKeys <- SSHServer <- SSHServerProofs  the gateway's SSH server
Routing <- Tunnel --INSTANCE--> TunnelPromise (abstract)    one connection through both proxies
             ^
           TunnelProofs <- TunnelPromiseProofs
Startup, Routing, BlockedPaths <- Handler <- GatewayProofs   the gateway's process
ExpiryWatch <- ExpiryWatchProofs

MCTokenSource, MCRefresh, MCSSHLink, MCSSHServer, MCTunnel, MCGateway, MCExpiryWatch :
    values of the constants for TLC
```

An arrow points from a module to one it EXTENDS (`a <- b`: b extends a).

### TokenSource

One step is a section under `t.mu`, or one system call. `disk` is the file: the number of the
write and its content (a credential, a refused content, no file). `mem` is what `reload` commits:
the mtime from its `os.Stat`, the write it has read, the credential. `op` and `step` tell which
call a goroutine is in and where: `Throttle` is the section of `maybeReloadThrottled`, `Stat` and
`Compare` are `maybeReload`, `Lock`, `Read` and `Commit` are `reload`, `Load` is the end of `get`.
A failed `Stat`, a missing file or a refused content take the code's early returns. The reload at
startup may have met a write between its stat and its read: `TokenInit` has those states, too.

Assumption, here and in `AuthorizedKeys`: two writes of the file never carry the same mtime. On a
file system with coarse timestamps two writes in one tick can; then a change can stay unseen until
the next 401.

### Refresh and RefreshPromise

`Refresh` extends `TokenSource` and runs its calls as subroutines: `at` is a goroutine's place in
`watch`, `handle`, `ensureFresh` or `runRefresh`; while `op` is not `"none"` the goroutine is inside
a call of the token source. Handlers `Arrive`, check (`TryLock`, `Recheck`), send, may get a 401 for
any token (`Unauthorized`), recover (`LockRefresh`, `CompareStale` or `ReloadNow`) and send again
at most once (`Replay`). `Fork` is the cooldown, the snapshot and the start of the child. The child
and the server are environment: `ServerRotates` takes only the newest refresh token, the child may
truncate before it writes, exit with 0 having done nothing or only half of it, be killed at any
point, or write after somebody else has logged in on the same file in between.

Time: one tick is 30 s, `refreshBackoffMin`. `elapsed` counts ticks since `lastRefresh` up to the
largest bound it is compared with. Credentials are numbers in the order of issue, and expire in that
order; `aged` is the newest that is within `refreshMargin` of its expiry. `Foreign` are the contents
that others put into the file besides a fresh login: a torn one in `refresh_live`, none in the other
runs; an old credential put back is in no run, and covered by the theorems about `ReplayIsNewer` and
`SuccessIsRecognized`.

`RefreshPromise` says what a user of the token may rely on: one attempt at a time, a rest between
attempts, memory that moves forward and never ahead of the file. `Refresh` implements it under the
mapping given with `Promise`: an attempt is running while its goroutine is in `wait` or `verify`.

### ExpiryWatch

The two ladders of warnings. `access` and `refresh` are the two `expiryWatch` values of the code: a
deadline (0 when the file does not tell it) and the number of stages passed. `CheckExpiry` and the
commit of `reload` are sections under `t.mu` and one step each; the watcher's round
(`WatchWakes`, `WatchReloads`, `WatchRefreshes`, `WatchChecks`) keeps the order of `watch`, and
handlers reload or refresh between any two of its steps. How a reload reads the file is the subject
of `TokenSource`. A refresh gives a new deadline to the access token and none to the refresh token,
which only a login does.

### SSHLink

The device's connection to the gateway. One step is a section under `l.mu`; `connect` keeps `l.mu`
over `ssh.Dial`, so a dial has a beginning (`Connect`) and an end (`DialSucceeds`, `DialFails`).
Connections are numbered as they are dialled; each has its transport (`up`, `dead` without anybody
knowing, `broken`, `closed`), its `keepAlive` goroutine (`pinger`) and its goroutine in `Wait`
(`waiter`). `drop` is two steps, `Forget` under the lock and `Close` after it. One tick is 1 s.

### AuthorizedKeys and SSHServer

`AuthorizedKeys` is the list of device keys with its hot reload. `configs` is everything the
configuration file has held; a place in that sequence is an mtime. `list` is what memory has: the
mtime of the last successful reload (`stat`) and the write whose list it is (`ver`). One call of
`lookup` is `Lookup`, `Lock`, `Read`, `Commit` or `Keep` (`reloadFailed`), `Find`: the stat, the read
and the commit are separate system calls under `a.mu`, and the file may be rewritten, half saved or
removed between any two. With keys from the environment (`a.path` empty) `hot` is FALSE and nothing
is read again.

`SSHServer` is `serve` to `acceptForward` for many connections at a time. A handshake (`Accept`,
`Offer`, `SignIn`, `HandshakeFails`) offers any of the client's keys in any order, repeatedly; the
library keeps the permissions of the last one offered and wants its signature, so `SignIn` uses that
one. `Dispatch` sorts channels by type and permitted target; a forward channel opens and ends, a
session is refused (`ExecDenied`) or serves the one command (`ExecStarts`, then `CopyEnds` or
`CopyFails`). `PeerLeaves` is possible at any point, and `HandleConnEnds` is the end of the loop over
the channels. What a forward channel then carries is `Tunnel`.

### Routing and Tunnel

`Routing` holds the two decisions about a host: the device's map (`ViaGateway`) and the gateway's
matching (`IsMITMHost`, `HostInList`). A host is its place in the lists and whether it is in lower
case, which is all the two can tell apart.

`Tunnel` is one connection from the client's first byte to its end. Bytes travel in the pieces that
the code tells apart (first byte, rest of the eight-byte prefix, rest of the head, what follows) and
a read returns any number of those that have arrived. The device's goroutine (`dev`), the gateway's
(`gw`), the guard timer and the four copying goroutines of `pipe` and `relay` are interleaved. Any
link may close at any moment. The client may open through the device's proxy, or with CONNECT, TLS
or plain HTTP on a channel of its own. A reader of a link that has been closed may or may not still
get what was on its way. A 200 written to a link that has just closed is like one that was on its
way. After a close on this side the local reader finds the end at once or after what was on its way.
For a TCP connection that is what `net.Conn` says; for an SSH channel it is an assumption about
`x/crypto/ssh`, where a local `Close` sends a message and a read under way ends when the peer
answers it or the connection under it dies. `SilenceIsBounded` and `AllIsTakenDown` rest on it (with
a peer that neither answers nor dies such a read lasts as long as TCP keeps the connection); the
safety properties do not, since the reader may as well go on reading what was on its way.

`TunnelPromise` is what all of this is to the two ends, without links, buffers and goroutines: a call
with its CONNECT (`head`) and what follows it (`request`), the server it is meant for, and whether it
is to be refused. `Reach` happens only once the whole CONNECT has been said, and only to the server
the call is meant for (a CONNECT that breaks off half way is read as plain HTTP by the gateway's own
server, as in the code); `Deliver` hands that server what was said, in order; `Established`,
`Refused` and `Failed` are the one answer to a CONNECT, and after `Refused` or `Failed` no server is
reached any more; `Hear` is the server's reply, after the answer and after the server gave it.
`Tunnel` implements it under the mapping given with `Promise`: said is what the client has sent, the
server and what it got are the endpoint and what it has read, heard is what the client has read. Which
server a call is meant for and whether it is refused is said of the host itself (`Call`), not with
`IsMITMHost` or `Permitted`, so that a matching rule that mistakes a spelling breaks the promise.

### Startup, BlockedPaths and Handler

`Startup` is `main` up to the listener, one step (`pc`) per decision or file. A start takes place in
a `world`: which configuration files are there and what they and the environment set, which
credential files exist, whether a `claude` can be found. `ConfigFilePath`, `Override` and
`NewTokenSource` are the choices; `LoadHostKey`, `WriteHostKey`, `LoadCA`, `WriteCA`, `EmptyCrt`,
`WriteCrt` are the key files. `os.WriteFile` empties a file before it writes it, so that a crash in
between leaves a torn one. Every `log.Fatalf` and every crash is `Down`; files survive. While the
gateway is down the administrator may remove key files (`RemoveHostKey`, `RemoveCA`, `RemoveCrt`),
which is how keys are rotated. Keys are numbered as they are generated; `learned` is what devices
have been given since then: the host key they pinned, the CA they trust.

`BlockedPaths` is `isBlockedPath` on segments: `Clean` is `path.Clean`, `Matches` is `path.Match`
(a `*` is a whole segment, as in every entry of the list), `IsBlockedPath` the walk upwards. The
reference definition has no stack and no walk: a path is blocked iff the segments that no later
`..` takes away begin with a listed pattern (`Listed`).

`Handler` is `handle` in a process that starts, serves and crashes: `Arrive`, `Reject`,
`WriteStatus`, `ServeCA`, `Admit` (host, path and the choice between injecting and passing on),
`ReadBody`, `TakeToken`, `SendFails`, `UpstreamAnswers`, `Recover` (the one replay after a 401),
`Sample` and `StoreSnapshot` (`sampleRateLimit`), `WriteHeader`, `StreamEnds`. `TokenChanges` is all
a handler sees of the token source, and `GatewayCrashes` ends every request. `OnlyListedIsBlocked`
ties the handler to the list: a request that has been sent with the token names a path that is not
`Listed` at the host whose requests get the token (`TokenHost`), and a step from the check straight to
the end turns a device's request away only if its path is listed or its host is on no list. `TokenHost`
and `Listed` are said of the request, without the model's `Injects`, `PathRefused`, `IsBlockedPath`.

## 3. Runs

| run | instance | what it shows | states |
|---|---|---|---|
| `token_source` | a handler and the watcher, 2 credentials, 3 writes | overlapping reloads: no step back, no undetectable change, a recovery is current; every valid content is picked up, every call returns | 124 k |
| `refresh` | a handler and the watcher, 3 credentials, 3 writes, interval 2, backoff 2 to 3 | single flight, spacing, no spent token again, a success is recognised, a replay is newer, refinement of `RefreshPromise` | 4.7 M |
| `refresh_live` | the same two, 2 credentials, 2 writes, a torn file, a credential that cannot be refreshed | requests end, a routine check does not wait | 126 k |
| `refresh_stale_token` | 2 credentials, 2 writes | expected to fail: finding 1 | |
| `ssh_link` | 2 requests, 2 connections, 2 probes, backoff up to 3 | the safety properties of the link | 1.3 M |
| `ssh_link_live` | 1 request, 2 connections, 1 probe | every `Dial` returns, dead connections are collected | 14 k |
| `ssh_server` | 2 connections (one client with both keys) with a channel of any type each, 2 lists, a file rewritten once | a connection acts for a device that a recent list gives its key; who leaves leaves nothing behind | 185 k |
| `revoked_device` | as `ssh_server` | expected to fail: finding 5 | |
| `tunnel` | all four openings, 5 hosts, 2 pieces per link | bytes, answers, routes, that everything is taken down, and refinement of `TunnelPromise` | 0.25 M |
| `routes_disagree` | openings through the proxy | expected to fail: finding 2 | |
| `expiry_watch` | 3 stages each, 8 moments, 1 login, refresh on and off | each check tells the tightest stage passed, no stage is lost | 26 k |
| `gateway` | 2 requests, 2 keys of each kind, 2 tokens, 2 samples, 1440 worlds of files and environment; 14 forms of a request, closed paths in four spellings | identity outlives crashes, the named credential is used, one answer and nothing left open, the token goes to no closed path and to no other host | 3.5 M |

Bounds. The writes of a file are counted with the one that is there at the start. A race of two
reloads needs two goroutines and one rewrite; two rewrites fall into any two of the windows stat to
read, read to commit and commit to the next stat, and make an older, a newer and the newest content.
Three credentials are the first, the one a child brings, and one that somebody else logs in for
before the child writes. Interval and backoff of 2 and 3 ticks make the one bound larger than the
other in either order and the doubling pass over the cap, as 30 s, 1, 2, 4, 8 (5) min does. Two SSH
connections are an old and its replacement, two requests let one replace what the other still drops.
One rewrite of the key list, to another list, to a half saved file or to none, falls into every
window of a lookup and of a handshake, before or after the other connection's; what longer histories
of the file could do is the subject of the theorem about `DeviceIsTheKeys`. Two keys of a kind are
the one before and the one after a rotation; a crash at any step of the first start comes before.
The paths of requests have a pattern as it is, with an empty segment, behind a detour over `..`, and
with more segments after it, and one that leaves the pattern again; all paths are the subject of a
theorem. A window of two pieces is smaller than every opening, so writers block. In `ExpiryWatch`
the first stages lie closer together than a check may take, and a refresh token lives longer than an
access token, so that stages are passed together and a ladder is restarted under the same deadline.
`MaxWrites`, `MaxCred`, `MaxConns`, `MaxKeys`, `MaxTokens`, `MaxSamples`, `MaxLogins` and `Horizon`
are the named bounds; the theorems hold for all values of those they concern.

Symmetry is used over requests in `ssh_link` and `gateway`, which check no liveness.

Deadlock is checked except in `Tunnel` and `SSHServer`, where connections come to their end.

Fairness. Goroutines are scheduled (weak fairness of their steps); a Go mutex hands itself to a
waiter that has starved for a millisecond, so taking a lock is strongly fair; the watcher's ticker
makes it come back. In `Refresh` the upstream answers (`ResponseHeaderTimeout`), and nothing is
assumed of the child: `RequestsEnd` itself says "if every child ends". In `SSHLink` handshakes end,
which the code does not ensure after the TCP connect (a hazard). In `SSHServer` a client that has
gone makes its handshake fail and its tunnels and sessions end, which is what the library does when
the TCP connection is lost; nothing is assumed of a client that stays, so a handshake may take for
ever (a hazard). In `Tunnel` a close ends the reads of the closed link (see there), dials end
(`dialTimeout`), the guard timer fires and client and target read what arrives; nobody is assumed to
send or to close. In `ExpiryWatch` the ticker wakes the watcher and a round of it ends, which with
self-refresh means that a child it starts ends.

Every property of a passing run has a mutant: a definition replaced by a faulty one that stands
before it in the module (`Fault:` in its comment), under which TLC finds the property violated.

## 4. Theorems

For all sets of goroutines, credentials, requests, connections, keys, lists, hosts and worlds, and
for all bounds. Each module proves an inductive invariant and concludes the stated properties:

* **TokenSourceProofs.** `TokenInv`: type correctness; which steps belong to which call
  (`ControlInv`); between stat and commit a goroutine holds `reloadMu` (`LockInv`); memory's mtime is
  not ahead of its content, nor its content of the file (`MemInv`); what the holder of the lock
  carries is not older than memory (`CarriedInv`); a `reloadNow` never loses the file as it was at
  the call (`AskedInv`). The stated invariants alone are not inductive: whether `Commit` moves
  memory back depends on what the lock's holder has read and on memory not having changed since.
  From it follow `ChangeIsDetectable`, `RecoveryIsCurrent`, `MemoryNeverGoesBack`.
* **RefreshProofs.** Every step of `Refresh` is a step of `TokenSource` or leaves it alone
  (`RefreshIsATokenSource`), so the theorems above hold of the composition. `RefreshInv` adds that
  who is in the critical section holds `refreshMu`, that a child belongs to the goroutine in `wait`,
  and how the clocks relate. From it: `OneChildAtATime`, `RefreshesAreSpaced` and the refinement
  `ImplementsPromise`. `HeldInv` is the converse of the lock parts: a lock that is taken has its
  holder inside the section, so that no early return leaves it taken; and who waits for `refreshMu`
  is in no call. From it `NobodyWaitsInACircle`: who holds `reloadMu` waits for no lock, who holds
  `refreshMu` at most for `reloadMu` or its child (`mu` is held within a step only). `HistoryInv`
  adds to `RefreshInv` which write each token in a request is from (`GotInv`, `FromInv`) and that, as
  long as the file is as a child has left it, the reload that follows finds what the child wrote
  (`WroteInv`); from it `ReplayIsNewer` and `SuccessIsRecognized`, whatever others write. `UniqueInv`
  adds that each credential is written once (`OnceInv`) and that one that has left memory is in no
  place it could come back from: not in the file, not in a reload under way, not with a child
  (`PassedInv`). From it `SpentTokenStaysSpent`, under the premise that others write credentials only
  as fresh logins (`Foreign \cap Creds = {}`); with an old file put back it is false, as it should
  be.
* **ExpiryWatchProofs.** `ExpiryInv`: a stage that was told has been passed under the deadline of
  memory (`ToldInv`). As ladders decrease, the stage that a check tells is the tightest of those
  passed: `ToldIsTightest`.
* **SSHLinkProofs.** `LinkInv`: `l.mu` is held exactly by the request that dials and then there is no
  current connection (`MuInv`); connections beyond `dialed` do not exist and have no goroutines
  (`ConnInv`); who has passed its `Forget` is on a connection that is not the current one
  (`DropInv`); the backoff and the time since the failed dial (`BackoffInv`). From it:
  `NoConnectionLeaks`, `RetryIsFresh`, `NewConnectionIsSpared`, `DialsAreSpaced`.
* **SSHServerProofs.** `ServerInv`: who reads the file holds `a.mu` (`LockInv`); what it carries is
  not older than the list and parses if it is committed (`ReloadInv`); what a lookup found is what a
  list since its start says of the key (`FoundInv`); an established connection has the device of a
  key its client holds (`SessionInv`). From it `DeviceIsTheKeys`.
* **TunnelProofs.** `TunnelInv`: type correctness; which goroutine is where, and what it has decided
  (`PlaceInv`, `EndpointInv`); and `OrderInv`: from the endpoint back to the client, what has been
  delivered, the links `g2t`, `d2g`, `c2d`, the buffers `gwBuf` and `devBuf` and what the client has
  not sent yet are consecutive segments of what the client has to say, as long as somebody still
  reads them. The endpoint of a CONNECT skips its head. The order of the bytes delivered is not
  inductive without it, since a buffer or link out of order shows only when it is read. From it:
  `BytesArriveInOrder`, `OnlyForgedIsDecrypted`, and that the gateway refuses no host the device's
  proxy sends to it (`RoutedHostsAreServed`). The second part is the same argument for the way back.
  `AnswerInv`: what the client has read and what is on `d2c`, `g2d` and `t2g` are consecutive
  segments of one script, which is the one answer and, after a 200, the reply, as long as somebody
  passes them on (`AnswerOrder`); they are as many as device, gateway and endpoint have given
  (`AnswerCount`); and who may answer is told by where the goroutines are (`AnswerPlace`). From it
  `OneAnswerFirst`, which alone says nothing of an answer that is still under way.
* **TunnelPromiseProofs.** The refinement `KeepsPromise`. Its `PromiseInv` adds to the two above that
  nobody holds a piece that has not been said (`SaidInv`); that nobody is at an endpoint, past the
  CONNECT or at an answer before the whole CONNECT has been said (`AskedInv`); that the gateway gets
  nothing as long as the device has no pipe, so that a call that was told to have failed reaches no
  server (`BrokenInv`); that who has not come to the CONNECT has not answered it (`SilentInv`); and
  that no reply is under way that was not given (`KnownInv`). Each step then maps to a step of
  `TunnelPromise` or to a stutter, one lemma per step that the two ends can see.
* **GatewayProofs.** `GatewayInv`: the host key and the CA of a process past their stage are on disk,
  whole, and what devices have learned (`HostKeyInv`, `CAInv`); a stage of `main` is reached only
  with settings that its world gives (`WorldInv`); each stage of a request says how many answers are
  open and how many responses are given (`RequestInv`). From it: `IdentityIsKept`,
  `NothingIsIgnored`, `OneAnswerNothingOpen`. Blocked paths need first an argument about the data, for
  every list and paths of every length: `path.Clean` leaves the names that no later `..` takes away
  (`CleanKeepsWhatStays`), so that the walk finds a pattern iff what stays begins with one
  (`TheWalkDecides`). `DecisionInv` then says of each request past the check that what was decided is
  right for its host and path, whatever happens to other requests, the token and the process; with
  `GatewayInv` it is inductive, and `OnlyListedIsEverBlocked` concludes both parts of
  `OnlyListedIsBlocked`. As the library's induction theorems cannot be used, the induction over the
  segments is an argument by the least counterexample, with the library's theorem that `<` is
  well-founded on the naturals.

The assumptions are those named in the modules (`DistinctAssumption`, `MaxWritesAssumption`,
`RefreshAssumption`, `ExpiryAssumption`, `LinkAssumption`, `KeysAssumption`, `ServerAssumption`,
`TunnelAssumption`, `PathAssumption`, `StartupAssumption`, `HandlerAssumption`), which say what the
constants are, and the environment assumptions above.

Every safety property and both refinements that a passing run checks are proved. Only model-checked
are the liveness properties, as fairness and ENABLED are beyond the prover: `ChangeIsPickedUp`,
`CallsReturn`, `RequestsEnd`, `RoutineDoesNotWait`, `EveryDialReturns`,
`DeadConnectionsAreCollected`, `SilenceIsBounded`, `AllIsTakenDown`, `PassedIsTold` and
`GoneIsForgotten`. `RoutedHostsAreServed` is proved and not run by itself: a host that the device's
proxy sends on is not to be refused in `TunnelPromise`, and `KeepsPromise` is checked. Nor is
`NobodyWaitsInACircle`, the safety half of what `CallsReturn` and `RequestsEnd` check.

## 5. Findings

1. The child gets the refresh token that memory holds, not the file's (README.md:163 says it is read
   again each time): run `refresh_stale_token`.
2. `*.mcp.claude.com` goes through the gateway according to `proxy.go` and README.md:243, and the
   device, which looks names up exactly, dials those hosts itself (device.go:90 says that the two
   cannot disagree): run `routes_disagree`.
3. config.go:39 gives another default of `upstream.refresh` for the fallback credential than
   credentials.go:132-135, 175.
4. Each reload restarts both ladders of expiry warnings, so the 7, 3 and 1 day warnings come again
   after every refresh (credentials.go:31 and README.md:203 say once).
5. A device removed from the list keeps its connection and opens new channels on it until it
   disconnects (README.md:592 and add-device.sh:12 say that the removal takes effect at once): run
   `revoked_device`.
6. `GATEWAY_SSH_AUTHORIZED_KEYS` that is not JSON is dropped silently (config.go:121): the file's
   list is used, and its hot reload is off because the variable is set (main.go:109-110).
7. Two answers that arrive together may store their rate limit snapshots in the other order
   (ratelimit.go:64); ratelimit.go:33 calls what is stored the most recent.
8. `/status` and `/ca` are answered before the host of an absolute-form request is looked at
   (main.go:178), so these two paths of a host that main.go:194 says is passed on are not.

## 6. Not modelled, and why

* The device's `plain` path: three `http.Transport`s whose behaviour is the standard library's; only
  the choice between them (`viaGateway`) is the program's, and that is in `Routing`.
* Contents of HTTP messages and headers, the placeholder's shape, parsing of usage and rate limit
  headers, log formats (data, no shared state).
* TLS and SSH cryptography, taken as correct: a certificate is a number, a signature is made by who
  has the key. A TLS leaf is made once at the start and not written. The `.pub` beside the host key
  is read by nobody in the code.
* A connection in the gateway's HTTP server, between the bytes it receives (`Tunnel`) and its
  requests (`Handler`): `net/http`.
* The setup scripts, run by hand; what they write is an input of `AuthorizedKeys` and `Startup`.

## 7. What is left

* A promise for `SSHLink` (a user gets a channel on a connection that was current, or an error) and
  one for the lookup of keys (an answer out of a list the file has held since the call), refined.
* `plain` as a fourth opening of `Tunnel`, with a connection pool that may hand out a tunnel the
  gateway has already closed.
* The end of a response in `Handler` in more detail: a client that leaves while the body is copied,
  and an upstream that stops in the middle, are both `StreamEnds` now.
