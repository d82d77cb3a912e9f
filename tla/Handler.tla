------------------------------ MODULE Handler ------------------------------
(***************************************************************************)
(* The gateway's HTTP handler (src/main.go, handle and writeStatus;        *)
(* src/ratelimit.go) in a process that starts, serves and crashes as       *)
(* module Startup says.  The requests are those that come out of the       *)
(* tunnels (module Tunnel); each runs in a goroutine of its own.           *)
(*                                                                         *)
(* The token source is reduced to what a handler sees of it: get returns   *)
(* the current token, and recoverFrom401 nothing or the current token      *)
(* (modules TokenSource and Refresh say when).  Tokens are numbered.       *)
(***************************************************************************)
EXTENDS Startup, Routing, BlockedPaths

CONSTANTS
    Requests,   \* the requests that can be in the handler at a time
    Forms,      \* what a request looks like
    NoForm,     \* there is no request
    StatusPath, \* "/status"
    CAPath,     \* "/ca"
    MaxTokens,  \* bound: tokens the source has in a behaviour
    MaxSamples  \* bound: rate limit snapshots taken in a behaviour

ASSUME HandlerAssumption ==
    /\ Forms \subseteq
           [device: BOOLEAN, connect: BOOLEAN, absolute: BOOLEAN, host: Hosts,
            path: Seq(STRING)]
    /\ NoForm \notin Forms
    /\ MaxTokens \in Nat \ {0}
    /\ MaxSamples \in Nat

VARIABLES
    stage,      \* where handle is
    form,       \* the request that handle runs for
    inject,     \* the real token is put into it
    sent,       \* the token of the request that was sent upstream last
    open,       \* upstream answers whose body is not closed yet
    answers,    \* responses given to the client
    snapshot,   \* sampleRateLimit: w, by the time it was taken
    rateState,  \* the snapshot that /status shows, 0 if there is none
    token,      \* the token source's current token
    samples     \* snapshots taken so far

requestVars == <<stage, form, inject, sent, open, answers, snapshot>>
handlerVars == <<requestVars, rateState, token, samples>>
vars == <<startupVars, handlerVars>>

HandlerStages == {"none", "check", "body", "token", "send", "refused", "resend",
                  "sample", "store", "header", "stream", "done"}

HandlerTypeOK ==
    /\ stage \in [Requests -> HandlerStages]
    /\ form \in [Requests -> Forms \cup {NoForm}]
    /\ inject \in [Requests -> BOOLEAN]
    /\ sent \in [Requests -> 0..MaxTokens]
    /\ open \in [Requests -> 0..1]
    /\ answers \in [Requests -> 0..1]
    /\ snapshot \in [Requests -> 0..MaxSamples]
    /\ rateState \in 0..MaxSamples
    /\ token \in 1..MaxTokens
    /\ samples \in 0..MaxSamples

GatewayTypeOK == StartupTypeOK /\ HandlerTypeOK

Init ==
    /\ StartupInit
    /\ stage = [r \in Requests |-> "none"]
    /\ form = [r \in Requests |-> NoForm]
    /\ inject = [r \in Requests |-> FALSE]
    /\ sent = [r \in Requests |-> 0]
    /\ open = [r \in Requests |-> 0]
    /\ answers = [r \in Requests |-> 0]
    /\ snapshot = [r \in Requests |-> 0]
    /\ rateState = 0
    /\ token = 1
    /\ samples = 0

----------------------------------------------------------------------------
Goto(r, s) == stage' = [stage EXCEPT ![r] = s]
Still == UNCHANGED <<startupVars, token>>

(* A new request; the goroutine of the last one in its place has ended.      *)
Arrive(r) ==
    /\ pc = "up"
    /\ stage[r] \in {"none", "done"}
    /\ Goto(r, "check")
    /\ \E f \in Forms : form' = [form EXCEPT ![r] = f]
    /\ answers' = [answers EXCEPT ![r] = 0]
    /\ UNCHANGED <<inject, sent, open, snapshot, rateState, samples>> /\ Still

(* What handle decides on before it reads the body.                          *)
Turned(f) == ~f.device \/ f.connect
Injects(f) == ~f.absolute \/ IsMITMHost(f.host)
HostRefused(f) == ~Injects(f) /\ ~HostInList(f.host)
PathRefused(f) == Injects(f) /\ IsBlockedPath(f.path)

(* handle returns.                                                           *)
Returns(r) ==
    /\ Goto(r, "done")
    /\ form' = [form EXCEPT ![r] = NoForm]
    /\ inject' = [inject EXCEPT ![r] = FALSE]
    /\ sent' = [sent EXCEPT ![r] = 0]

Answered(r) == Returns(r) /\ answers' = [answers EXCEPT ![r] = @ + 1]

(* 403 without a device, 501 for CONNECT, 403 for another host or a closed   *)
(* endpoint.                                                                 *)
Reject(r) ==
    /\ stage[r] = "check"
    /\ \/ Turned(form[r])
       \/ /\ form[r].path \notin {StatusPath, CAPath}
          /\ HostRefused(form[r]) \/ PathRefused(form[r])
    /\ Answered(r)
    /\ UNCHANGED <<open, snapshot, rateState, samples>> /\ Still

(* writeStatus: the last snapshot, or an empty object.                       *)
WriteStatus(r) ==
    /\ stage[r] = "check"
    /\ ~Turned(form[r])
    /\ form[r].path = StatusPath
    /\ Answered(r)
    /\ UNCHANGED <<open, snapshot, rateState, samples>> /\ Still

(* The CA's certificate; a device that has none yet keeps it.                *)
ServeCA(r) ==
    /\ stage[r] = "check"
    /\ ~Turned(form[r])
    /\ form[r].path = CAPath
    /\ Answered(r)
    /\ learned' = [learned EXCEPT !["ca"] = IF @ = 0 THEN ca ELSE @]
    /\ UNCHANGED <<processVars, fileVars, made, open, snapshot, rateState, token,
                   samples>>

Admit(r) ==
    /\ stage[r] = "check"
    /\ ~Turned(form[r])
    /\ form[r].path \notin {StatusPath, CAPath}
    /\ ~HostRefused(form[r])
    /\ ~PathRefused(form[r])
    /\ Goto(r, "body")
    /\ inject' = [inject EXCEPT ![r] = Injects(form[r])]
    /\ UNCHANGED <<form, sent, open, answers, snapshot, rateState, samples>> /\ Still

ReadBody(r) ==
    /\ stage[r] = "body"
    /\ \/ Goto(r, "token") /\ UNCHANGED <<form, inject, sent, answers>>
       \/ Answered(r)
    /\ UNCHANGED <<open, snapshot, rateState, samples>> /\ Still

(* ensureFresh("") and get; no token goes to a host that is not injected.    *)
TakeToken(r) ==
    /\ stage[r] = "token"
    /\ Goto(r, "send")
    /\ sent' = [sent EXCEPT ![r] = IF inject[r] THEN token ELSE 0]
    /\ UNCHANGED <<form, inject, open, answers, snapshot, rateState, samples>> /\ Still

(* Fault: there is no return after the 502.                                  *)
SendFailsOn(r) ==
    /\ stage[r] \in {"send", "resend"}
    /\ Goto(r, "header")
    /\ answers' = [answers EXCEPT ![r] = @ + 1]
    /\ UNCHANGED <<form, inject, sent, open, snapshot, rateState, samples>> /\ Still

(* The first send or the replay fails: 502, or nobody is left to tell.       *)
SendFails(r) ==
    /\ stage[r] \in {"send", "resend"}
    /\ Answered(r)
    /\ UNCHANGED <<open, snapshot, rateState, samples>> /\ Still

(* The upstream's answer; only the first one to an injected request can lead *)
(* to a replay.                                                              *)
UpstreamAnswers(r) ==
    /\ stage[r] \in {"send", "resend"}
    /\ open' = [open EXCEPT ![r] = @ + 1]
    /\ \/ Goto(r, IF inject[r] THEN "sample" ELSE "header")
       \/ stage[r] = "send" /\ inject[r] /\ Goto(r, "refused")
    /\ UNCHANGED <<form, inject, sent, answers, snapshot, rateState, samples>> /\ Still

(* Fault: the body of the 401 stays open when the request is sent again.     *)
RecoverLeaks(r) ==
    /\ stage[r] = "refused"
    /\ \/ /\ source # "static"
          /\ token # sent[r]
          /\ sent' = [sent EXCEPT ![r] = token]
          /\ Goto(r, "resend")
       \/ Goto(r, "sample") /\ UNCHANGED sent
    /\ UNCHANGED <<form, inject, open, answers, snapshot, rateState, samples>> /\ Still

(* recoverFrom401 gives another token, and the request is sent again with    *)
(* it; or none, as always with a static one, or the same, and the 401 is     *)
(* passed on.                                                                *)
Recover(r) ==
    /\ stage[r] = "refused"
    /\ \/ /\ source # "static"
          /\ token # sent[r]
          /\ sent' = [sent EXCEPT ![r] = token]
          /\ open' = [open EXCEPT ![r] = @ - 1]
          /\ Goto(r, "resend")
       \/ Goto(r, "sample") /\ UNCHANGED <<sent, open>>
    /\ UNCHANGED <<form, inject, answers, snapshot, rateState, samples>> /\ Still

(* sampleRateLimit: the answer has rate limit headers or has none.           *)
Sample(r) ==
    /\ stage[r] = "sample"
    /\ \/ /\ samples < MaxSamples
          /\ samples' = samples + 1
          /\ snapshot' = [snapshot EXCEPT ![r] = samples + 1]
          /\ Goto(r, "store")
       \/ Goto(r, "header") /\ UNCHANGED <<snapshot, samples>>
    /\ UNCHANGED <<form, inject, sent, open, answers, rateState>> /\ Still

StoreSnapshot(r) ==
    /\ stage[r] = "store"
    /\ rateState' = snapshot[r]
    /\ snapshot' = [snapshot EXCEPT ![r] = 0]
    /\ Goto(r, "header")
    /\ UNCHANGED <<form, inject, sent, open, answers, samples>> /\ Still

WriteHeader(r) ==
    /\ stage[r] = "header"
    /\ Goto(r, "stream")
    /\ answers' = [answers EXCEPT ![r] = @ + 1]
    /\ UNCHANGED <<form, inject, sent, open, snapshot, rateState, samples>> /\ Still

(* teeStream ends with the body, an error of the upstream, or the client;    *)
(* the deferred Close follows.                                               *)
StreamEnds(r) ==
    /\ stage[r] = "stream"
    /\ Returns(r)
    /\ open' = [open EXCEPT ![r] = @ - 1]
    /\ UNCHANGED <<answers, snapshot, rateState, samples>> /\ Still

HandlerStep(r) ==
    \/ Arrive(r) \/ Reject(r) \/ WriteStatus(r) \/ ServeCA(r) \/ Admit(r) \/ ReadBody(r)
    \/ TakeToken(r) \/ SendFails(r) \/ UpstreamAnswers(r) \/ Recover(r)
    \/ Sample(r) \/ StoreSnapshot(r) \/ WriteHeader(r) \/ StreamEnds(r)

(* A credential file is rewritten, a refresh succeeds.                       *)
TokenChanges ==
    /\ pc = "up"
    /\ source # "static"
    /\ token < MaxTokens
    /\ token' = token + 1
    /\ UNCHANGED <<startupVars, requestVars, rateState, samples>>

(* The requests and the snapshot die with the process.                       *)
GatewayCrashes ==
    /\ Crash
    /\ stage' = [r \in Requests |-> "none"]
    /\ form' = [r \in Requests |-> NoForm]
    /\ inject' = [r \in Requests |-> FALSE]
    /\ sent' = [r \in Requests |-> 0]
    /\ open' = [r \in Requests |-> 0]
    /\ answers' = [r \in Requests |-> 0]
    /\ snapshot' = [r \in Requests |-> 0]
    /\ rateState' = 0
    /\ UNCHANGED <<token, samples>>

Next ==
    \/ (StartStep \/ LearnHostKey \/ AdminStep) /\ UNCHANGED handlerVars
    \/ GatewayCrashes \/ TokenChanges
    \/ \E r \in Requests : HandlerStep(r)

Spec == Init /\ [][Next]_vars

----------------------------------------------------------------------------
(* Properties *)

(* Whatever path handle takes, with or without a replay, a request has got   *)
(* one response and no body of the upstream is left open when it ends.       *)
OneAnswerNothingOpen ==
    \A r \in Requests :
        stage[r] = "done" => open[r] = 0 /\ answers[r] = 1

(* The host is the one whose requests get the real token.                    *)
TokenHost(f) == ~f.absolute \/ f.host.name = "forged"

(* Whatever the answers and replays, the real token never goes upstream for  *)
(* an endpoint that the list closes, however the path is spelled, nor to a   *)
(* host that is passed through; and handle turns a device's request away     *)
(* before it reads the body only from a closed endpoint or for a host that   *)
(* is on no list, so that the list closes nothing beside what it names.      *)
OnlyListedIsBlocked ==
    /\ [](\A r \in Requests :
             sent[r] # 0 => TokenHost(form[r]) /\ ~Listed(form[r].path))
    /\ [][\A r \in Requests :
             LET f == form[r]
             IN  /\ stage[r] = "check" /\ stage'[r] = "done"
                 /\ f.device /\ ~f.connect /\ f.path \notin {StatusPath, CAPath}
                 => IF TokenHost(f) THEN Listed(f.path)
                    ELSE f.host.name = "other" \/ (f.host.name = "wildcard" /\ ~f.host.lower)
         ]_vars
=============================================================================
