------------------------------ MODULE HorsCall ------------------------------
(***************************************************************************)
(* A call from the client's side: hors call in a terminal ("tty") or in a  *)
(* pipe ("pipe"), and hors_call of the MCP bridge ("mcp"), composed with   *)
(* the vault they borrow from (HorsVault).                                 *)
(*                                                                         *)
(* Between them stands the gate of hors-server, of which only what it      *)
(* promises (HorsServer) is modelled: it answers a call with a challenge   *)
(* and a request state that expires, and redeems the state once.  The      *)
(* state a call is challenged with is identified with the call.            *)
(*                                                                         *)
(* Time passes in ticks that no step may outlast: a request or an answer   *)
(* is on its way for at most MaxLag, and a proof that is there is seen     *)
(* within PollInterval.                                                    *)
(***************************************************************************)
EXTENDS HorsVault, Sequences

CONSTANTS
  Clients,       \* what each call may be made with
  StateTTL,      \* lifetime of the request state
  PollTimeout,   \* how long the CLI waits for the proof
  PollInterval,  \* how often it asks
  MaxLag,
  NoCall

ASSUME CallAssumption ==
  /\ Clients \in [Calls -> SUBSET {"tty", "pipe", "mcp"}]
  /\ StateTTL \in Nat /\ PollTimeout \in Nat /\ PollInterval \in Nat /\ MaxLag \in Nat
  /\ NoCall \notin Calls

\* Five minutes each: the CLI does not give up on a state before it expires.
ASSUME PollsForTheLifetime == PollTimeout >= StateTTL

VARIABLES
  kind,      \* who makes the call
  pc,        \* where the client is
  shows,     \* the state the client's request presents
  wire,      \* where the request, or its answer, is
  answer,    \* what the answer says
  diagnosed, \* lastDiagnostic of the client object of each call
  trace,     \* the events it has written
  report,    \* what it has told its user
  meta,      \* the diagnostic it has reported with it
  redeemed,  \* states the gate has redeemed
  age,       \* time since the state was minted
  provedAt,  \* the age at which the human completed the challenge
  timer      \* time spent polling, or that a state has been on its way to or from the gate

clientVars == <<kind, pc, shows, wire, answer, diagnosed, trace, report, meta>>
gateVars == <<redeemed, age, provedAt>>
vars == <<vaultVars, clientVars, gateVars, timer>>

Never == -1

\* What a call may be answered: by the wrapper with a diagnostic ("executed", "challenge",
\* "denied"); a result of a tool that is not wrapped ("plain"); an error the handler or the
\* wrapper threw ("toolError"); the JSON-RPC error for a state that has expired.  (Any other
\* JSON-RPC error is to the client what a broken connection is: see HearNothing.)
Refusals == {"denied", "toolError"}
Answers  == {"executed", "plain", "challenge", "expired"} \cup Refusals

StatusOf(a) ==
  CASE a \in {"executed", "denied"} -> a
    [] a = "challenge"              -> "step-up"
    [] OTHER                        -> "none"

\* A diagnostic, and the call whose answer brought it.
NoDiagnostic == [of |-> NoCall, status |-> "none"]
Diagnostics  == [of : Calls, status : {"executed", "denied", "step-up"}] \cup {NoDiagnostic}

Reports == {"none", "refused", "executed", "denied", "failed", "stepUp", "timedOut", "killed"}

CallTypeOK ==
  /\ VaultTypeOK
  /\ kind \in [Calls -> {"none", "tty", "pipe", "mcp"}]
  /\ pc \in [Calls -> {"idle", "asking", "polling", "ended"}]
  /\ shows \in [Calls -> Calls \cup {NoCall}]
  /\ wire \in [Calls -> {"none", "request", "service", "answer", "heard"}]
  /\ answer \in [Calls -> Answers \cup {"none"}]
  /\ diagnosed \in [Calls -> Diagnostics]
  /\ trace \in [Calls -> Seq({"request", "response", "error"})]
  /\ report \in [Calls -> Reports]
  /\ meta \in [Calls -> Diagnostics]
  /\ redeemed \subseteq Calls
  /\ age \in [Calls -> Never..StateTTL + 1] /\ provedAt \in [Calls -> Never..StateTTL + 1]
  /\ timer \in [Calls -> Nat]
  /\ \A c \in Calls : wire[c] = "service" => shows[c] # NoCall /\ run[c] # "idle"

Init ==
  /\ VaultInit
  /\ kind = [c \in Calls |-> "none"]
  /\ pc = [c \in Calls |-> "idle"]
  /\ shows = [c \in Calls |-> NoCall]
  /\ wire = [c \in Calls |-> "none"]
  /\ answer = [c \in Calls |-> "none"]
  /\ diagnosed = [c \in Calls |-> NoDiagnostic]
  /\ trace = [c \in Calls |-> <<>>]
  /\ report = [c \in Calls |-> "none"]
  /\ meta = [c \in Calls |-> NoDiagnostic]
  /\ redeemed = {}
  /\ age = [c \in Calls |-> Never] /\ provedAt = [c \in Calls |-> Never]
  /\ timer = [c \in Calls |-> 0]

-----------------------------------------------------------------------------
(***************************************************************************)
(* The client.                                                             *)
(***************************************************************************)

\* Mutant: one client object for all calls.
OneClient(c) == CHOOSE d \in Calls : TRUE

\* createHORSClient: every request is made with a client object of its own.
ClientOf(c) == c

Writes(c, events) == trace' = [trace EXCEPT ![c] = @ \o events]

Diagnosed(c, diagnostic) == diagnosed' = [diagnosed EXCEPT ![ClientOf(c)] = diagnostic]

\* The call ends, and its client object with it.
Tells(c, how, diagnostic) ==
  /\ pc' = [pc EXCEPT ![c] = "ended"]
  /\ report' = [report EXCEPT ![c] = how]
  /\ meta' = [meta EXCEPT ![c] = diagnostic]
  /\ Diagnosed(c, NoDiagnostic)

\* invokeRemoteCall: a new client and a new header, and the state if there is a proof.
Sends(c, s) ==
  /\ pc' = [pc EXCEPT ![c] = "asking"]
  /\ shows' = [shows EXCEPT ![c] = s]
  /\ wire' = [wire EXCEPT ![c] = "request"]
  /\ answer' = [answer EXCEPT ![c] = "none"]
  /\ Diagnosed(c, NoDiagnostic)
  /\ timer' = [timer EXCEPT ![c] = 0]
  /\ UNCHANGED <<report, meta>>

Still == UNCHANGED <<shows, wire, answer, timer>>

\* A state that an earlier call has printed.
Printed(s) == age[s] # Never /\ report[s] = "stepUp"

\* The call is made, or refused: without a profile, an endpoint, a keystore, or with one
\* of proof and state only.  The bridge has written its first event by then.
Begin(c, k, s) ==
  /\ pc[c] = "idle"
  /\ s # NoCall => Printed(s)
  /\ kind' = [kind EXCEPT ![c] = k]
  /\ \/ Sends(c, s) /\ Writes(c, <<"request">>)
     \/ k # "mcp" /\ Tells(c, "refused", NoDiagnostic) /\ Still /\ UNCHANGED trace
     \/ k = "mcp" /\ Tells(c, "refused", NoDiagnostic) /\ Still /\ Writes(c, <<"request">>)
     \/ k = "mcp" /\ Tells(c, "failed", NoDiagnostic) /\ Still /\ Writes(c, <<"request", "error">>)
  /\ UNCHANGED <<vaultVars, gateVars>>

\* The diagnostic an answer brings: _meta.hors of a result, data.hors of an error, of which
\* the gate sends none.
Brought(c) ==
  IF StatusOf(answer[c]) # "none" THEN [of |-> c, status |-> StatusOf(answer[c])]
  ELSE NoDiagnostic

\* onmessage keeps the diagnostic of an answer that has one.
Receive(c) ==
  /\ pc[c] = "asking" /\ wire[c] = "answer"
  /\ wire' = [wire EXCEPT ![c] = "heard"]
  /\ IF Brought(c) # NoDiagnostic THEN Diagnosed(c, Brought(c)) ELSE UNCHANGED diagnosed
  /\ UNCHANGED <<vaultVars, gateVars, kind, pc, shows, answer, trace, report, meta, timer>>

\* extractHorsMeta(value) ?? lastDiagnostic.
Heard(c) == IF Brought(c) # NoDiagnostic THEN Brought(c) ELSE diagnosed[ClientOf(c)]

PollsFor(c) ==
  /\ kind[c] = "tty" /\ shows[c] = NoCall
  /\ pc' = [pc EXCEPT ![c] = "polling"]
  /\ UNCHANGED <<report, meta, diagnosed>>

\* Mutant: the challenge is not traced.
HearChallengeUntraced(c) ==
  /\ answer[c] = "challenge"
  /\ UNCHANGED trace
  /\ PollsFor(c) \/ Tells(c, "stepUp", diagnosed[ClientOf(c)])

\* The answer asks for input.  A terminal goes on to the QR code, once, and if the challenge
\* is one to show as such; otherwise the challenge is printed.
HearChallenge(c) ==
  /\ answer[c] = "challenge"
  /\ Writes(c, <<"response">>)
  /\ PollsFor(c) \/ Tells(c, "stepUp", diagnosed[ClientOf(c)])

\* Mutant: only the diagnostic tells a denial.
DeniedByStatus(c) == Heard(c).status = "denied"

\* What hors call prints in red, and what the bridge marks as an error.
Denied(c) == answer[c] \in Refusals \/ (kind[c] # "mcp" /\ Heard(c).status = "denied")

\* The bridge writes two events for a result that is an error.  hors call also takes any
\* result whose text names one of five HORS errors for a denial.
HearResult(c) ==
  /\ answer[c] \in {"executed", "plain"} \cup Refusals
  /\ \/ /\ Denied(c) \/ kind[c] # "mcp"
        /\ Writes(c, IF kind[c] = "mcp" THEN <<"response", "error">> ELSE <<"error">>)
        /\ Tells(c, "denied", Heard(c))
     \/ /\ ~Denied(c)
        /\ Writes(c, <<"response">>)
        /\ Tells(c, "executed", Heard(c))

Fails(c, how) == Writes(c, <<"error">>) /\ Tells(c, how, NoDiagnostic)

\* What the SDK throws for a JSON-RPC error: its diagnostic is the one the error brings, and
\* not lastDiagnostic.
HearFault(c) ==
  /\ answer[c] = "expired"
  /\ Writes(c, <<"error">>)
  /\ Tells(c, "failed", Brought(c))

Hear(c) ==
  /\ pc[c] = "asking" /\ wire[c] = "heard"
  /\ HearChallenge(c) \/ HearResult(c) \/ HearFault(c)
  /\ wire' = [wire EXCEPT ![c] = "none"]
  /\ timer' = [timer EXCEPT ![c] = 0]
  /\ UNCHANGED <<vaultVars, gateVars, kind, shows, answer>>

\* The connection fails or the request times out; the request may still arrive.
HearNothing(c) ==
  /\ pc[c] = "asking"
  /\ Fails(c, "failed")
  /\ wire' \in {[wire EXCEPT ![c] = "none"],
                [wire EXCEPT ![c] = IF @ \in {"request", "service"} THEN @ ELSE "none"]}
  /\ timer' = [timer EXCEPT ![c] = 0]
  /\ UNCHANGED <<vaultVars, gateVars, kind, shows, answer>>

\* pollIdkitProof sees the proof, and the call is sent again with it.
Resume(c) ==
  /\ pc[c] = "polling" /\ provedAt[c] # Never
  /\ Writes(c, <<"request">>)
  /\ Sends(c, c)
  /\ UNCHANGED <<vaultVars, gateVars, kind>>

StopsPolling(c, how) ==
  /\ pc[c] = "polling"
  /\ Fails(c, how)
  /\ Still
  /\ UNCHANGED <<vaultVars, gateVars, kind>>

\* Mutant: the last interval is not waited for.
PollTimesOutEarly(c) == timer[c] >= PollTimeout - PollInterval /\ StopsPolling(c, "timedOut")

\* Mutant: polls without a timeout.
PollNeverTimesOut(c) == pc[c] = "polling" /\ FALSE /\ UNCHANGED vars

PollTimesOut(c) == timer[c] = PollTimeout /\ StopsPolling(c, "timedOut")

\* The challenge cannot be shown, or the human cancels it in World App.
PollFails(c) == StopsPolling(c, "failed")

\* Ctrl+C.
Die(c) ==
  /\ pc[c] = "polling"
  /\ Tells(c, "killed", NoDiagnostic)
  /\ Still
  /\ UNCHANGED <<vaultVars, gateVars, kind, trace>>

-----------------------------------------------------------------------------
(***************************************************************************)
(* The human, the gate and the clock.                                      *)
(***************************************************************************)

\* A state somebody may still present.
Presentable(s) ==
  \/ pc[s] = "polling"
  \/ Printed(s) /\ \E c \in Calls : pc[c] = "idle"

\* The human completes the challenge that is shown in the terminal, or was printed.
Prove(s) ==
  /\ provedAt[s] = Never
  /\ Presentable(s)
  /\ provedAt' = [provedAt EXCEPT ![s] = age[s]]
  /\ UNCHANGED <<vaultVars, clientVars, redeemed, age, timer>>

\* An answer that nobody waits for is lost.
Reply(c, a) ==
  IF pc[c] = "asking"
    THEN /\ wire' = [wire EXCEPT ![c] = "answer"]
         /\ answer' = [answer EXCEPT ![c] = a]
         /\ timer' = [timer EXCEPT ![c] = 0]
    ELSE /\ wire' = [wire EXCEPT ![c] = "none"]
         /\ UNCHANGED <<answer, timer>>

\* Mutant: a first request is let through to the handler.
AdmitUnchallenged(c) ==
  /\ wire[c] = "request" /\ shows[c] = NoCall
  /\ BeginRun(c)
  /\ wire' = [wire EXCEPT ![c] = "service"]
  /\ UNCHANGED <<kind, pc, shows, answer, diagnosed, trace, report, meta, gateVars, timer>>

\* A first request: the function needs a step-up, or it does not.
Admit(c) ==
  /\ wire[c] = "request" /\ shows[c] = NoCall
  /\ \/ Reply(c, "challenge") /\ age' = [age EXCEPT ![c] = 0]
     \/ \E a \in Answers \ {"challenge", "expired"} : Reply(c, a) /\ UNCHANGED age
  /\ UNCHANGED <<vaultVars, kind, pc, shows, diagnosed, trace, report, meta, redeemed, provedAt>>

\* The state a terminal was polling for is known to nobody else: redeemed, its age shows
\* nowhere.
Forgets(c) ==
  IF shows[c] = c
    THEN /\ age' = [age EXCEPT ![c] = Never]
         /\ provedAt' = [provedAt EXCEPT ![c] = Never]
    ELSE UNCHANGED <<age, provedAt>>

\* A request with a state: expired, redeemed before, redeemed now for nothing, or let
\* through to the handler.  The state is good for the arguments it was minted for.
Redeem(c) ==
  LET s == shows[c] IN
  /\ wire[c] = "request" /\ s # NoCall
  /\ \/ /\ age[s] > StateTTL
        /\ Reply(c, "expired")
        /\ UNCHANGED <<vaultVars, gateVars>>
     \/ /\ age[s] <= StateTTL
        /\ \E a \in Refusals : Reply(c, a)
        /\ redeemed' \in {redeemed, redeemed \cup {s}}
        /\ Forgets(c)
        /\ UNCHANGED vaultVars
     \/ /\ age[s] <= StateTTL /\ s \notin redeemed /\ provedAt[s] # Never /\ asked[s] = asked[c]
        /\ redeemed' = redeemed \cup {s}
        /\ Forgets(c)
        /\ BeginRun(c)
        /\ wire' = [wire EXCEPT ![c] = "service"]
        /\ UNCHANGED <<answer, timer>>
  /\ UNCHANGED <<kind, pc, shows, diagnosed, trace, report, meta>>

\* finalizeAllowResult: a result whose receipt does not hold is withheld, a handler's
\* exception becomes a tool error.
Finish(c) ==
  /\ wire[c] = "service"
  /\ \/ run[c] = "returned" /\ \E a \in {"executed", "toolError"} : Reply(c, a)
     \/ run[c] = "failed" /\ Reply(c, "toolError")
  /\ UNCHANGED <<vaultVars, kind, pc, shows, diagnosed, trace, report, meta, gateVars>>

HandlerStep(c) == Handle(c) /\ UNCHANGED <<clientVars, gateVars, timer>>

ChainStep(c) == Mine(c) /\ UNCHANGED <<clientVars, gateVars, timer>>

\* The states redeemed are kept in memory too.
Restart ==
  /\ RestartVault
  /\ redeemed' = {}
  /\ UNCHANGED <<clientVars, age, provedAt, timer>>

\* Only what carries a state is timed.
InTransit(c) ==
  /\ pc[c] = "asking"
  /\ \/ wire[c] = "request" /\ shows[c] # NoCall
     \/ wire[c] = "answer" /\ answer[c] = "challenge"

\* Nobody is late.
MayTick ==
  \A c \in Calls :
    /\ InTransit(c) => timer[c] < MaxLag
    /\ pc[c] = "polling" =>
         /\ timer[c] < PollTimeout
         /\ provedAt[c] # Never => age[c] - provedAt[c] < PollInterval

\* A state ages while it is on its way to the client, may still be presented, or is on its
\* way to the gate; its age afterwards shows nowhere.
Ages(s) ==
  /\ age[s] \in 0..StateTTL
  /\ \/ Presentable(s)
     \/ pc[s] = "asking" /\ shows[s] = NoCall
     \/ \E c \in Calls : shows[c] = s /\ wire[c] = "request"

Tick ==
  /\ MayTick
  /\ age' = [c \in Calls |-> IF Ages(c) THEN age[c] + 1 ELSE age[c]]
  /\ timer' = [c \in Calls |-> IF pc[c] = "polling" \/ InTransit(c) THEN timer[c] + 1 ELSE timer[c]]
  /\ UNCHANGED <<vaultVars, clientVars, redeemed, provedAt>>

Client(c) == Receive(c) \/ Hear(c) \/ HearNothing(c) \/ Resume(c) \/ PollTimesOut(c)

Service(c) == Admit(c) \/ Redeem(c) \/ Finish(c) \/ HandlerStep(c)

World(c) ==
  \/ \E k \in Clients[c], s \in Calls \cup {NoCall} : Begin(c, k, s)
  \/ PollFails(c)
  \/ Die(c)
  \/ Prove(c)
  \/ ChainStep(c)

Next == (\E c \in Calls : Client(c) \/ Service(c) \/ World(c)) \/ Restart \/ Tick

\* The client's own timeouts fire and time passes; gate, handler, chain and human owe nothing.
Fairness == (\A c \in Calls : WF_vars(Client(c))) /\ WF_vars(Tick)

Spec == Init /\ [][Next]_vars /\ Fairness

-----------------------------------------------------------------------------
(***************************************************************************)
(* Properties.                                                             *)
(***************************************************************************)

\* "Count a call as successful only when the command exits successfully and prints
\* HORS_EXECUTED" (use-hors-cli/SKILL.md): the handler of a borrow that is reported so has
\* returned and its transaction is in a block.  A call that is refused, challenged or
\* gives up waiting for the proof has moved nothing; one that is denied or fails may have.
ReportsAreTrue ==
  \A c \in Calls :
    /\ report[c] = "executed" /\ shows[c] # NoCall =>
         run[c] = "returned" /\ chain[c] \in {"mined", "reverted"}
    /\ report[c] \in {"refused", "stepUp", "timedOut"} => run[c] = "idle" /\ chain[c] = "none"

\* The diagnostic a call reports came with the answer it reports on: not with the
\* challenge before it, nor with another call's answer.
DiagnosticIsOwn ==
  \A c \in Calls : meta[c] # NoDiagnostic =>
    meta[c] = [of |-> c, status |-> StatusOf(answer[c])]

\* How far a call can be, where its client, its request and its handler are.
CallInStep ==
  \A c \in Calls :
    /\ pc[c] # "ended" => report[c] = "none" /\ meta[c] = NoDiagnostic
    /\ pc[c] \in {"idle", "polling"} => wire[c] = "none" /\ shows[c] = NoCall
    /\ pc[c] = "ended" => wire[c] \in {"none", "request", "service"}
    /\ report[c] \in {"refused", "stepUp", "timedOut"} => wire[c] = "none"
    /\ run[c] # "idle" => shows[c] # NoCall
    /\ wire[c] = "request" => run[c] = "idle"

\* What an answer on its way says of the handler, and of the client object it comes to.
AnswersAreTrue ==
  \A c \in Calls : pc[c] = "asking" =>
    /\ wire[c] \in {"answer", "heard"} =>
         /\ answer[c] \in {"plain", "challenge"} => shows[c] = NoCall
         /\ answer[c] = "executed" /\ shows[c] # NoCall => run[c] = "returned"
    /\ diagnosed[c] = IF wire[c] = "heard" /\ StatusOf(answer[c]) # "none"
                        THEN [of |-> c, status |-> StatusOf(answer[c])]
                        ELSE NoDiagnostic

CallsConsistent ==
  /\ CallTypeOK
  /\ VaultIInv
  /\ CallInStep
  /\ AnswersAreTrue
  /\ ReportsAreTrue
  /\ DiagnosticIsOwn

\* The trace of a call that has come to its end, killed ones included, answers each of its
\* requests, and ends with an error if and only if the call was reported as one.  A call
\* that is refused is traced by nobody but the bridge, which leaves in the trace one request
\* that nothing ever answers.
TraceTellsOutcome ==
  \A c \in Calls : report[c] # "none" =>
    IF report[c] = "refused"
      THEN trace[c] = IF kind[c] = "mcp" THEN <<"request">> ELSE <<>>
      ELSE /\ \A i \in DOMAIN trace[c] : trace[c][i] = "request" =>
                i < Len(trace[c]) /\ trace[c][i + 1] # "request"
           /\ trace[c][Len(trace[c])] = "error" <=> report[c] \in {"denied", "failed", "timedOut"}

\* A proof the terminal waited for is refused as late only if the human completed it within
\* one polling interval and one request's way of the end of the state's lifetime; and the
\* CLI gives up waiting only when that lifetime is over.
ProofsAreInTime ==
  \A c \in Calls :
    /\ answer[c] = "expired" /\ shows[c] = c => provedAt[c] + PollInterval + MaxLag > StateTTL
    /\ report[c] = "timedOut" => age[c] >= StateTTL

\* No request of a trace follows another before it is answered.
OneByOne(t) == \A i \in 1..Len(t) - 1 : t[i] = "request" => t[i + 1] # "request"

EndsWith(t, event) == Len(t) > 0 /\ t[Len(t)] = event

\* What the trace of a call ends with, where the call is.
TraceInStep(c) ==
  /\ OneByOne(trace[c])
  /\ pc[c] = "idle" => trace[c] = <<>>
  /\ pc[c] = "asking" => EndsWith(trace[c], "request")
  /\ pc[c] = "polling" => EndsWith(trace[c], "response")
  /\ report[c] = "refused" => trace[c] = IF kind[c] = "mcp" THEN <<"request">> ELSE <<>>
  /\ report[c] \in {"executed", "stepUp", "killed"} => EndsWith(trace[c], "response")
  /\ report[c] \in {"denied", "failed", "timedOut"} => EndsWith(trace[c], "error")

TracesInStep == \A c \in Calls : TraceInStep(c)

\* How old a state can be: as old at least as its terminal has polled, older by one interval
\* at most than its proof, and on its way to the gate no longer than MaxLag.
TimeInStep(c) ==
  /\ wire[c] \in {"request", "service"} => answer[c] = "none"
  /\ pc[c] \in {"idle", "asking"} /\ shows[c] = NoCall => provedAt[c] = Never
  /\ pc[c] = "asking" /\ wire[c] \in {"answer", "heard"} /\ answer[c] = "challenge" =>
       age[c] # Never
  /\ pc[c] = "polling" =>
       /\ age[c] >= timer[c] \/ age[c] > StateTTL
       /\ provedAt[c] # Never => age[c] <= provedAt[c] + PollInterval
  /\ pc[c] = "asking" /\ wire[c] = "request" /\ shows[c] = c =>
       timer[c] <= MaxLag /\ age[c] <= provedAt[c] + PollInterval + timer[c]
  /\ report[c] = "timedOut" => age[c] >= StateTTL
  /\ answer[c] = "expired" /\ shows[c] = c => provedAt[c] + PollInterval + MaxLag > StateTTL

TimesInStep == \A c \in Calls : TimeInStep(c)

CallIInv == CallsConsistent /\ LimitInStep /\ TracesInStep /\ TimesInStep

\* A call comes to an end, whoever does not answer: the gate, the handler, the chain or the
\* human.
EveryCallEnds ==
  (\E c \in Calls : pc[c] \in {"asking", "polling"}) ~> (\A c \in Calls : pc[c] \in {"idle", "ended"})
=============================================================================
