----------------------------- MODULE Transport ------------------------------
(***************************************************************************)
(* One ExoClient (src/exo_mcp/api_client.py) for the life of one tool call: *)
(* the lazy token exchange, the retry loop of _post, the reading of every   *)
(* kind of answer, and the admin endpoint at the other end of the wire.     *)
(*                                                                          *)
(* A delivery is a pair <<i, a>>: attempt a of the i-th cmdlet of the call. *)
(* The endpoint is not part of the repository.  It applies or refuses each  *)
(* delivery, at most once, at a moment of its own: also after the client    *)
(* stopped waiting for it, since a timeout on our side cancels nothing on   *)
(* the other.  Whatever came back to the client is one of Answers.          *)
(***************************************************************************)
EXTENDS Integers

CONSTANTS
    MaxInvokes,     \* bound: cmdlets issued by one tool call
    MaxRetries,     \* _MAX_RETRIES
    MaxBackoff,     \* _MAX_BACKOFF_SECONDS
    AttemptLimit,   \* longest an attempt takes: all phases of _TIMEOUT together
    ExchangeLimit,  \* longest a token exchange takes, from auth._TOKEN_TIMEOUT
    PostTimes,      \* seconds an attempt may take
    TokenTimes,     \* seconds a token exchange may take
    RetryAfters     \* numbers the endpoint puts in Retry-After, negative ones too

ASSUME TransportAssumption ==
    /\ MaxInvokes \in Nat \ {0}
    /\ MaxRetries \in Nat
    /\ MaxBackoff \in Nat
    /\ AttemptLimit \in Nat
    /\ ExchangeLimit \in Nat
    /\ PostTimes \subseteq 0..AttemptLimit
    /\ TokenTimes \subseteq 0..ExchangeLimit
    /\ RetryAfters \subseteq Int

Invokes    == 1..MaxInvokes
Attempts   == 0..MaxRetries
Deliveries == Invokes \X Attempts

VARIABLES
    pc,         \* where the client stands
    idx,        \* cmdlets issued so far; the last one may be running
    token,      \* ExoClient._token is set
    exchanges,  \* token exchanges that reached the token endpoint (history)
    attempt,    \* loop variable of _post
    verdict,    \* verdict[i]: how the i-th invoke ended
    spent,      \* seconds this tool call has taken
    sent,       \* deliveries the client put on the wire
    applied,    \* deliveries the endpoint executed
    refused,    \* deliveries the endpoint rejected without executing them
    settled,    \* deliveries answered by neither a fault nor a retryable status
    redirected  \* cmdlets that ended on a redirect without a body (history)

clientVars == <<pc, idx, token, exchanges, attempt, verdict, spent>>
wireVars   == <<sent, applied, refused, settled, redirected>>
vars       == <<clientVars, wireVars>>

PCs == {"idle", "mint", "post", "await", "sleep", "done"}
-----------------------------------------------------------------------------
(* Verdicts: a normal return, an ExoError with its envelope code and         *)
(* retryable flag, or any other exception, which no tool catches.            *)
Pending     == [code |-> "pending", retryable |-> FALSE]
Ok          == [code |-> "ok", retryable |-> FALSE]
Raised      == [code |-> "raised", retryable |-> FALSE]
Error(c, r) == [code |-> c, retryable |-> r]

RefusalCodes == {"invalid_argument", "unauthorized", "not_found"}
ErrorCodes   == RefusalCodes \union {"rate_limited", "upstream_error"}
Verdicts     == [code : ErrorCodes \union {"pending", "ok", "raised"},
                 retryable : BOOLEAN]

(* What can come back for a delivery.                                        *)
(*   records / empty / scalar: 2xx with a list or object, no body, or a bare *)
(*     number or boolean;        html: below 400, with a body not JSON       *)
(*   redirect: 3xx with no body, or one like records; httpx follows none     *)
(*   throttled 429;  denied 401, 403;  missing 404;  invalid 400, 422 and    *)
(*     other 4xx;  gone 400 or 422 whose text says the object is unknown     *)
(*   busy 500, 502, 503, 504;  broken any other 5xx                          *)
(* fault (httpx.RequestError) and garbled (httpx.DecodingError) are the      *)
(* exceptions of client.post.                                                *)
Successes == {"records", "empty", "scalar"}
Refusals  == {"throttled", "denied", "missing", "invalid", "gone"}
Responses == Successes \union Refusals \union {"html", "redirect", "busy", "broken"}

RetryableStatus == {"throttled", "busy"}

(* _classify, the retryable flag included. *)
Classify(r) ==
    CASE r = "throttled"           -> Error("rate_limited", TRUE)
      [] r = "denied"              -> Error("unauthorized", FALSE)
      [] r \in {"missing", "gone"} -> Error("not_found", FALSE)
      [] r \in {"busy", "broken"}  -> Error("upstream_error", TRUE)
      [] OTHER                     -> Error("invalid_argument", FALSE)

HtmlAsEmpty    == Ok        \* fault injected: an unparseable body is no records
UnreadableBody == Error("upstream_error", FALSE)

(* _parse_body followed by the reading of Value in invoke: a scalar that is  *)
(* neither a list nor an object cannot be iterated, and raises TypeError.    *)
ParseBody(r) ==
    CASE r = "html"   -> UnreadableBody
      [] r = "scalar" -> Raised
      [] OTHER        -> Ok

(* _raise_for_status before _parse_body: all below 400 is read as a success. *)
Read(r) ==
    IF r \in Successes \union {"html", "redirect"} THEN ParseBody(r) ELSE Classify(r)

(* The delay without a header, or with one that is not a number.             *)
Backoff(a) == 2^a

(* fault injected: Retry-After is obeyed whatever it asks for *)
UncappedDelay(asked) == asked

(* The sleep that min(asked, _MAX_BACKOFF_SECONDS) leads to: asyncio returns *)
(* at once from a negative one.                                              *)
RetryDelay(asked) ==
    IF asked \in 0..MaxBackoff THEN asked
    ELSE IF asked < 0 THEN 0 ELSE MaxBackoff
-----------------------------------------------------------------------------
Init ==
    /\ pc = "idle"
    /\ idx = 0
    /\ token = FALSE
    /\ exchanges = 0
    /\ attempt = 0
    /\ verdict = [i \in Invokes |-> Pending]
    /\ spent = 0
    /\ sent = {}
    /\ applied = {}
    /\ refused = {}
    /\ settled = {}
    /\ redirected = {}

(* fault injected: a tool that goes on after its first cmdlet failed *)
GoesOnAnyway == idx > 0 => verdict[idx] # Raised

(* Whether the tool issues another cmdlet.  Every tool gives up when its     *)
(* first cmdlet fails; past it, exo_add_email_alias goes on to the next      *)
(* address after an ExoError.  Nothing survives another exception.           *)
GoesOn ==
    idx > 0 => \/ verdict[idx] = Ok
               \/ idx > 1 /\ verdict[idx] # Raised

(* invoke: the token is minted on the first cmdlet and kept. *)
Invoke ==
    /\ pc = "idle"
    /\ idx < MaxInvokes
    /\ GoesOn
    /\ idx' = idx + 1
    /\ attempt' = 0
    /\ pc' = IF token THEN "post" ELSE "mint"
    /\ UNCHANGED <<token, exchanges, verdict, spent, wireVars>>

(* The tool returns its envelope; it may do so after any cmdlet. *)
Return ==
    /\ pc = "idle"
    /\ idx > 0
    /\ pc' = "done"
    /\ UNCHANGED <<idx, token, exchanges, attempt, verdict, spent, wireVars>>

(* The running cmdlet gets its verdict and the tool continues. *)
Conclude(v) ==
    /\ verdict' = [verdict EXCEPT ![idx] = v]
    /\ pc' = "idle"
    /\ UNCHANGED <<idx, attempt>>

(* fault injected: the token is used and not kept *)
MintAndForget ==
    /\ pc = "mint"
    /\ \E t \in TokenTimes : spent' = spent + t
    /\ exchanges' = exchanges + 1
    /\ pc' = "post"
    /\ UNCHANGED <<idx, token, attempt, verdict, wireVars>>

(* _access_token with a usable answer. *)
Mint ==
    /\ pc = "mint"
    /\ \E t \in TokenTimes : spent' = spent + t
    /\ exchanges' = exchanges + 1
    /\ token' = TRUE
    /\ pc' = "post"
    /\ UNCHANGED <<idx, attempt, verdict, wireVars>>

(* _access_token without one: no response (0), an error status or an answer  *)
(* without a token (401), or a 200 that is not JSON (uncaught ValueError).   *)
MintFails ==
    /\ pc = "mint"
    /\ \E t \in TokenTimes : spent' = spent + t
    /\ exchanges' = exchanges + 1
    /\ \E v \in {Error("upstream_error", TRUE), Error("unauthorized", FALSE), Raised} :
        Conclude(v)
    /\ UNCHANGED <<token, wireVars>>

(* Unusable key material: CredentialError before anything is sent. *)
MintRefusesCredential ==
    /\ pc = "mint"
    /\ Conclude(Error("unauthorized", FALSE))
    /\ UNCHANGED <<token, exchanges, spent, wireVars>>

(* client.post: one attempt goes on the wire. *)
Post ==
    /\ pc = "post"
    /\ sent' = sent \union {<<idx, attempt>>}
    /\ pc' = "await"
    /\ UNCHANGED <<idx, token, exchanges, attempt, verdict, spent, applied, refused, settled, redirected>>

(* faults injected: the loop is one attempt too long, or too short *)
OneAttemptTooMany == attempt <= MaxRetries
OneAttemptTooFew  == attempt + 1 < MaxRetries

(* The condition of the two retrying branches. *)
MayRetry == attempt < MaxRetries

(* Sleeping is charged when it starts. *)
BackOff(t, asked) ==
    /\ pc' = "sleep"
    /\ spent' = spent + t + RetryDelay(asked)
    /\ UNCHANGED <<idx, attempt, verdict>>

NetworkOutcome(t) ==
    IF MayRetry
    THEN BackOff(t, Backoff(attempt))
    ELSE /\ Conclude(Error("upstream_error", TRUE))
         /\ spent' = spent + t

(* except httpx.RequestError: no answer; the delivery stays on its way. *)
Fault ==
    /\ pc = "await"
    /\ \E t \in PostTimes : NetworkOutcome(t)
    /\ UNCHANGED <<token, exchanges, wireVars>>

Settle == settled' = settled \union {<<idx, attempt>>}

(* fault injected: DecodingError caught as the RequestError it is a kind of *)
GarbledAsFault ==
    /\ pc = "await"
    /\ \E t \in PostTimes : NetworkOutcome(t)
    /\ Settle
    /\ UNCHANGED <<token, exchanges, sent, applied, refused, redirected>>

(* fault injected: an unreadable answer reported as a bad argument *)
GarbledAsRefusal ==
    /\ pc = "await"
    /\ \E t \in PostTimes : spent' = spent + t
    /\ Conclude(Error("invalid_argument", FALSE))
    /\ Settle
    /\ UNCHANGED <<token, exchanges, sent, applied, refused, redirected>>

(* fault injected: an unreadable answer is asked for again, uncounted *)
GarbledAskedAgain ==
    /\ pc = "await"
    /\ pc' = "post"
    /\ UNCHANGED <<idx, token, exchanges, attempt, verdict, spent, wireVars>>

(* except httpx.DecodingError: an answer arrived and is unreadable. *)
Garbled ==
    /\ pc = "await"
    /\ \E t \in PostTimes : spent' = spent + t
    /\ Conclude(UnreadableBody)
    /\ Settle
    /\ UNCHANGED <<token, exchanges, sent, applied, refused, redirected>>

(* Which responses the endpoint can give for the delivery being awaited: a   *)
(* 2xx of its own only once it is applied, a 4xx only when it is refused.  A *)
(* 5xx, a redirect or a page of an intermediary says nothing about it.       *)
Possible(r) ==
    /\ r \in Successes => <<idx, attempt>> \in applied
    /\ r \in Refusals  => <<idx, attempt>> \in refused

(* A retryable status while attempts remain. *)
Retry ==
    /\ pc = "await"
    /\ MayRetry
    /\ \E r \in RetryableStatus, t \in PostTimes, asked \in RetryAfters \union {Backoff(attempt)} :
        Possible(r) /\ BackOff(t, asked)
    /\ UNCHANGED <<token, exchanges, wireVars>>

(* Retry-After: nan is a number to float(), and passes through min().  What  *)
(* asyncio.sleep makes of it depends on the interpreter: it raises           *)
(* ValueError (since 3.13), or returns at once.                              *)
RetryAfterNaN ==
    /\ pc = "await"
    /\ MayRetry
    /\ \E r \in RetryableStatus, t \in PostTimes :
        /\ Possible(r)
        /\ \/ BackOff(t, 0)
           \/ Conclude(Raised) /\ spent' = spent + t
    /\ UNCHANGED <<token, exchanges, wireVars>>

(* Any other response, or a retryable one on the last attempt. *)
Answer ==
    /\ pc = "await"
    /\ \E r \in Responses, t \in PostTimes :
        /\ r \in RetryableStatus => ~MayRetry
        /\ Possible(r)
        /\ spent' = spent + t
        /\ Conclude(Read(r))
        /\ settled' = IF r \in RetryableStatus THEN settled
                      ELSE settled \union {<<idx, attempt>>}
        /\ redirected' = IF r = "redirect" THEN redirected \union {idx} ELSE redirected
    /\ UNCHANGED <<token, exchanges, sent, applied, refused>>

(* The sleep is over: next turn of the loop. *)
Wake ==
    /\ pc = "sleep"
    /\ attempt' = attempt + 1
    /\ pc' = "post"
    /\ UNCHANGED <<idx, token, exchanges, verdict, spent, wireVars>>

Client ==
    \/ Invoke \/ Return
    \/ Mint \/ MintFails \/ MintRefusesCredential
    \/ Post \/ Fault \/ Garbled \/ Retry \/ RetryAfterNaN \/ Answer \/ Wake
-----------------------------------------------------------------------------
(* The endpoint (external): each delivery is executed or rejected once, or   *)
(* lost, which is no step at all.                                            *)
Open == sent \ (applied \union refused)

Apply ==
    /\ \E d \in Open : applied' = applied \union {d}
    /\ UNCHANGED <<clientVars, sent, refused, settled, redirected>>

Refuse ==
    /\ \E d \in Open : refused' = refused \union {d}
    /\ UNCHANGED <<clientVars, sent, applied, settled, redirected>>

Endpoint == Apply \/ Refuse

Terminated == pc = "done" /\ UNCHANGED vars

Next == Client \/ Endpoint \/ Terminated

Spec == Init /\ [][Next]_vars

(* httpx bounds every wait by a timeout and asyncio.sleep ends, so a client  *)
(* that is not done always takes its next step.  Nothing is assumed of the   *)
(* endpoint: it may never answer.                                            *)
FairSpec == Spec /\ WF_vars(Client)
-----------------------------------------------------------------------------
TypeOK ==
    /\ pc \in PCs
    /\ idx \in 0..MaxInvokes
    /\ token \in BOOLEAN
    /\ exchanges \in Nat
    /\ attempt \in Attempts
    /\ verdict \in [Invokes -> Verdicts]
    /\ spent \in Nat
    /\ sent \subseteq Deliveries
    /\ applied \subseteq sent
    /\ refused \subseteq sent
    /\ settled \subseteq sent
    /\ redirected \subseteq Invokes

(* A tool that is told a cmdlet succeeded can rely on it: the endpoint       *)
(* executed at least one delivery, whatever page, empty body or retry came   *)
(* in between (the reason _parse_body rejects a body that is not JSON).  A   *)
(* redirect without a body is the one answer that gets past                  *)
(* (api_client.py:320-322).                                                  *)
OkMeansApplied ==
    \A i \in Invokes \ redirected :
        verdict[i] = Ok => \E a \in Attempts : <<i, a>> \in applied

(* An envelope that blames the arguments, the object or the credential is    *)
(* true of the delivery it answers: that one never takes effect, also not    *)
(* later.  Only a delivery that was followed by a retry can have applied.    *)
RefusalMeansUntouched ==
    \A i \in Invokes : verdict[i].code \in RefusalCodes =>
        \A a \in Attempts : <<i, a>> \in applied => <<i, a + 1>> \in sent

(* The promise in the comments of _headers and _post: once an answer that is *)
(* not a retryable status has arrived, readable or not, the cmdlet is not    *)
(* sent again, since it may already have been applied.                       *)
NoRerun ==
    \A d \in settled : \A a \in Attempts : a > d[2] => <<d[1], a>> \notin sent

(* A tool call pays for one token exchange, however many cmdlets it runs and *)
(* however they end (docstring of ExoClient).                                *)
OneExchange == exchanges <= 1

(* A caller is advised to try again only when the client's own attempts are  *)
(* used up, when a delivery got an answer that ends them (a 5xx outside the  *)
(* retryable set), or when there was no token and nothing was sent at all.   *)
RetryAdviceIsLastResort ==
    \A i \in Invokes : verdict[i].retryable =>
        \/ \A a \in Attempts : <<i, a>> \notin sent
        \/ \A a \in Attempts : <<i, a>> \in sent
        \/ \E a \in Attempts : <<i, a>> \in settled

(* The worst case of a tool call is one token exchange and, per cmdlet, its  *)
(* attempts and capped sleeps, however long httpx lets each of them be: no   *)
(* Retry-After and no late answer adds to it.                                *)
PerInvoke == (MaxRetries + 1) * AttemptLimit + MaxRetries * MaxBackoff
WorstCase == spent <= ExchangeLimit + idx * PerInvoke

(* Every tool call ends, also when the endpoint never answers anything.      *)
Termination == <>(pc = "done")

(* What the tool modules assume of a cmdlet is what the client gives.        *)
Outcome(i) ==
    CASE verdict[i] = Pending -> "pending"
      [] verdict[i] = Ok      -> IF i \in redirected THEN "blank" ELSE "success"
      [] OTHER                -> "failure"

Abstract == INSTANCE CmdletCall WITH
    issued  <- idx,
    effects <- applied,
    outcome <- [i \in Invokes |-> Outcome(i)]

ImplementsCmdletCall == Abstract!Spec

(* api_client.py:50: a single tool call, token mint included, keeps          *)
(* "comfortably under the 120s upstream budget".                             *)
UpstreamBudget == 120
WithinBudget == spent <= UpstreamBudget

(* README.md: "Tools never raise; they return a JSON envelope".              *)
NeverRaises == \A i \in Invokes : verdict[i] # Raised
=============================================================================
