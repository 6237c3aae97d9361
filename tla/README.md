# TLA+ verification of exchange-online-mcp

The server is a stateless MCP server. Each `POST /mcp` carries one tenant's
app-only credentials in its headers; a tool reads them from a context variable,
builds an `ExoClient`, and turns its arguments into one or more Exchange Online
cmdlets, each an HTTP POST to the admin endpoint. Nothing is stored between
requests. What is hard about it lies between the lines of that description:

* a cmdlet that is retried may already have taken effect, and one that was given
  up may still do so later;
* requests of different tenants overlap on one process, one connection pool and
  one module-level variable;
* tools read, merge and write whole lists in a directory that other callers
  change and that shows a write to other readers only minutes later;
* the answer of a tool is acted on by an agent, so a wrong "done", "refused" or
  "try again" is a fault of its own.

Paths below are relative to the repository; `exo_mcp/` stands for
`src/exo_mcp/`.

## Inventory

| Component | State it keeps | Operations | Interacts with | What makes it correct |
|---|---|---|---|---|
| Admin-endpoint client, `api_client.py` | `_token` per instance; the shared pool | `_access_token`, `invoke`, `_post`, `_parse_body`, `_classify` | tools call it, it calls Entra and the endpoint | success means executed; refusals are true; no rerun after an answer; one token exchange; bounded time; every call ends |
| Token exchange, `auth.py` | none | `fetch_access_token`, key loading | called by the client | every failure is a `CredentialError` or `TokenError` |
| Credential middleware, `server.py`, `__main__.py` | `_credentials_var` per asyncio context | `__call__` (admit, set, reset), `get_client_from_context` | ASGI application, tools | a tool uses its own request's credentials; none stay behind |
| `exo_add_email_alias`, `tools/mailbox.py` | none; the mailbox's address list in the directory | read, check each address, write merged list, read back | client, directory, other callers | additive; no foreign address; results are true |
| Group membership, `tools/groups.py`, `_common.py` | none; the group's members | add (read, read, write), remove (write) | client, directory, other callers | answers are earned; named refusals are final |
| Forwarding, auto-reply, conversion, hiding, `tools/mailbox.py` | none; mailbox properties | write, sometimes read before or after | client, directory | what is reported is what was written; advice is not stale |
| Permissions, `tools/permissions.py` | none; trustee lists | single writes; SendOnBehalf reads, merges, writes | client, directory | as for alias and group tools |
| Mobile devices, `tools/devices.py` | none | list one page, remove | client | `has_more` is true when there is more |
| JSON output, `_json.py` | none | `dump_json_capped` | every tool | never longer than the cap |
| Settings, `config.py` | read once | - | - | - |

## Modules

| Module | Models | Composed with |
|---|---|---|
| `CmdletCall` | what a tool may assume of `invoke`: an abstract specification | implemented by `Transport`, and by each call's write in three of the tool modules |
| `Transport` | `ExoClient` and the outcomes of the token exchange, with the endpoint | instantiates `CmdletCall` |
| `PrivateRequests` | what the middleware makes its callers believe: an abstract specification | implemented by `Gateway` |
| `Gateway` | middleware, context variable, tools as tasks | instantiates `PrivateRequests` |
| `Directory` | one replicated directory object (external) | extended by the three modules below |
| `AddressBook` | what the alias tool promises: an abstract specification | implemented by `EmailAlias` |
| `EmailAlias` | `exo_add_email_alias`, several calls, an administrator | extends `Directory`, instantiates `AddressBook` and `CmdletCall` |
| `MailboxSettings` | forwarding, automatic replies, hiding, conversion, and the tools that read a mailbox | extends `Directory`, instantiates `CmdletCall` |
| `Permissions` | the permission tools and `exo_remove_mobile_device` | extends `Directory`, instantiates `CmdletCall` |
| `GroupMembership` | both membership tools and their retries | - |
| `CappedText` | what `dump_json_capped` promises: an abstract specification | implemented by `JsonCap` |
| `JsonCap` | `dump_json_capped` and its binary search | instantiates `CappedText`, extended by `MobileDevices` |
| `MobileDevices` | `exo_list_mobile_devices`, and any result on its way through the cap | extends `JsonCap` |
| `MC*` | bounds for TLC, one for each of the seven components that are checked | - |
| `*Proofs` | theorems, one for each of the same seven | - |

### Transport

`pc` is where the client stands: `idle` between cmdlets, `mint` in
`_access_token`, `post`, `await` and `sleep` in the loop of `_post`. A delivery
is a pair of a cmdlet and an attempt. The client puts it into `sent`; the
endpoint (external) may put it into `applied` (executed) or `refused` (rejected
without being executed), at any time, also after the client has given up, or
never. The client sees one of three things: an answer (`Answer`, `Retry`), no
answer (`Fault`, `httpx.RequestError`), or an answer it cannot read (`Garbled`,
`httpx.DecodingError`). A 2xx requires that this delivery was applied, a 4xx that
it was refused; a 5xx, a 3xx, or an HTML page of an intermediary, says nothing.
`Classify`, `ParseBody` and `RetryDelay` are the functions of the same names, and
`Read` is `_raise_for_status`, which passes everything below 400.

A 3xx without a body is therefore a normal return, although httpx follows no
redirect and nothing need have been executed (`redirect`; the cmdlet is put into
`redirected`). `OkMeansApplied` says that this is the one success that can be
false, and in `CmdletCall` it has a verdict of its own, `blank`, which promises
nothing. The tool modules are written for an endpoint that does not redirect:
there a normal return is the verdict `success`.

`GoesOn` abstracts the tools: which cmdlet comes next is left out, and a tool may
stop after any; all of them stop when their first cmdlet fails, and only
`exo_add_email_alias` goes on after a later one does.

`spent` counts seconds. httpx has a timeout for each phase of a request
(`api_client.py:48`, `auth.py:37`), so the longest attempt that misses none waits
5 s for the pool, 5 s to connect, 10 s to write and 30 s to read: `AttemptLimit` is
their sum, 50 s, and `ExchangeLimit` is 35 s. `WorstCase` is the sum of these and
of the sleeps. It assumes that each phase waits once: a body that drips in, each
piece within the read timeout, or an address list on which several connections
are tried, has no bound in the code and none in the model.

Retry-After is whatever `float` accepts. A negative number is a sleep of no time,
one beyond the cap is the cap, one that does not parse is the backoff. `nan` passes
through `min` and makes `asyncio.sleep` raise or return at once, depending on the
interpreter (`RetryAfterNaN`).

`sent`, `applied`, `refused`, `settled`, `redirected`, `exchanges` and `spent` are
history of the world outside; no action of the client reads them except that an
answer must be possible.

### Gateway

`carrier[r]` is the server task that carries request `r`; a task carries one at a
time (HTTP/1.1 keep-alive), which is external, and `ctx[t]` is `_credentials_var`
in its context. `Enter` and `Leave` are `set` and the `finally` that resets;
`Leave` is possible at any time after `Enter`, since the application may return,
raise or be cancelled. The tool of a request runs in a task of its own with a copy
of the context; `StartTool`, the dispatch by the MCP session manager with
`stateless_http=True`, is external, `BuildClient` is `client_factory`. A tool may
run on after its request has left. A credential is named after the tenant that
sent it, so a request that lacks a header still has a sender.

`PrivateRequests` has no tasks and no contexts: a request on `/mcp` is refused
for what its own headers lack, or works, with its own credentials, until its tool
ends. `Stage` is the mapping. A tool that is not configured counts as refusing its
request, which no request allows by then, so the refinement includes that the
answer `not_configured` never goes to a request that had its headers.

### Directory, AddressBook, EmailAlias

`Directory` keeps the successive states of the mailbox in `log`, and for each
server which of them it shows (`at`). A call is served by one server throughout,
the one that also takes its write: this is what the comment at
`exo_mcp/tools/mailbox.py:147-153` observed. The holders of foreign addresses do
not change (`Foreign`). Each call goes through `read`, `check` (one action per
requested address: `SkipAtOnce`, `FoundElsewhere`, `FoundHere`, `FoundNowhere`,
`LookupFails`), `write` and `confirm`. The write follows `CmdletCall`: up to
`MaxRetries + 1` deliveries, each may take effect; success needs one; failure
says nothing. `LateDelivery` lets deliveries take effect after the verdict.
`Disciplined` makes every writer wait until the directory is replicated and no
call runs, the docstring's "wait for replication"; its alternative, confirming
with `exo_get_mailbox`, is weaker, since the confirming read may see a server that
the next call does not use.

`AddressBook` is the promise: addresses are only added, only those asked for,
and the primary address is an administrator's matter. `Write(c)` is `CmdletCall` for
the one write of call `c`: sent when the call reaches `write`, with the deliveries
counted so far as its effects, and the call's progress as its verdict.
`MailboxSettings` and `Permissions` have the same mapping.

### GroupMembership

One group, one member, any number of calls. The group's type and whether it is
synchronized are fixed and arbitrary, and so is `hides`: the look before an add may
miss a present member, because he is beyond the one page of 200 that is read, or
because the caller names him by a UPN or secondary address, which no projected
field holds. `Change` and `Refuse` are Exchange (external). `Change` is possible
when there is something to change; its answer may also fail to say so. `Refuse`
changes nothing, and why is Exchange's own affair: a role that is missing or was
withdrawn between two attempts, an expired token, any other error. So `forbidden`
(401 or 403) can answer any delivery, also after an earlier one took effect, and a
remove can meet it in its token exchange, before anything is sent (`TokenFails`;
an add has minted its token for the reads by then, where no name is given to the
error). The code names all of these `bypass_not_permitted` when the switch is set.
What `NamedRefusalIsFinal` says is what is left of that name: the delivery that was
answered changed nothing and never will; an earlier one may have.

The wording of the refusal of a duplicate is not known to the code
(`groups.py:23-28`), so `duplicate` (matched by the markers) and
`duplicate_other` are both possible. The reply `duplicate_error` is the
`upstream_error` or `invalid_argument` that the latter turns into. `changed` and
`witnessed` are history: which deliveries changed the membership, and during which
calls the member was in the group. The directory is one copy here; replication
delay is studied in `EmailAlias`.

### MailboxSettings

A mailbox is a record of the fields the tools set. Archive, litigation hold and
holds in place are one `hold`; the two messages are one field, and so are the two
dates of a schedule; an argument that the validation refuses is `Bad`. Each call has
the steps its tool has in the code: forwarding reads (`before`), writes and reads
back (`after`); the auto-reply and the conversion write and read back; hiding only
writes; the getters only read, and `exo_get_mailbox` may ask for the size after
that (`Measure`), so that its advice joins two moments. What the advice is held against
(`Free`) is the promise of `_common.py:20` and of the docstrings, below 50 GB, and
not the comparison the code makes. `Parameters` is what is
put into the cmdlet: `None` is dropped by `invoke`, `CLEAR` becomes `None` as a
value. `Written` leaves every other field alone; that the endpoint merges by field
is external, but is what the code relies on. `NotFound` is the branch that blames
the forwarding target.

The administrator (external) sets an outside forwarding address, puts the
mailbox on hold, or deletes it; mail makes it grow. Both stand for everything that
can come between two reads.

### Permissions

FullAccess, SendAs and the partnership of a device are grants of one set, `acl`.
`Apply` is Exchange: a delivery is carried out when there is something to change
and refused otherwise (the comment at `exo_mcp/tools/permissions.py:101`); the
client sees the answer of one of the deliveries, and a grant to a stranger ends in an
error. The tools grant and remove entries of the kind `allow` only, but the listings
return Deny and inherited ones like any other, their flags projected and never
filtered by. `told` is what a reader of the listings knows of a right: that it is
held by a grant of its own, that all there is for it is flagged, or that there is
nothing. `CheckFirstThenAct` promises him something in the first case and in the
last; a caller who takes a flagged entry for a grant and removes it is refused. SendOnBehalf is the read-merge-write over
`Directory`, with the four writings of a name the code compares (`Same`) and the
two it compares on reading back (`Verified`); `Normalise` is the directory, which
replaces a name by the object id as tests against the real tenant observed.
`orderly` is chosen at first and never changes: calls take turns and no delivery
outlives the client's patience, or anything goes.

### JsonCap, MobileDevices

Text is abstracted to its length: a list is the sequence of the lengths of its
serialized prefixes, which grow with each item, and a result its length in full
with its lists and the length of the truncation markers. A bare list is a result
whose markers include the object put around it, so that `_truncate_list` is the same
search. `BeginSearch`, `Probe` and `Cut` are the loop, one iteration per step.
`MobileDevices` puts `List` before it: the endpoint (external) returns all devices
or heeds the page size, the tool cuts to `Capped` and sets `has_more`. Other tools
enter with their result (`OtherResults`).

`CappedText` knows no search: it goes from a result to its text in one step, and
says which text that is, the one with the longest start of the first longest list
that fits. In `JsonCap` that step is the last of the loop, the ones before it
stutter.

## Runs

| Run | Bounds | Distinct states | What it shows |
|---|---|---|---|
| `transport` | 2 cmdlets, 3 attempts each, every wait as long as it can be, Retry-After absent, negative, NaN, small or huge | 601,712 | the seven invariants, that every call ends, that `CmdletCall` is implemented |
| `transport_budget` | 2 cmdlets, only reading takes time, a second less than its timeout | violation | the 120 s budget does not hold |
| `transport_raises` | as `transport` | violation | exceptions other than `ExoError` leave `invoke` |
| `gateway` | 3 requests, 2 tasks, 2 tenants, 7 kinds of request | 67,860 (with symmetry) | isolation, clean contexts, that `PrivateRequests` is implemented |
| `alias_disciplined` | 2 calls, 2 servers, 2 attempts, 2 changes by the administrator | 594,600 | accepted additions stay and replicate; `AddressBook` is implemented |
| `alias_concurrent` | 3 calls, 2 servers, 2 attempts, late deliveries, 1 change | 3,057,736 (with symmetry) | truthful results, no foreign address, losses only by stale reads |
| `alias_late_write` | 1 writing call, late deliveries | violation | the primary address is put back by a late write |
| `groups` | 2 adds, 1 remove, 2 attempts, racing with late deliveries or taking turns, 5 kinds of group | 8,487,003 (with symmetry) | answers are earned, named refusals are final, and with turns an answer is so when it is given |
| `groups_repeat` | 2 adds, 1 remove, 1 attempt | violation | a present member whom the precheck misses is an error |
| `mailbox_settings` | 2 calls of any two of 11 requests, 2 servers, 2 attempts, late deliveries, 1 change by the administrator, 1 growth over the limit | 3,568,960 (with symmetry) | tools do not disturb each other's fields; reports, blame and advice are true |
| `permissions` | 2 calls of any two of 16 requests, 2 servers, 2 attempts, racing or taking turns, 3 initial sets of entries | 3,654,518 (with symmetry) | definite answers hold, listing first and minding the flags spares the refusal, delegates are lost only by stale writes |
| `mobile_devices` | up to 5 devices, limit up to 4, cap 15, results with 0, 1 or 2 lists | 3,975 | the search ends with the longest prefix that fits; the text is the one `CappedText` gives; the reader can tell that something is missing |

Why these bounds are enough: an attempt interacts with its predecessors only
through what they left behind, so two attempts show a retry and the third, in
`transport`, one that is neither first nor last. Two cmdlets show everything that
passes from one to the next (the token, late deliveries); that the token is fetched
once for any number of them is proved. Three requests on two tasks give a reused task next to an overlapping
one. Two calls on two servers are the smallest stale read; every mailbox over
three own addresses is an initial state, so each requested address may be
primary, an alias or free. A wait of `transport` takes its limit only, since `spent`
adds up and decides nothing. A tool that goes on after its second cmdlet failed
would issue a third, which is left to the proofs (`GoesOn`). The groups of
`groups` are a plain one whose member is seen, one whose member may be missed, and
one for each named restriction. In `mailbox_settings` and `permissions` any tool may be
the one that comes in between, and everything said of one call names at most one
other. The lists of `mobile_devices` fit the cap by themselves, exactly, in part
or not at all, and the limit is below, at and above the number of devices. For the
seven components the theorems below remove the bounds from all safety properties.

### The runs that find a disagreement

* `transport_budget`: `api_client.py:50` counts the retries of one cmdlet; tools
  run up to three and more. The trace has two, each slow in all three attempts,
  and only in reading; with the other phases of the timeout even one cmdlet is
  enough, since three attempts of 50 s are past 120 s.
* `transport_raises`: `README.md:202` says tools never raise. A 200 of the token
  endpoint that is not JSON raises `ValueError` in `auth.py:201`, and a scalar
  `Value` raises `TypeError` in `api_client.py:254`; tools catch `ExoError` only.
* `alias_late_write`: `mailbox.py:213` says the tool never changes the primary. It
  does write it, as it was read; if the write takes effect late, a promotion made
  meanwhile is undone, although all callers waited.
* `groups_repeat`: `groups.py:119` says a present member is reported as
  `already_member` rather than an error; `docs/modules/groups.md` accepts the race
  of two adds, but a group with more than 200 members, or a member named by an
  address the precheck does not compare, needs no race.

### Disagreements seen without a run

* `mailbox.py:166`, `:237` and `:281` say a shared mailbox is licence-free only
  under 50 GB, as does `_common.py:20`; line 174 asks for `>`, so one of exactly
  50 GB counts as free. `Required` is the comparison of the code, `Free` the
  promise; `AdviceWasTrue` names the size at which they differ as its exception.
* `api_client.py:308-312` takes care that an upstream fault is not read as "no
  records", and `_raise_for_status` (`:320-322`) lets a 3xx without a body through
  as just that. `OkMeansApplied` names it as its exception.
* `groups.py:58-66` explains every `unauthorized` of a call with the bypass switch
  by the switch: also a 401, a 403 for another reason, and, for a remove, a token
  exchange that was refused.
* `exo_get_mailbox_permission` and `exo_get_recipient_permission`
  (`permissions.py:371-433`) are to be called before a grant or a removal "to see
  current state", and list Deny and inherited entries among the trustees who hold
  the right; the removal of one of those is refused. `CheckFirstThenAct` promises
  nothing about them.
* The contract of `exo_add_sendonbehalf_permission` in
  `docs/tickets/PRD-20480-r2.md:69` wants `invalid_argument` for a delegate that does not
  resolve. When Exchange says so by an error, the code hands `not_found` on
  (`ReadFails`); only an empty answer becomes `invalid_argument`.
* `_json.py:3-5` says that no result can blow past the cap. One whose remainder,
  beside its longest list, is too long does; `OverCapOnlyByRest` (theorem
  `CapHolds`) says that nothing else does.
* `devices.py:54-68` asks the endpoint for as many records as it keeps and reports
  more when it gets more. If the endpoint heeds the page size, `has_more` is
  always false; `AccountsForAll` excepts exactly this case, so it
  would not catch it; what it catches is a mistake at the limit or the cap.

## Fairness

`Transport!FairSpec` assumes weak fairness of the client and nothing of the
endpoint: httpx bounds every wait and `asyncio.sleep` returns, so a client that
is not done can always take a step. `EmailAlias!FairSpec` assumes that a started
call goes on (that is `Transport!Termination`) and that the directory catches up,
which is what the note returned to the caller says. `MobileDevices!FairSpec`
assumes that the code runs: nothing in it waits but the fetch. The other modules
have only safety properties: their calls are sequences of cmdlets without a loop
of their own, so that they end is `Transport!Termination` again.

## Proofs

For every value of the constants that satisfies the modules' assumptions. Where
a theorem needs more (`Patient`, `orderly`), its statement says so.

### TransportProofs

The seven invariants of the run `transport`, and `Spec => Abstract!Spec`, the
refinement of `CmdletCall`. The invariants are not inductive. `Control` adds what
the program counter says about the loop (which deliveries of the running cmdlet
have been sent, that later cmdlets are untouched); `Tokens` ties the exchange
counter to `token`; `OneFate` says no delivery is both applied and refused;
`RefusalIsFinal` carries a refusal from the delivery to the verdict;
`SettledHasVerdict` says an answered delivery ended its cmdlet, and
`RedirectHasVerdict` that a redirect did. Time has its own argument: `spent` is
bounded by the attempts made so far, cmdlet by cmdlet, each of at most
`AttemptLimit`, for any set of times within the limits and any numbers in
Retry-After.

`EveryStepCounts` is the safety half of `Termination`: `Left` counts the steps the
client can still take (cmdlets left, attempts left of this one, steps left of this
attempt), every step of the client lowers it, and no step of the endpoint raises
it.

### GatewayProofs

All properties of the run `gateway`. The strengthening makes explicit what the
middleware relies on: `OnePerTask`, and that a task which takes up a request has
an empty context (`NothingLeftBehind`), so that the value `reset` restores is the
default (`Saved`). `Owned` then follows the credentials from context to client.
`PrivacyRefinement` rests on these: a tool that starts does so on a complete
request of its own (`AdmissionIsConfiguration`), and what it posts carries its
sender's credentials.

### GroupMembershipProofs

All four properties of the run `groups`. The invariant follows an answer from the
delivery that earned it to the reply: `Sent` says which deliveries can be
out, and that one which changed something is not, `Fresh` that a call before its
write has sent and heard nothing, `Heard` that a permission refusal answers a
delivery that is used up and changed nothing, `Told` the same of the reply. `Rights` says that adds change no restricted group, and `Seen` that a
running call was there at every moment the member was. The
answer that holds on return needs that calls take turns: then the membership is
what the running call left. `EachChangesOnce` is the action property behind it:
a retry never changes the group a second time.

### EmailAliasProofs

All safety properties of its two passing runs and the refinement of `AddressBook`.
`WellRead` says that what a call has read and decided is true of some state of the
mailbox, `Kept` that an accepted address is there, removed by the administrator or
overwritten by a call that read a list without it. These need no discipline.
`Patient` (callers and administrator wait, and so does the client) is the
hypothesis of `NothingIsLost`, `AddsOnly`, `PrimaryIsAdmins` and `Idempotent`;
`InTurn` then says that the one busy call has read the newest list, so that its
write adds to it. `PrimaryIsAdmins` is the complement of the run
`alias_late_write`: without late deliveries the promise of `mailbox.py:213` holds.

`Idempotent` (`mailbox.py:598`) needs `Planned` besides: a call writes only if it
was asked for an address that the list it read lacked. A delivery that adds
nothing new is therefore never the first of its call. `WritesAreCmdlets`, the
refinement of `CmdletCall` by every call, holds without `Patient`.

### MailboxSettingsProofs

All properties of the run. `Counted` relates a call's place to its deliveries,
`WellSent` says that whatever is sent is well formed, which is what makes mailboxes
of mailboxes. `Told` collects, per call, what its answers rest on: that a state
read before lies before its first delivery (`ReadFirst`), one read back after it
(`ReadBack`, `Landed`), and where blame and advice come from (`Blamed`,
`Advised`).

`Authored` gives each field of the mailbox its author: a field that neither a
call nor the administrator set is as it was at first, and one that only calls set
has a value one of them asked for. `NoInterference` follows from it, and so does
`Idempotent` (the annotations at `mailbox.py:271`, `307`, `348` and `472`): a
delivery changes nothing if each of its fields was set before, by all to the value
it asks for. `WritesAreCmdlets` needs `Conserved`: no delivery of a write is
forgotten.

### PermissionsProofs

All properties of the run. `Turns` and `InPlace` say, for calls that take turns,
that only the running call has deliveries out, and that what Exchange answered to
one of them still holds; `ToldIsSo` that what a listing told is true until it is
forgotten. For the delegates, `Read`, `Kept`, `FoundOut`, `WellNamed` and
`Unconfirmed` do what `WellRead` and `Kept` do for addresses.

`RetriesAreHarmless` adds `Standing`, that a delegate list which was delivered
is, up to the writing of names, the newest one until its call ends: the retry of
a grant is refused, that of a list names the same people once more. It cannot
hold without turns, where a retry writes over what came between.
`WritesAreCmdlets` is stated for calls that are not orderly: an orderly call drops
the deliveries it gives up, and `Write(c)` counts them. Every orderly behaviour is
one of the others but for that.

### MobileDevicesProofs

The invariants, for results of any size. `Searching` is the loop invariant: a
prefix that fits is not above `hi`, and `lo` fits or is zero. It rests on `CutGrows`
(the text grows with the items), `MidBetween` and `WholeDoesNotFit` (a result over
the cap does not fit with its markers either). `Framed` ties a listing's result to
what was fetched. `CapHolds` says which texts can be over the cap at all.

`CapRefinement` is the refinement of `CappedText`, and `OneText` says that
`CappedText` allows at most one text for a result, so that together they leave the
implementation no choice. `HalvedEachTurn` is the measure behind `Terminates`: each
turn of the loop leaves at most half of the candidates.

### What is a theorem and not a property of a run

`ClientProgresses` and `SearchHalves` (the two measures), `ChangesOnce`,
`RepeatsChangeNothing` (in `EmailAlias` and `MailboxSettings`) and
`RetryChangesNothing` are action properties that only the proofs establish in this
project; `OverCapOnlyByRest` and `AdmittedMeansConfigured` are implied by a
refinement that is run. `Write(c)!Spec` has a parameter, which a configuration
cannot name; it takes a definition per call to have TLC evaluate it.

### Only model-checked

Liveness (`Transport!Termination`, `EmailAlias!AcceptedShowsEverywhere`,
`MobileDevices!Terminates`) is beyond the proof system; of the first and the last
the decreasing measure is proved, and what remains is fairness. The four
violations are traces of TLC. What `Resolved`, `json.dumps` or a list of prefixes
is in terms of characters is data and not the object of a theorem; `IsList` states
what is used of it.

## Operators for injected faults

Modules contain a few operators marked "fault injected" directly before the
definition they distort. No specification uses them; each property of a
passing run fails when the one named for it in `PROJECT.json` takes the place of
the faithful definition.

## Not modelled

* Cryptography and key formats (`auth.py`): decoding PEM or PFX material and signing
  an assertion. They have no state; their outcomes are actions of `Transport`. The
  token exchange is therefore listed as modelled in part.
* Message texts, header wording, `project` and the selection of fields, the parsing
  of dates and time zones: data that no property tells apart.
* `auto_mapping` of FullAccess, which is passed on.
* Settings, `/health`, start-up wiring and the lifespan hand-over: without state
  of their own, or read once.
* Tests and the mocked upstream: not part of the program; they were read for what
  the code is meant to do.
* Answers of Exchange that the repository gives no reason to expect: a recipient
  without `Identity` (`mailbox.py:684-685` reports `already_present`) or a
  delegate without object id (`permissions.py:179-184` leaves it out of the
  comparison); two recipients in one group of whom one has the other's address as
  its name or alias (`groups.py:81-92` takes either for the member).
* Redirects, in the tool modules: a blank verdict there would be a write that was
  not made and reads back as unverified, or a read that finds nothing.
* `client.post` is abstracted to its outcome, uvicorn and the MCP session manager
  to the tasks they make.

## Status and possible extensions

Every tool of the server is modelled, every safety property that is checked is
also proved. `Transport` and the tools meet in `CmdletCall`: the client is proved
to implement it, and so is, call by call, the write of three of the four tool
modules. The write of `GroupMembership` has the same shape and is not mapped: of a
call that takes turns it forgets the deliveries that are given up. What could be added: the composition of `Transport`
with a tool in one state space; several groups and nested membership; the
cancellation of a tool by its client in the tool modules (now in `Gateway` only).
