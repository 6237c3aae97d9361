---------------------------- MODULE MCTransport -----------------------------
(***************************************************************************)
(* Transport with the numbers of api_client.py and auth.py: two retries,    *)
(* backoff capped at 8 s, and httpx timeouts that hold for each phase of a  *)
(* request apart, so that an attempt that misses none of them takes up to   *)
(* 50 s and a token exchange 35 s.  Every wait takes its limit: spent only  *)
(* adds up and decides nothing, so a shorter wait shows nothing more.  A    *)
(* Retry-After is negative, within the cap or beyond it.  Two cmdlets show  *)
(* the kept token and a late delivery of an earlier cmdlet; a tool that     *)
(* goes on after its second cmdlet failed needs a third, and is left to the *)
(* proofs.  The budget run lets nothing but the read phase take time, and   *)
(* that a second less than its timeout.                                     *)
(***************************************************************************)
EXTENDS Transport

Connect   == 5
Write     == 10
Pool      == 5
PostRead  == 30
TokenRead == 15

MCAttemptLimit  == Pool + Connect + Write + PostRead
MCExchangeLimit == Pool + Connect + Write + TokenRead

MCPostTimes   == {AttemptLimit}
MCTokenTimes  == {ExchangeLimit}
MCRetryAfters == {-1, 3, 60}

MCLongRetries  == {60}
MCInTimePosts  == {PostRead - 1}
MCInTimeTokens == {TokenRead - 1}
=============================================================================
