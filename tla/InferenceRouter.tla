--------------------------- MODULE InferenceRouter ---------------------------
(***************************************************************************)
(* Which provider answers a prompt (vyrden-airoom/src/ai/inference/        *)
(* router.ts): the providers are tried in the order of a chain; what is    *)
(* known of a provider's availability is kept in one cache with one expiry *)
(* for all of them.  Availability is asked over the network, so requests   *)
(* overlap between the question and the answer.                            *)
(*                                                                         *)
(* Nothing passes a configuration to the router: its mode is "auto".       *)
(***************************************************************************)
EXTENDS Naturals, Sequences, FiniteSets

CONSTANTS
  Prompts,      \* requests: generate, or generateStream for those in Streamed
  Streamed,
  Freshness,    \* how long an observation is cached, in ticks
  MaxTick,      \* bound: the last tick
  MaxFlips,     \* bound: changes of a provider's availability
  MaxChunks     \* bound: chunks one provider sends before its stream ends or breaks

ASSUME RouterAssumption ==
  /\ Streamed \subseteq Prompts
  /\ Freshness \in Nat \ {0} /\ MaxTick \in Nat /\ MaxFlips \in Nat /\ MaxChunks \in Nat

ProviderChain == <<"cloudflare", "minimax", "ollama", "openrouter">>
Observed == {"cloudflare", "minimax", "ollama"}
Networked == {"cloudflare", "ollama"}  \* minimax only looks at its keys

(* How a provider's reply ends: refused (no connection, or a status that   *)
(* is not ok), ok with an error for a body, ok with nothing said, ok with  *)
(* text; a stream that was accepted ends after its done mark, without one, *)
(* or at a line that cannot be parsed.                                     *)
Replies == {"refused", "errorBody", "nothing", "text"}
StreamEnds == {"refused", "marked", "cut", "garbled"}

VARIABLES
  up,            \* the providers that are available
  keyed,         \* OPENROUTER_API_KEY is set
  providerCache, \* what is cached of each: "absent", or whether it was available
  cacheExpiry,
  tick,
  flips,
  prompts        \* requests in progress

routerVars == <<up, keyed, providerCache, cacheExpiry, tick, flips, prompts>>

NewPrompt == [stage |-> "idle", at |-> 1, since |-> 0, failed |-> {}, skipped |-> {}, answeredBy |-> <<>>, chunks |-> 0,
              got |-> "none"]

RouterInit ==
  /\ up \in SUBSET Observed /\ keyed \in BOOLEAN
  /\ providerCache = [p \in Observed |-> "absent"] /\ cacheExpiry = 0
  /\ tick = 0 /\ flips = 0
  /\ prompts = [r \in Prompts |-> NewPrompt]

RouterTypeOK ==
  /\ up \subseteq Observed /\ keyed \in BOOLEAN
  /\ providerCache \in [Observed -> {"absent", "available", "unavailable"}]
  /\ cacheExpiry \in 0 .. MaxTick + Freshness /\ tick \in 0 .. MaxTick /\ flips \in 0 .. MaxFlips
  /\ \A r \in Prompts :
       /\ prompts[r].stage \in {"idle", "check", "call", "done", "gaveUp"}
       /\ prompts[r].at \in 1 .. Len(ProviderChain) + 1

RouterOff ==
  /\ up = {} /\ keyed = FALSE /\ providerCache = [p \in Observed |-> "absent"] /\ cacheExpiry = 0
  /\ tick = 0 /\ flips = 0
  /\ prompts = [r \in Prompts |->
       [NewPrompt EXCEPT !.stage = "gaveUp", !.at = Len(ProviderChain) + 1, !.skipped = Observed \cup {"openrouter"}]]

-----------------------------------------------------------------------------
(* checkProvider, the cached case.                                         *)
Cached(p, cache, expiry) == tick < expiry /\ cache[p] # "absent"

Unusable(p, cache, expiry) ==
  IF p = "openrouter" THEN ~keyed ELSE Cached(p, cache, expiry) /\ cache[p] = "unavailable"

(* The loop over the chain from position n on, up to its next await or its *)
(* end: what is known to be unavailable is passed over.                    *)
TriedFrom(prompt, n, cache, expiry) ==
  LET usable == {i \in n .. Len(ProviderChain) : ~Unusable(ProviderChain[i], cache, expiry)}
      next == CHOOSE i \in usable : \A j \in usable : i <= j
      passed == {ProviderChain[i] : i \in n .. (IF usable = {} THEN Len(ProviderChain) ELSE next - 1)}
      p == ProviderChain[next]
  IN IF usable = {}
     THEN [prompt EXCEPT !.stage = "gaveUp", !.at = Len(ProviderChain) + 1, !.skipped = @ \cup passed]
     ELSE IF p = "openrouter" \/ Cached(p, cache, expiry)
     THEN [prompt EXCEPT !.stage = "call", !.at = next, !.skipped = @ \cup passed]
     ELSE [prompt EXCEPT !.stage = "check", !.at = next, !.skipped = @ \cup passed, !.since = tick]

Asking(r) == ProviderChain[prompts[r].at]

(* generate or generateStream is called.                                   *)
Ask(r) ==
  /\ prompts[r].stage = "idle"
  /\ prompts' = [prompts EXCEPT ![r] = TriedFrom(@, 1, providerCache, cacheExpiry)]
  /\ UNCHANGED <<up, keyed, providerCache, cacheExpiry, tick, flips>>

(* The provider has said whether it is available; the expiry counts from   *)
(* the question, and is that of every provider.                            *)
Checked(r) ==
  LET p == Asking(r)
      cache == [providerCache EXCEPT ![p] = IF p \in up THEN "available" ELSE "unavailable"]
      expiry == prompts[r].since + Freshness
  IN /\ prompts[r].stage = "check"
     /\ providerCache' = cache /\ cacheExpiry' = expiry
     /\ prompts' = [prompts EXCEPT ![r] =
          IF p \in up THEN [@ EXCEPT !.stage = "call", !.since = 0]
          ELSE TriedFrom([@ EXCEPT !.skipped = @ \cup {p}, !.since = 0], @.at + 1, cache, expiry)]
     /\ UNCHANGED <<up, keyed, tick, flips>>

(* Mutant: an error in the body is taken for an answer.                    *)
CloudflareIgnoresErrors(streamed) == IF streamed THEN StreamEnds \ {"refused"} ELSE Replies \ {"refused"}

(* Each provider: the replies it answers with, any other makes it throw.   *)
(* What a stream of cloudflare or minimax cannot parse is passed over, and *)
(* its reader is always told that it is done.                              *)
CloudflareAnswers(streamed) ==
  IF streamed THEN StreamEnds \ {"refused"} ELSE Replies \ {"refused", "errorBody"}

MiniMaxAnswers(streamed) ==
  IF streamed THEN StreamEnds \ {"refused"} ELSE Replies \ {"refused", "errorBody"}

OllamaAnswers(streamed) ==
  IF streamed THEN {"marked", "cut"} ELSE Replies \ {"refused"}

OpenRouterAnswers(streamed) ==
  IF streamed THEN {"marked", "cut"} ELSE Replies \ {"refused", "errorBody"}

AnswersOf(p, streamed) ==
  CASE p = "cloudflare" -> CloudflareAnswers(streamed)
    [] p = "minimax"    -> MiniMaxAnswers(streamed)
    [] p = "ollama"     -> OllamaAnswers(streamed)
    [] OTHER            -> OpenRouterAnswers(streamed)

RepliesTo(r) == IF r \in Streamed THEN StreamEnds ELSE Replies

(* The provider answers, or its stream has come to its end.                *)
Answered(r) ==
  /\ prompts[r].stage = "call"
  /\ \E reply \in AnswersOf(Asking(r), r \in Streamed) :
       prompts' = [prompts EXCEPT ![r].stage = "done", ![r].chunks = 0, ![r].got = IF r \in Streamed THEN @ ELSE reply,
         ![r].answeredBy = IF r \in Streamed THEN @ ELSE Append(@, Asking(r))]
  /\ UNCHANGED <<up, keyed, providerCache, cacheExpiry, tick, flips>>

(* A chunk is passed on.                                                   *)
Chunk(r) ==
  /\ prompts[r].stage = "call" /\ r \in Streamed /\ prompts[r].chunks < MaxChunks
  /\ prompts' = [prompts EXCEPT ![r].chunks = @ + 1, ![r].answeredBy = Append(@, Asking(r))]
  /\ UNCHANGED <<up, keyed, providerCache, cacheExpiry, tick, flips>>

(* Mutant: the provider that failed is tried again.                        *)
FailedTriedAgain(r) ==
  /\ prompts[r].stage = "call"
  /\ RepliesTo(r) \ AnswersOf(Asking(r), r \in Streamed) # {}
  /\ prompts' = [prompts EXCEPT ![r] =
       TriedFrom([@ EXCEPT !.failed = @ \cup {Asking(r)}, !.chunks = 0], @.at, providerCache, cacheExpiry)]
  /\ UNCHANGED <<up, keyed, providerCache, cacheExpiry, tick, flips>>

(* Mutant: after a failure the next provider but one is tried.             *)
FailedSkipsOne(r) ==
  /\ prompts[r].stage = "call"
  /\ RepliesTo(r) \ AnswersOf(Asking(r), r \in Streamed) # {}
  /\ prompts' = [prompts EXCEPT ![r] =
       TriedFrom([@ EXCEPT !.failed = @ \cup {Asking(r)}, !.chunks = 0], @.at + 2, providerCache, cacheExpiry)]
  /\ UNCHANGED <<up, keyed, providerCache, cacheExpiry, tick, flips>>

(* The call throws, or the stream breaks, whatever it has passed on: the   *)
(* next provider is tried.                                                 *)
Failed(r) ==
  /\ prompts[r].stage = "call"
  /\ RepliesTo(r) \ AnswersOf(Asking(r), r \in Streamed) # {}
  /\ prompts' = [prompts EXCEPT ![r] =
       TriedFrom([@ EXCEPT !.failed = @ \cup {Asking(r)}, !.chunks = 0], @.at + 1, providerCache, cacheExpiry)]
  /\ UNCHANGED <<up, keyed, providerCache, cacheExpiry, tick, flips>>

(* A provider becomes available or stops being so; time passes.            *)
Flip(p) ==
  /\ flips < MaxFlips
  /\ flips' = flips + 1
  /\ up' = IF p \in up THEN up \ {p} ELSE up \cup {p}
  /\ UNCHANGED <<keyed, providerCache, cacheExpiry, tick, prompts>>

RouterTick ==
  /\ tick < MaxTick
  /\ tick' = tick + 1
  /\ UNCHANGED <<up, keyed, providerCache, cacheExpiry, flips, prompts>>

RouterStep(r) == Ask(r) \/ Checked(r) \/ Answered(r) \/ Chunk(r) \/ Failed(r)

RouterNext ==
  \/ \E r \in Prompts : RouterStep(r)
  \/ \E p \in Networked : Flip(p)
  \/ RouterTick

(* A question to a provider has a time limit; a call ends when the         *)
(* provider ends it.                                                       *)
RouterFairness == \A r \in Prompts : WF_routerVars(RouterStep(r))

RouterSpec == RouterInit /\ [][RouterNext]_routerVars /\ RouterFairness

-----------------------------------------------------------------------------
Position(p) == CHOOSE i \in 1 .. Len(ProviderChain) : ProviderChain[i] = p

(* What a prompt is answered with follows the chain, one provider at a     *)
(* time and none twice; each provider before the answering one failed this *)
(* prompt or was passed over, and a prompt that no provider answers was    *)
(* failed by or passed over all of them; the error a cloud provider puts   *)
(* in an accepted reply is not passed on as its answer (router.ts:63-125,  *)
(* cloudflare-provider.ts:104, minimax-provider.ts:83).                    *)
ChainFollowed ==
  \A r \in Prompts :
    LET prompt == prompts[r]
        by == prompt.answeredBy
    IN /\ \A i, j \in 1 .. Len(by) : i < j => Position(by[i]) <= Position(by[j])
       /\ prompt.stage # "idle" =>
            {ProviderChain[i] : i \in 1 .. prompt.at - 1} = prompt.failed \cup prompt.skipped
       /\ prompt.failed \cap prompt.skipped = {}
       /\ r \notin Streamed => Len(by) = (IF prompt.stage = "done" THEN 1 ELSE 0)
       /\ r \notin Streamed /\ prompt.got = "errorBody" => Asking(r) = "ollama"

(* Every prompt ends (router.ts:54-88, 90-125).                            *)
PromptsEnd == \A r \in Prompts : prompts[r].stage # "idle" ~> prompts[r].stage \in {"done", "gaveUp"}

(* Prompts follow the chain of providers and end.                          *)
RoutesKept == [](RouterTypeOK /\ ChainFollowed) /\ PromptsEnd
=============================================================================
