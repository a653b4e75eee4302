----------------------------- MODULE AgentStreams -----------------------------
(***************************************************************************)
(* The AI room's streams and invocations (vyrden-airoom/src/routes/api.ts, *)
(* middleware/agent-invoker.ts, ai/cloudflare-workers.ts): a completion, an*)
(* agent's answer and the progress of a model pull are passed on as server *)
(* sent events while their source sends them.  The headers are out before  *)
(* the source is asked; an error after that cannot be answered any more.   *)
(*                                                                         *)
(* The stream of the inference router is seen from outside: texts, then a  *)
(* done mark, an end without one, or an error (InferenceRouter tells which *)
(* provider it is).  Cloudflare and Ollama send lines over the network,    *)
(* where a line may arrive in two parts.                                   *)
(***************************************************************************)
EXTENDS Naturals, Sequences
LOCAL INSTANCE SequencesExt

CONSTANT MaxStreamLines     \* lines or texts that a source sends (bound)

ASSUME AgentStreamsAssumption == MaxStreamLines \in Nat

(* POST /api/chat, /api/agent/:id/invoke and .../invoke/stream, with and   *)
(* without useCloudflare, and /api/models/pull; a request may lack its     *)
(* prompt or model, or name no agent.                                      *)
StreamRoutes == {"chat", "whole chat", "invoke", "cloudflare invoke", "stream", "cloudflare stream", "pull"}
Flawed == {"chat", "whole chat", "invoke", "stream", "pull"}

VARIABLES
  stream,     \* the request: its route, whether it is flawed, where it is, and the client's presence
  source,     \* what it reads: the lines or texts sent so far, whether one has come in part, its end
  told      \* what the client was sent

streamVars == <<stream, source, told>>

TextLine(n) == <<"text", n>>
Part1(n) == <<"first part", n>>
Part2(n) == <<"second part", n>>
NoText == <<"text", 0>>           \* a chunk without text
DoneChunk == <<"done", 0>>
ErrorChunk == <<"error", 0>>
End == <<"[DONE]", 0>>

StreamWaits(route) == IF route \in {"whole chat", "invoke", "cloudflare invoke"} THEN "asking" ELSE "streaming"

StreamsInit ==
  /\ \E route \in StreamRoutes, flawed \in BOOLEAN :
       /\ flawed => route \in Flawed
       /\ stream = [route |-> route, flawed |-> flawed, at |-> "received", here |-> TRUE]
  /\ source = [lines |-> 0, half |-> FALSE, asked |-> <<>>]
  /\ told = <<>>

StreamsOff ==
  /\ stream = [route |-> "chat", flawed |-> TRUE, at |-> "received", here |-> TRUE]
  /\ source = [lines |-> 0, half |-> FALSE, asked |-> <<>>] /\ told = <<>>

-----------------------------------------------------------------------------
(* reply.raw.write: what is written to a client that has gone is dropped.  *)
StreamSent(messages) == told' = IF stream.here THEN told \o messages ELSE told

SourceAsked(provider) == source' = [source EXCEPT !.asked = Append(@, provider)]

(* A flawed request is refused; any other is under way once its source is  *)
(* asked, a stream with its headers out.  Ollama, and Cloudflare without   *)
(* its keys or with a status that is not ok, are refusals (SourceRefuses). *)
ReceiveStream ==
  /\ stream.at = "received"
  /\ IF stream.flawed
     THEN stream' = [stream EXCEPT !.at = IF stream.route \in {"invoke", "stream"} THEN "404" ELSE "400"] /\ UNCHANGED source
     ELSE /\ stream' = [stream EXCEPT !.at = StreamWaits(stream.route)]
          /\ SourceAsked(CASE stream.route = "pull" -> "ollama"
                     [] stream.route \in {"cloudflare invoke", "cloudflare stream"} -> "cloudflare"
                     [] OTHER -> "router")
  /\ UNCHANGED told

Streams(routes) == stream.at = "streaming" /\ stream.route \in routes

MoreLines == source.lines < MaxStreamLines
NextLine == source.lines + 1

-----------------------------------------------------------------------------
(* The router's stream, passed on by POST /api/chat as it is.  The invoker *)
(* reads chunk.text, which the router's chunks do not have.                *)
ChatChunk ==
  /\ Streams({"chat"}) /\ MoreLines
  /\ source' = [source EXCEPT !.lines = NextLine]
  /\ StreamSent(<<TextLine(NextLine)>>)
  /\ UNCHANGED stream

InvokedChunk ==
  /\ Streams({"stream"}) /\ MoreLines
  /\ source' = [source EXCEPT !.lines = NextLine]
  /\ StreamSent(<<NoText>>)
  /\ UNCHANGED stream

(* Mutant: the mark of the end is left to the source.                      *)
RouterEndsUnmarked ==
  /\ Streams({"chat", "stream"})
  /\ \E last \in {<<>>, <<DoneChunk>>} : StreamSent(last)
  /\ stream' = [stream EXCEPT !.at = "ended"]
  /\ UNCHANGED source

(* The done chunk ends the loop, as the end of the stream does.            *)
RouterEnds ==
  /\ Streams({"chat", "stream"})
  /\ \E last \in {<<>>, <<DoneChunk>>} : StreamSent(last \o <<End>>)
  /\ stream' = [stream EXCEPT !.at = "ended"]
  /\ UNCHANGED source

(* generateStream throws, after every provider has failed: the invoker     *)
(* makes an error of it that ends the stream as it should; the chat breaks *)
(* off without a word.                                                     *)
RouterThrows ==
  /\ Streams({"chat", "stream"})
  /\ IF stream.route = "chat" THEN stream' = [stream EXCEPT !.at = "broken"] /\ UNCHANGED told
     ELSE stream' = [stream EXCEPT !.at = "ended"] /\ StreamSent(<<ErrorChunk, End>>)
  /\ UNCHANGED source

-----------------------------------------------------------------------------
(* Lines over the network: one arrives whole, or its parts one by one.     *)
LineArrives(sends) ==
  /\ ~source.half /\ MoreLines
  /\ source' = [source EXCEPT !.lines = NextLine]
  /\ StreamSent(sends)

FirstPartArrives(sends) ==
  /\ ~source.half /\ MoreLines
  /\ source' = [source EXCEPT !.half = TRUE]
  /\ StreamSent(sends)

SecondPartArrives(sends) ==
  /\ source.half
  /\ source' = [source EXCEPT !.half = FALSE, !.lines = NextLine]
  /\ StreamSent(sends)

(* CloudflareWorkersAI.generateStream: a part is no line, and passed over. *)
WorkersLine ==
  /\ Streams({"cloudflare stream"})
  /\ \/ LineArrives(<<TextLine(NextLine)>>)
     \/ FirstPartArrives(<<>>)
     \/ SecondPartArrives(<<>>)
  /\ UNCHANGED stream

(* Mutant: only whole lines are passed on.                                 *)
PullKeepsWhole ==
  /\ Streams({"pull"})
  /\ \/ LineArrives(<<TextLine(NextLine)>>)
     \/ FirstPartArrives(<<>>)
     \/ SecondPartArrives(<<>>)
  /\ UNCHANGED stream

(* POST /api/models/pull: each part becomes an event of its own.           *)
PullLine ==
  /\ Streams({"pull"})
  /\ \/ LineArrives(<<TextLine(NextLine)>>)
     \/ FirstPartArrives(<<Part1(NextLine)>>)
     \/ SecondPartArrives(<<Part2(NextLine)>>)
  /\ UNCHANGED stream

(* The reader says that it is done.                                        *)
NetworkEnds ==
  /\ Streams({"cloudflare stream", "pull"}) /\ ~source.half
  /\ StreamSent(IF stream.route = "pull" THEN <<End>> ELSE <<DoneChunk, End>>)
  /\ stream' = [stream EXCEPT !.at = "ended"]
  /\ UNCHANGED source

(* The connection is refused or breaks: fetch or read throws.              *)
NetworkBreaks ==
  /\ Streams({"cloudflare stream", "pull"})
  /\ IF stream.route = "pull" THEN stream' = [stream EXCEPT !.at = "broken"] /\ UNCHANGED told
     ELSE stream' = [stream EXCEPT !.at = "ended"] /\ StreamSent(<<ErrorChunk, End>>)
  /\ UNCHANGED source

(* The answer's status is not ok.                                          *)
SourceRefuses ==
  /\ Streams({"cloudflare stream", "pull"}) /\ source.lines = 0 /\ ~source.half
  /\ StreamSent(IF stream.route = "pull" THEN <<ErrorChunk>> ELSE <<ErrorChunk, End>>)
  /\ stream' = [stream EXCEPT !.at = "ended"]
  /\ UNCHANGED source

-----------------------------------------------------------------------------
(* Without a stream: the chat answers what the router says, or with 500;   *)
(* an invocation asks the router when Cloudflare throws, and answers 200   *)
(* with a status of its own, whoever failed.  Of the router's response the *)
(* invoker reads a field that it does not have.                            *)
WholeChat ==
  /\ stream.at = "asking" /\ stream.route = "whole chat"
  /\ \/ stream' = [stream EXCEPT !.at = "ended"] /\ StreamSent(<<TextLine(1)>>)
     \/ stream' = [stream EXCEPT !.at = "500"] /\ UNCHANGED told
  /\ UNCHANGED source

(* Mutant: an invocation that Cloudflare refused is an error at once.      *)
InvokeAgentOnce ==
  /\ stream.at = "asking" /\ stream.route \in {"invoke", "cloudflare invoke"}
  /\ stream' = [stream EXCEPT !.at = "ended"]
  /\ \/ StreamSent(<<IF Last(source.asked) = "cloudflare" THEN TextLine(1) ELSE NoText>>)
     \/ StreamSent(<<ErrorChunk>>)
  /\ UNCHANGED source

InvokeAgent ==
  /\ stream.at = "asking" /\ stream.route \in {"invoke", "cloudflare invoke"}
  /\ \/ /\ StreamSent(<<IF Last(source.asked) = "cloudflare" THEN TextLine(1) ELSE NoText>>)
        /\ stream' = [stream EXCEPT !.at = "ended"] /\ UNCHANGED source
     \/ /\ Last(source.asked) = "cloudflare" /\ SourceAsked("router")
        /\ UNCHANGED <<stream, told>>
     \/ /\ Last(source.asked) = "router" /\ StreamSent(<<ErrorChunk>>)
        /\ stream' = [stream EXCEPT !.at = "ended"] /\ UNCHANGED source

ClientGoes ==
  /\ stream.here
  /\ stream' = [stream EXCEPT !.here = FALSE]
  /\ UNCHANGED <<source, told>>

StreamsNext ==
  \/ ReceiveStream \/ ChatChunk \/ InvokedChunk \/ RouterEnds \/ RouterThrows
  \/ WorkersLine \/ PullLine \/ NetworkEnds \/ NetworkBreaks \/ SourceRefuses
  \/ WholeChat \/ InvokeAgent \/ ClientGoes

StreamsSpec == StreamsInit /\ [][StreamsNext]_streamVars

-----------------------------------------------------------------------------
ToldLines == SelectSeq(told, LAMBDA e : e \notin {NoText, DoneChunk, ErrorChunk, End})
Marks == SelectSeq(told, LAMBDA e : e \in {DoneChunk, ErrorChunk, End})

(* A client that has stayed is told everything that the router and Ollama  *)
(* sent, in order, the parts of a pulled line one after the other; of what *)
(* Cloudflare sent it is told the lines in order, though not those that    *)
(* arrived in parts (api.ts:224-230,300-309, cloudflare-workers.ts:103).   *)
ToldInOrder ==
  /\ \A m, n \in DOMAIN ToldLines : m < n => ToldLines[m][2] < ToldLines[n][2] \/ (ToldLines[m][1] = "first part" /\ ToldLines[n][1] = "second part")
  /\ stream.here /\ stream.at \in {"streaming", "ended", "broken"} /\ stream.route \in {"chat", "pull"} =>
       {ToldLines[n][2] : n \in DOMAIN ToldLines} \cup {0} = 0 .. IF source.half THEN NextLine ELSE source.lines
  /\ stream.here /\ stream.route = "stream" => Len(told) - Len(Marks) = source.lines

(* The end is told once, after everything else, and an error before it if  *)
(* there was one: who is told the end of a chat or of a pull has been told *)
(* all of it; one that fails is left without an end (api.ts:224-233,292). *)
EndIsLast ==
  /\ Marks \in {<<>>, <<End>>, <<DoneChunk, End>>, <<ErrorChunk, End>>, <<ErrorChunk>>}
  /\ Marks # <<>> => Last(told) = Last(Marks) /\ stream.at = "ended"
  /\ stream.here /\ stream.at = "ended" /\ stream.route \in {"chat", "stream", "cloudflare stream"} =>
       told # <<>> /\ Last(told) = End
  /\ stream.route \in {"chat", "pull"} => Marks # <<ErrorChunk, End>>

(* An invocation is an error only after the router was asked too           *)
(* (agent-invoker.ts:49-74).                                               *)
ErrorsAfterRouter ==
  stream.route \in {"invoke", "cloudflare invoke"} /\ ErrorChunk \in ToSet(told) => Last(source.asked) = "router"

StreamsTold == ToldInOrder /\ EndIsLast /\ ErrorsAfterRouter
=============================================================================
