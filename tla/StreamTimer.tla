---------------------------- MODULE StreamTimer ----------------------------
(***************************************************************************)
(* The token events of a vLLM stream (proxy/proxy.py, StreamTimer): TTFT,   *)
(* TPOT and the output length of every request the proxy, the probes and    *)
(* the load generator see come from it.  The stream arrives in chunks that  *)
(* end anywhere, and may be cut off.  A line is two symbols, what it is     *)
(* about and what it says; a separator is the symbols of its characters.    *)
(***************************************************************************)
EXTENDS Integers, Sequences, FiniteSets, SequencesExt

CONSTANT MaxEvents \* bound: events of a stream

\* What a data line may say: a completion's text; the deltas of a chat, where "role" has
\* no content or an empty one and "finish" has nothing; no choice; the end; an error; or
\* no JSON.
Payloads == {"text", "role", "role and content", "content", "empty content", "finish",
             "usage", "[DONE]", "error", "garbage"}

Lines == {<<"data:", p>> : p \in Payloads} \cup {<<": ping", "">>}

\* feed takes either.
Separators == {<<"\r", "\n", "\r", "\n">>, <<"\n", "\n">>}

Events == [line : Lines, separator : Separators]

VARIABLES
  events,  \* what vLLM sends
  arrived, \* symbols that arrived
  buffer,  \* _buffer
  tokens,  \* length of token_times
  error    \* error is set

vars == <<events, arrived, buffer, tokens, error>>

Wire == FlattenSeq([i \in DOMAIN events |-> events[i].line \o events[i].separator])

\* is_token_chunk: an empty text is a token, a role alone and an empty delta are none.
IsTokenChunk(payload) == payload \in {"text", "role and content", "content", "empty content"}

IsToken(line) == line[1] = "data:" /\ IsTokenChunk(line[2])
IsError(line) == line = <<"data:", "error">>

\* buffer.find: the first place of a separator, zero if there is none.
Find(b, separator) ==
  LET ends == {i \in 1..Len(b) : IsPrefix(separator, SubSeq(b, i, Len(b)))}
  IN IF ends = {} THEN 0 ELSE CHOOSE i \in ends : \A j \in ends : i <= j

\* The separator an event ends at: CRLF is looked for first, though an LF may be sooner.
Cut(b) ==
  LET crlf == Find(b, <<"\r", "\n", "\r", "\n">>)
      lf == Find(b, <<"\n", "\n">>)
  IN IF crlf > 0 THEN <<crlf, 4>> ELSE <<lf, 2>>

\* splitlines: the event may hold several lines where a sooner separator was passed over.
LinesOf(event) ==
  {i \in DOMAIN event : i < Len(event) /\ event[i] \in {"data:", ": ping"}}

LineAt(event, i) == SubSeq(event, i, i + 1)

\* feed's loop: what is left of the buffer, the tokens found and whether an error was.
Fed(b) ==
  LET rest[n \in 0..Len(b)] == \* after taking out events from the buffer's last n symbols
        LET s == SubSeq(b, Len(b) - n + 1, Len(b))
            cut == Cut(s)
            event == SubSeq(s, 1, cut[1] - 1)
            next == rest[n - (cut[1] + cut[2] - 1)]
        IN IF cut[1] = 0 THEN [buffer |-> s, tokens |-> 0, error |-> FALSE]
           ELSE [next EXCEPT
                   !.tokens = @ + Cardinality({i \in LinesOf(event) : IsToken(LineAt(event, i))}),
                   !.error = @ \/ \E i \in LinesOf(event) : IsError(LineAt(event, i))]
  IN rest[Len(b)]

\* Mutant: a chunk is parsed by itself.
Received(chunk) == chunk

\* What was left over comes before the chunk.
Buffered(chunk) == buffer \o chunk

\* A chunk arrives.
Feed(n) ==
  /\ arrived + n <= Len(Wire)
  /\ arrived' = arrived + n
  /\ LET fed == Fed(Buffered(SubSeq(Wire, arrived + 1, arrived + n))) IN
     /\ buffer' = fed.buffer
     /\ tokens' = tokens + fed.tokens
     /\ error' = (error \/ fed.error)
  /\ UNCHANGED events

Init ==
  /\ events \in UNION {[1..n -> Events] : n \in 0..MaxEvents}
  /\ arrived = 0 /\ buffer = <<>> /\ tokens = 0 /\ error = FALSE

Next == \E n \in 1..Len(Wire) : Feed(n)

Spec == Init /\ [][Next]_vars

-----------------------------------------------------------------------------
\* An event is whole once its separator has arrived.
EndOf(i) ==
  Len(FlattenSeq([j \in 1..i |-> events[j].line \o events[j].separator]))

Whole == {i \in DOMAIN events : EndOf(i) <= arrived}

\* However the stream is cut into chunks, and wherever it breaks off: exactly the tokens
\* of the events that arrived whole are counted, each when its event is complete (so the
\* first one gives TTFT), and an error is known then ("split across arbitrary chunks").
ChunkingIrrelevant ==
  /\ tokens = Cardinality({i \in Whole : IsToken(events[i].line)})
  /\ error = \E i \in Whole : IsError(events[i].line)
=============================================================================
