----------------------------- MODULE ProviderCall -----------------------------
(* One completion asked of a provider (pkg/llm: resilience.go, early_exit.go,*)
(* openai.go, ollama.go, gemini.go): retries with backoff, the reading of a  *)
(* streamed reply, and its collection into one response, while the caller's  *)
(* context may end at any point and the service may fail at any point.       *)
(* A reply is a sequence of chunks [text, calls] and the way it ends; the    *)
(* fragment of a tool call is [index, id, name, args], texts all of them.  *)
EXTENDS Integers, Sequences, SequencesExt

CONSTANTS
    Calls,      \* records [provider, op, mode, flag, early, retries, delay, request]
    Replies,    \* records [chunks, end]: what the service may send; it is finished,
                \* or ends in an error, is cut inside a chunk, or closed quietly between two
    Failures,   \* records [kind, status, after]: how it may refuse
    Nothing     \* no value yet

(* Configured budgets and delays are any Go ints; a refusal is a failure of  *)
(* the transport, one on this side, or a status with a delay to respect.     *)
ASSUME CallAssumption ==
    /\ \A c \in Calls : c.retries \in Int /\ c.delay \in Int
    /\ Failures \subseteq [kind : {"transport", "local", "status"}, status : Int, after : Int]

VARIABLES
    asked,      \* the call under way
    pc,         \* begin, check, send, reading, receive, wait, done
    delay,      \* WithRetry's current backoff, in seconds
    log,        \* for every attempt made: its error, and the time waited after it
    ended,      \* how the caller's context ended: no, canceled, deadline
    prompt,     \* the messages last sent
    reply,      \* the reply opened last
    taken,      \* chunks of it handed to the callback
    collector,  \* StreamCollector: content, tools by index, whether a chunk was added
    result      \* what the call returned

callVars == <<asked, pc, delay, log, ended, prompt, reply, taken, collector, result>>

MaxDelay == 30

NoChunk == [content |-> <<>>, tools |-> <<>>, meta |-> FALSE]

CallInit ==
    /\ asked \in Calls
    /\ pc = "begin" /\ delay = 1 /\ log = <<>> /\ ended = "no" /\ prompt = Nothing
    /\ reply = Nothing /\ taken = 0 /\ collector = NoChunk /\ result = Nothing

-------------------------------------------------------------------------------
(* What each provider makes of a request [system, messages]: a message is    *)
(* [role, content, calls], a text is a sequence of words, and separators are *)
(* layout. When a provider reports no tokens, they are estimated             *)
(* (usage_estimate.go).                                                      *)
Message(role, content) == [role |-> role, content |-> content, calls |-> <<>>]
Refused == <<Message("refused", <<>>)>>

Instructions(messages) == SelectSeq(messages, LAMBDA m : m.role = "system")
Texts(messages) == FlattenSeq([i \in DOMAIN messages |-> messages[i].content])

(* Mutant: the separate system prompt is dropped. *)
Bug_NoSystemPrompt(req) == IF req.messages = <<>> THEN Refused ELSE req.messages

OpenAIMessages(req) ==
    LET head == IF req.system = <<>> THEN <<>> ELSE <<Message("system", req.system)>>
    IN  IF head \o req.messages = <<>> THEN Refused ELSE head \o req.messages

(* Ollama has neither tools nor a system role: instructions are put before   *)
(* the first message if that is the user's, and req.system is not looked at. *)
OllamaMessages(req) ==
    LET system == Texts(Instructions(req.messages))
        spoken == SelectSeq(req.messages, LAMBDA m : m.role # "system" /\ m.content # <<>>)
        turns  == IF system # <<>> /\ spoken = <<>> THEN <<Message("user", <<"respond">>)>> ELSE spoken
    IN  [i \in DOMAIN turns |->
            Message(turns[i].role, IF i = 1 /\ turns[1].role = "user" THEN system \o turns[1].content
                                   ELSE turns[i].content)]

(* Gemini: the assistant is called "model", everyone else is the user. *)
GeminiMessages(req) ==
    LET system == req.system \o Texts(Instructions(req.messages))
        turns  == SelectSeq(req.messages, LAMBDA m : m.role # "system")
    IN  IF turns = <<>> THEN Refused
        ELSE (IF req.system = <<>> /\ Instructions(req.messages) = <<>> THEN <<>> ELSE <<Message("system", system)>>)
             \o [i \in DOMAIN turns |-> Message(IF turns[i].role = "assistant" THEN "model" ELSE "user",
                                                turns[i].content)]

Sent(provider, req) ==
    CASE provider = "openai" -> OpenAIMessages(req)
      [] provider = "ollama" -> OllamaMessages(req)
      [] provider = "gemini" -> GeminiMessages(req)

-------------------------------------------------------------------------------
(* Tokens: a word counts one; a message, a call and a tool have overheads. *)

SumOf(s, Cost(_)) == FoldLeft(LAMBDA total, x : total + Cost(x), 0, s)
EstimateTokens(text) == Len(text)
CallTokens(c) == EstimateTokens(c.name) + EstimateTokens(c.args) + 8
EstimateMessagesTokens(messages) ==
    SumOf(messages, LAMBDA m : EstimateTokens(m.content) + 4 + SumOf(m.calls, CallTokens))
EstimateCompletionTokens(content, calls) ==
    LET total == EstimateTokens(content) + SumOf(calls, CallTokens)
    IN  IF total = 0 THEN 1 ELSE total

EnsureUsage(usage, req, content, calls) ==
    IF usage.total > 0 \/ usage.prompt > 0 \/ usage.completion > 0
    THEN [usage EXCEPT !.total = IF @ = 0 THEN usage.prompt + usage.completion ELSE @]
    ELSE LET before == EstimateMessagesTokens(req.messages)
             completion == EstimateCompletionTokens(content, calls)
         IN  [prompt |-> before, completion |-> completion, total |-> before + completion]

-------------------------------------------------------------------------------
(* Errors *)

ClassifyStatus(status) ==
    CASE status = 429 -> "rate"
      [] status \in {401, 403} -> "auth"
      [] status >= 500 -> "unavailable"
      [] status \in 400 .. 499 \ {401, 403, 429} -> "request"
      [] OTHER -> "unavailable"                      \* NewProviderError: the default

IsRetryable(err) == err.kind \in {"rate", "unavailable"}
ContextError == [kind |-> "context", after |-> 0]
LocalError == [kind |-> "local", after |-> 0]

-------------------------------------------------------------------------------
(* CompleteWithMode and CompleteStreamWithMode: which path the call takes.   *)
Path ==
    IF asked.op = "complete"
    THEN IF asked.mode = "forced" \/ (asked.mode = "auto" /\ asked.flag) THEN "collect" ELSE "whole"
    ELSE IF asked.mode = "none" THEN "one chunk" ELSE "stream"

Streams == Path \in {"collect", "stream"}

(* The OpenAI SDK hides the headers, so its Retry-After is lost; a stream of *)
(* Ollama's calls every status unavailable, and nothing of it is retried.    *)
ErrorOf(f) ==
    IF asked.provider = "ollama" /\ Streams
    THEN [kind |-> IF f.kind = "status" THEN "unavailable" ELSE "local", after |-> 0]
    ELSE CASE f.kind = "transport" -> [kind |-> "unavailable", after |-> 0]
           [] f.kind = "local" -> LocalError
           [] f.kind = "status" -> [kind |-> ClassifyStatus(f.status),
                                    after |-> IF asked.provider = "openai" THEN 0 ELSE f.after]

Retries == ~Streams \/ asked.provider = "openai"

Return(value) == pc' = "done" /\ result' = value
Fail(err) == Return([kind |-> "error", error |-> err])
Logged(err, wait) == log' = Append(log, [error |-> err, wait |-> wait])

Begin ==
    /\ pc = "begin"
    /\ prompt' = Sent(asked.provider, asked.request)
    /\ delay' = IF asked.delay > 0 THEN asked.delay ELSE 1
    /\ IF prompt' = Refused THEN Fail(LocalError)
       ELSE pc' = (IF Retries THEN "check" ELSE "send") /\ UNCHANGED result
    /\ UNCHANGED <<asked, log, ended, reply, taken, collector>>

LastError == IF log = <<>> THEN ContextError ELSE log[Len(log)].error

CheckContext ==
    /\ pc = "check"
    /\ IF ended # "no" THEN Fail(LastError) ELSE pc' = "send" /\ UNCHANGED result
    /\ UNCHANGED <<asked, delay, log, ended, prompt, reply, taken, collector>>

MayRetry(err) == Retries /\ IsRetryable(err) /\ Len(log) < asked.retries
(* Mutant: the delay the service asked for is ignored. *)
Bug_IgnoresRetryAfter(err) == delay

Wait(err) == IF err.after > delay THEN err.after ELSE delay

AttemptFails(err) ==
    /\ IF MayRetry(err)
       THEN Logged(err, Wait(err)) /\ pc' = "wait" /\ UNCHANGED result
       ELSE Logged(err, 0) /\ Fail(err)
    /\ UNCHANGED <<asked, delay, ended, prompt, taken, collector>>

Refuse ==
    /\ pc = "send"
    /\ reply' = Nothing
    /\ IF ended # "no" THEN AttemptFails(ContextError)
       ELSE \E f \in Failures : AttemptFails(ErrorOf(f))

AfterWait ==
    /\ pc = "wait"
    /\ delay' = IF 2 * delay > MaxDelay THEN MaxDelay ELSE 2 * delay
    /\ pc' = "check"
    /\ UNCHANGED <<asked, log, ended, prompt, reply, taken, collector, result>>

WaitCancelled ==
    /\ pc = "wait" /\ ended # "no"
    /\ Fail(LastError)
    /\ UNCHANGED <<asked, delay, log, ended, prompt, reply, taken, collector>>

-------------------------------------------------------------------------------
(* StreamCollector. A chunk without choices (OpenAI's usage chunk) is skipped. *)

Fragments(c) == c.calls
IndexOf(c, i) == LET f == Fragments(c)[i] IN IF f.index = 0 /\ f.id = <<>> /\ i > 1 THEN i - 1 ELSE f.index

(* Mutant: the fragments of a call replace each other. *)
Bug_MergedReplaces(tools, f, index) == (index :> [f EXCEPT !.index = index]) @@ tools

Merged(tools, f, index) ==
    IF index \notin DOMAIN tools THEN (index :> [f EXCEPT !.index = index]) @@ tools
    ELSE [tools EXCEPT ![index] =
             [@ EXCEPT !.id = IF f.id # <<>> THEN f.id ELSE @,
                       !.name = IF f.name # <<>> THEN f.name ELSE @,
                       !.args = @ \o f.args]]

Add(col, c) ==
    IF ~c.choice THEN col
    ELSE [content |-> col.content \o c.text,
          tools |-> FoldLeft(LAMBDA tools, i : Merged(tools, Fragments(c)[i], IndexOf(c, i)),
                             col.tools, [i \in DOMAIN Fragments(c) |-> i]),
          meta |-> TRUE]

ToolCalls(col) ==
    LET indices == SetToSortSeq(DOMAIN col.tools, LAMBDA a, b : a < b)
    IN  [i \in DOMAIN indices |-> col.tools[indices[i]]]

(* A JSON value is complete when its closing word has come. *)
Closed(words) == \E i, j \in DOMAIN words : i < j /\ words[i] = "{" /\ words[j] = "}"

LooksCompleteToolCalls(calls) ==
    calls # <<>> /\ \A i \in DOMAIN calls : calls[i].name # <<>> /\ Closed(calls[i].args)
LooksCompleteStructured(content) == Closed(content)
DefaultEarlyExit(col) == LooksCompleteToolCalls(ToolCalls(col)) \/ LooksCompleteStructured(col.content)

(* Only OpenAI's chunks carry tool calls. *)
Converted(c) == IF asked.provider = "openai" THEN c ELSE [c EXCEPT !.calls = <<>>]

ReplyOf(content, calls, finish, usage) ==
    [kind |-> "ok", content |-> content, calls |-> calls, finish |-> finish, usage |-> usage]

(* CollectStream estimates the usage whatever the chunks said; Gemini's      *)
(* collection keeps the service's.                                           *)
ReplyFrom(col, finish) ==
    ReplyOf(col.content, ToolCalls(col), finish,
            IF asked.provider = "gemini" THEN Nothing
            ELSE EnsureUsage([prompt |-> 0, completion |-> 0, total |-> 0], asked.request,
                             col.content, ToolCalls(col)))

(* The stream function returned nil. Gemini keeps a collector of its own and *)
(* returns no response at all when no chunk came.                            *)
StreamEnds ==
    CASE Path = "stream" -> Return([kind |-> "streamed"])
      [] Path = "collect" /\ collector.meta -> Return(ReplyFrom(collector, "stop"))
      [] Path = "collect" /\ ~collector.meta ->
             IF asked.provider = "gemini" THEN Return([kind |-> "none"]) ELSE Fail(LocalError)

-------------------------------------------------------------------------------
(* The service answers.                                                      *)

TextSent(chunks) == FlattenSeq([i \in DOMAIN chunks |-> chunks[i].text])
FragmentsSent(chunks) == FlattenSeq([i \in DOMAIN chunks |-> Converted(chunks[i]).calls])
CallsSent(chunks) ==
    LET all     == FragmentsSent(chunks)
        indices == SetToSortSeq({all[i].index : i \in DOMAIN all}, LAMBDA a, b : a < b)
        Of(k)   == SelectSeq(all, LAMBDA f : f.index = indices[k])
    IN  [k \in DOMAIN indices |->
            [Of(k)[1] EXCEPT !.args = FlattenSeq([i \in DOMAIN Of(k) |-> Of(k)[i].args])]]

(* Mutant: whatever ends a body ends the reply. *)
Bug_CutIsAnEnd(r) == r.end # "error"

(* A reply is taken for complete once the service says so, or when the body  *)
(* ends between two chunks: every stream and Ollama's whole reply, which is  *)
(* read like one, break at io.EOF (ollama.go:193 and 277, openai.go:338, the *)
(* scanner of gemini.go:351). One JSON value without its end is an error.    *)
Concluded(r) == r.end = "finished" \/ (r.end = "quiet" /\ (Streams \/ asked.provider = "ollama"))

(* Complete reads the reply within the attempt; a body cut short is an error *)
(* no retry is made for.                                                     *)
AnswerWhole ==
    /\ pc = "send" /\ ~Streams /\ ended = "no"
    /\ \E r \in Replies :
          /\ reply' = r
          /\ \/ /\ Concluded(r)
                /\ taken' = Len(r.chunks)
                /\ \/ /\ Path = "whole"
                      /\ Return(ReplyOf(TextSent(r.chunks), CallsSent(r.chunks), "stop", Nothing))
                   \/ Path = "one chunk" /\ Return([kind |-> "streamed"])
                   \/ Path = "one chunk" /\ Fail(LocalError)
                /\ UNCHANGED <<asked, delay, log, ended, prompt, collector>>
             \/ /\ ~Concluded(r)
                /\ AttemptFails(IF r.end = "error" /\ asked.provider # "openai"
                                THEN [kind |-> "request", after |-> 0] ELSE LocalError)

OpenStream ==
    /\ pc = "send" /\ Streams /\ ended = "no"
    /\ reply' \in Replies /\ pc' = "reading"
    /\ UNCHANGED <<asked, delay, log, ended, prompt, taken, collector, result>>

(* OpenAI and Gemini look at the context before they take a chunk; Ollama    *)
(* notices it only when the body fails.                                      *)
Look ==
    /\ pc = "reading"
    /\ IF ended # "no" /\ asked.provider = "openai" THEN Fail(ContextError)
       ELSE pc' = "receive" /\ UNCHANGED result
    /\ UNCHANGED <<asked, delay, log, ended, prompt, reply, taken, collector>>

(* The callback of CollectStream looks at the context first; Gemini's own    *)
(* collection neither does nor asks for an early exit.                       *)
Callback(c) ==
    /\ taken' = taken + 1
    /\ \/ /\ Path = "stream"
          /\ \/ pc' = "reading" /\ UNCHANGED result
             \/ Fail(LocalError)
          /\ UNCHANGED collector
       \/ /\ Path = "collect" /\ asked.provider # "gemini" /\ ended # "no"
          /\ Fail(ContextError) /\ UNCHANGED collector
       \/ /\ Path = "collect" /\ (asked.provider = "gemini" \/ ended = "no")
          /\ collector' = Add(collector, Converted(c))
          /\ IF asked.early /\ asked.provider # "gemini" /\ DefaultEarlyExit(collector')
             THEN Return(ReplyFrom(collector', "early_exit"))
             ELSE pc' = "reading" /\ UNCHANGED result

Receive ==
    /\ pc = "receive" /\ taken < Len(reply.chunks)
    /\ asked.provider = "gemini" => ended = "no"
    /\ Callback(reply.chunks[taken + 1])
    /\ UNCHANGED <<asked, delay, log, ended, prompt, reply>>

ReceiveEnd ==
    /\ pc = "receive" /\ taken = Len(reply.chunks)
    /\ IF Concluded(reply) THEN StreamEnds
       ELSE Fail(IF ended # "no" /\ asked.provider # "ollama" THEN ContextError
                 ELSE IF reply.end = "error" /\ asked.provider # "openai" THEN [kind |-> "request", after |-> 0]
                 ELSE LocalError)
    /\ UNCHANGED <<asked, delay, log, ended, prompt, reply, taken, collector>>

(* The body fails because the context ended. OpenAI's loop takes a           *)
(* cancellation for the end of the stream (openai.go:338).                   *)
ReceiveCancelled ==
    /\ pc = "receive" /\ ended # "no"
    /\ IF asked.provider = "openai" /\ ended = "canceled" THEN StreamEnds ELSE Fail(ContextError)
    /\ UNCHANGED <<asked, delay, log, ended, prompt, reply, taken, collector>>

ContextEnds ==
    /\ ended = "no" /\ pc # "done"
    /\ ended' \in {"canceled", "deadline"}
    /\ UNCHANGED <<asked, pc, delay, log, prompt, reply, taken, collector, result>>

CallStep ==
    \/ Begin \/ CheckContext \/ Refuse \/ AfterWait \/ WaitCancelled \/ AnswerWhole
    \/ OpenStream \/ Look \/ Receive \/ ReceiveEnd \/ ReceiveCancelled
CallNext == CallStep \/ ContextEnds

CallSpec == CallInit /\ [][CallNext]_callVars

-------------------------------------------------------------------------------
Spoken(req) == SelectSeq(req.messages, LAMBDA m : m.role # "system" /\ m.content # <<>>)
Words(text) == {text[i] : i \in DOMAIN text}
Only(text, words) == SelectSeq(text, LAMBDA w : w \in words)

(* The model reads what the caller wrote: every turn, in its order, and the  *)
(* instructions; except that Ollama never looks at the separate field of the *)
(* system prompt, and drops all system messages of a conversation that the   *)
(* assistant opens (pkg/llm/ollama.go:407).                                  *)
PromptsArrive ==
    prompt \notin {Nothing, Refused} =>
        LET req   == asked.request
            words == Words(Texts(Spoken(req)))
        IN  /\ Only(Texts(prompt), words) = Texts(Spoken(req))
            /\ asked.provider # "ollama" => Words(req.system) \subseteq Words(Texts(prompt))
            /\ (asked.provider # "ollama" \/ Spoken(req) = <<>> \/ Spoken(req)[1].role = "user") =>
                   Words(Texts(Instructions(req.messages))) \subseteq Words(Texts(prompt))

(* A reply reported as complete is what the service sent, text and calls,    *)
(* with no fragment of one call in another, nothing of it is left unread and *)
(* its end was no failure; or a prefix at which an early exit was due. The   *)
(* service may have fallen silent before it had finished in two cases only:  *)
(* a body closed between two chunks of a stream or of Ollama's reply, though *)
(* ollama.go:189 means to read "until done=true", and an OpenAI stream whose *)
(* caller has canceled.                                                      *)
Plain(calls) == [i \in DOMAIN calls |-> [id |-> calls[i].id, name |-> calls[i].name, args |-> calls[i].args]]
Received == SubSeq(reply.chunks, 1, taken)
RepliesAreWhole ==
    result # Nothing =>
        /\ result.kind = "ok" =>
              /\ result.content = TextSent(Received)
              /\ Plain(result.calls) = Plain(CallsSent(Received))
              /\ result.finish = "early_exit" =>
                    asked.early /\ (Closed(result.content) \/ \A i \in DOMAIN result.calls : Closed(result.calls[i].args))
        /\ (result.kind = "streamed" \/ (result.kind = "ok" /\ result.finish = "stop")) =>
              \/ taken = Len(reply.chunks) /\ reply.end = "finished"
              \/ taken = Len(reply.chunks) /\ reply.end = "quiet"
                   /\ (asked.provider = "ollama" \/ Streams)
              \/ asked.provider = "openai" /\ ended = "canceled"

(* The service is asked again only within the budget of retries, after a     *)
(* failure that may pass and the delay it asked for, for a caller still      *)
(* there who has seen nothing of an answer yet.                              *)
AttemptsAreJustified ==
    [][pc # "send" /\ pc' = "send" =>
          /\ taken = 0
          /\ log # <<>> =>
                LET last == log[Len(log)]
                IN  /\ ended = "no" /\ Len(log) <= asked.retries
                    /\ last.error.kind \in {"rate", "unavailable"}
                    /\ last.wait >= last.error.after /\ last.wait > 0]_callVars
=============================================================================
