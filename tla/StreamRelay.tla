----------------------------- MODULE StreamRelay -----------------------------
(* One streamed call through the gateway: the content policies (chat only),    *)
(* the maximum charge held, the upstream's event stream, its conversion to the *)
(* protocol the client speaks, the usage and its price (handleStreaming of     *)
(* handler/gateway/chat.go with the three outputs it is given by chat.go,      *)
(* claude_relay.go and responses_via_chat.go; the converters of relayconvert). *)
(*                                                                             *)
(* The client is an automaton that reads the events as they come: what a       *)
(* client library would reject is collected in client.faults.  How the wallet  *)
(* moves, allowances and spend limits are the subject of Gateway; here a hold  *)
(* is open, settled or released, and the charge is what the settlement asks.   *)
EXTENDS Guardrails, Pricing

CONSTANTS
  RelayCalls, \* the calls: [out, named, messages, policies, scope, label, lines,
              \*   sends, rows, tiers, prompt, declared, report, before, after]
  Chunks,     \* by what an upstream sends: sets of chunks [parts, finish, usage]
  ToolCalls   \* the tool calls of an answer, by the index the upstream gives them

(* What a delta may carry.  A part is [slot, text]: text is FALSE for a piece  *)
(* of a tool call without arguments, such as the one that names the tool.      *)
Contents   == {"thinking", "text"}
PartKinds  == {"text", "reply", "result", "image", "audio", "call", "file", "empty"}
DeltaSlots == Contents \cup ToolCalls
Kind(slot) == IF slot \in ToolCalls THEN "tool" ELSE slot

(* The converters look for reasoning_content and content, which count unless   *)
(* they are empty, before they go through tool_calls.                          *)
ContentsFirst(parts) ==
  \A i \in DOMAIN parts : parts[i].slot \in Contents =>
    parts[i].text /\ \A j \in 1..i : parts[j].slot \in Contents

ASSUME ChunksAssumption ==
  /\ Contents \cap ToolCalls = {}
  /\ \A c \in RelayCalls : \A ch \in Chunks[c.sends] :
       /\ ch.parts \in Seq([slot : DeltaSlots, text : BOOLEAN]) /\ ContentsFirst(ch.parts)
       /\ ch.finish \in BOOLEAN /\ ch.usage \in BOOLEAN

ASSUME PoliciesAssumption ==
  \A c \in RelayCalls :
    c.messages \in Seq(Seq(Seq(Letters))) /\ c.policies \in Seq(Policies)

(* Ratios that are not positive are skipped by the code; that no price is      *)
(* negative is up to who enters them.                                          *)
ASSUME RelayCallsAssumption ==
  \A c \in RelayCalls :
    /\ c.out \in {"openai", "claude", "responses"} /\ c.named \in BOOLEAN
    /\ c.prompt \in Seq([kind : PartKinds, tokens : Nat]) /\ c.declared \in Int
    /\ c.report \in [Dims \cup {"total"} -> Int]
    /\ c.tiers \in Seq([min : Nat, ratio : Nat \ {0}])
    /\ \A i \in DOMAIN c.rows : c.rows[i].price \in Nat \cup {Malformed}

(* The pieces of an answer a chunk carries. *)
Pieces(ch) == Cardinality({i \in DOMAIN ch.parts : ch.parts[i].text})

VARIABLES
  call,       \* one of RelayCalls
  phase,      \* "asked", "admitted", "held", "streaming", or how it ended
  verdict,    \* what the policies decided
  sent,       \* the prompt that goes upstream
  conv,       \* the converter (ClaudeStreamState or ResponsesStreamState)
  client,     \* what the client has made of the events
  tail,       \* lastDataLine: "none", "plain" or "usage"
  money,      \* what became of the hold: "none", "held", "settled" or "released"
  source,     \* what the settlement was computed from
  amount,     \* what is held
  charge,     \* what the settlement asks for
  up          \* what the upstream has sent; only the properties read it

relayVars == <<call, phase, verdict, sent, conv, client, tail, money, source, amount, charge, up>>

------------------------------------------------------------------------------
(* Events and the client.                                                      *)

Start == [type |-> "start"]
BlockStart(index, slot) == [type |-> "block_start", index |-> index, kind |-> Kind(slot)]
Delta(index, slot) == [type |-> "delta", index |-> index, kind |-> Kind(slot)]
BlockStop(index) == [type |-> "block_stop", index |-> index]
Stop == [type |-> "stop"]
Chunk(n) == [type |-> "chunk", parts |-> n]
Foreign == [type |-> "foreign"]     \* data that is no event of the protocol
DoneMark == [type |-> "done"]

NewClient == [starts |-> 0, kinds |-> <<>>, stopped |-> {}, got |-> 0, ended |-> FALSE,
              gone |-> FALSE, faults |-> {}]

IsOpen(c, index) == index + 1 \in DOMAIN c.kinds /\ index \notin c.stopped

Fault(c, bad, name) == IF bad THEN [c EXCEPT !.faults = @ \cup {name}] ELSE c

(* A client reads one event. *)
Read(before, e) ==
  LET c == Fault(before, before.ended, "after the end") IN
  CASE e.type = "start" ->
         Fault([c EXCEPT !.starts = 1], c.starts > 0, "second start")
    [] e.type = "block_start" ->
         Fault([c EXCEPT !.kinds = Append(@, e.kind)], e.index # Len(c.kinds), "index out of order")
    [] e.type = "delta" ->
         LET d == Fault([c EXCEPT !.got = @ + 1], ~IsOpen(c, e.index), "delta outside a block")
         IN  Fault(d, IsOpen(c, e.index) /\ c.kinds[e.index + 1] # e.kind, "delta of another kind")
    [] e.type = "block_stop" ->
         Fault([c EXCEPT !.stopped = @ \cup {e.index}], ~IsOpen(c, e.index), "stop of no open block")
    [] e.type = "stop" ->
         LET d == Fault([c EXCEPT !.ended = TRUE], c.starts = 0, "end without a start")
         IN  Fault(d, \E i \in DOMAIN c.kinds : IsOpen(c, i - 1), "block left open")
    [] e.type = "chunk" -> [c EXCEPT !.got = @ + e.parts]
    [] e.type = "foreign" -> Fault(before, TRUE, "foreign data")
    [] e.type = "done" -> [c EXCEPT !.ended = TRUE]

(* Writes to a client that has left are lost; their errors are only logged.    *)
Received(events) == IF client.gone THEN client ELSE FoldLeft(Read, client, events)

------------------------------------------------------------------------------
(* Converters.  at[slot] is the index of the block or item the converter holds *)
(* for a slot, -1 for none; open lists the indices still to be closed.  The    *)
(* operators below act on [c |-> converter, out |-> events so far].            *)

Nowhere == [s \in DeltaSlots |-> -1]

NewConverter == [started |-> FALSE, done |-> FALSE, finish |-> FALSE, usage |-> FALSE,
                 next |-> 0, open |-> <<>>, at |-> Nowhere]

Emit(acc, e) == [acc EXCEPT !.out = Append(@, e)]

OpenBlock(acc, slot) ==
  [c   |-> [acc.c EXCEPT !.open = Append(@, acc.c.next), !.next = @ + 1,
                         !.at[slot] = acc.c.next],
   out |-> Append(acc.out, BlockStart(acc.c.next, slot))]

(* Mutant of CloseOpenBlocks: textOpen survives the block it was about. *)
CloseOpenBlocks_TextStaysOpen(acc) ==
  [c   |-> [acc.c EXCEPT !.open = <<>>, !.at = [Nowhere EXCEPT !["text"] = acc.c.at["text"]]],
   out |-> acc.out \o [i \in DOMAIN acc.c.open |-> BlockStop(acc.c.open[i])]]

CloseOpenBlocks(acc) ==
  [c   |-> [acc.c EXCEPT !.open = <<>>, !.at = Nowhere],
   out |-> acc.out \o [i \in DOMAIN acc.c.open |-> BlockStop(acc.c.open[i])]]

(* convertClaudeDelta: text and thinking close what is open when they open     *)
(* their block and then write to the block opened last; a tool call opens its  *)
(* block beside the others.                                                    *)
ClaudePart(acc, part) ==
  LET held == acc.c.at[part.slot] # -1 IN
  IF part.slot \in Contents
  THEN LET ready == IF held THEN acc ELSE OpenBlock(CloseOpenBlocks(acc), part.slot)
       IN  Emit(ready, Delta(Last(ready.c.open), part.slot))
  ELSE LET ready == IF held THEN acc ELSE OpenBlock(acc, part.slot)
       IN  IF part.text THEN Emit(ready, Delta(ready.c.at[part.slot], part.slot)) ELSE ready

(* responsesDeltaEvents: every item has a slot of its own and stays open.      *)
ResponsesPart(acc, part) ==
  LET ready == IF acc.c.at[part.slot] # -1 THEN acc ELSE OpenBlock(acc, part.slot)
  IN  IF part.text THEN Emit(ready, Delta(ready.c.at[part.slot], part.slot)) ELSE ready

(* terminalEvents, finalizeEvents: everything open is closed, then the end.    *)
Terminal(acc) ==
  LET a == Emit(CloseOpenBlocks(acc), Stop) IN [a EXCEPT !.c.done = TRUE]

(* What a chunk says about the finish and the usage; both known, the stream is *)
(* brought to its end.                                                         *)
Noted(acc, ch) ==
  LET a == [acc EXCEPT !.c.finish = @ \/ ch.finish, !.c.usage = @ \/ ch.usage]
  IN  IF a.c.finish /\ a.c.usage THEN Terminal(a) ELSE a

(* OpenAIStreamChunkToClaudeEvents: started is its Started flag.               *)
ClaudeChunk(c, ch) ==
  LET opened == [c |-> [c EXCEPT !.started = TRUE], out |-> IF c.started THEN <<>> ELSE <<Start>>]
  IN  IF c.done THEN [c |-> c, out |-> <<>>]
      ELSE Noted(FoldLeft(ClaudePart, opened, ch.parts), ch)

(* OpenAIStreamChunkToResponsesEvents: the envelope is taken as opened once    *)
(* the state has an ID, which only a chunk that carries one gives it.          *)
ResponsesChunk(c, ch) ==
  LET opened == [c |-> [c EXCEPT !.started = call.named],
                 out |-> IF c.started THEN <<>> ELSE <<Start>>]
  IN  IF c.done THEN [c |-> c, out |-> <<>>]
      ELSE Noted(FoldLeft(ResponsesPart, opened, ch.parts), ch)

(* writeData of the three outputs. *)
Converted(ch) ==
  CASE call.out = "claude"    -> ClaudeChunk(conv, ch)
    [] call.out = "responses" -> ResponsesChunk(conv, ch)
    [] call.out = "openai"    -> [c |-> conv, out |-> <<Chunk(Pieces(ch))>>]

(* An unfinished stream is finished as if it had been told to stop.            *)
ForceFinishEvents == Terminal([c |-> [conv EXCEPT !.finish = TRUE], out |-> <<>>])

(* writeDone of the three outputs. *)
Finished ==
  CASE call.out = "openai"              -> [c |-> conv, out |-> <<DoneMark>>]
    [] call.out # "openai" /\ conv.done -> [c |-> conv, out |-> <<>>]
    [] OTHER                            -> ForceFinishEvents

(* Requests.  Texts and the assistant's tool calls survive both conversions.   *)
(* A Messages request loses the messages that are replies in plain strings; of *)
(* a Responses request such a reply does not decode.  Of the results of tools  *)
(* in a Messages request, and of what is neither text nor tool call in both,   *)
(* a message without content is left.                                          *)
EmptyMessage == [kind |-> "empty", tokens |-> 0]

KeptOfMessages(kept, part) ==
  CASE part.kind \in {"text", "call"} -> Append(kept, part)
    [] part.kind = "reply"            -> kept
    [] OTHER                          -> Append(kept, EmptyMessage)

ClaudeToOpenAIRequest(prompt) == FoldLeft(KeptOfMessages, <<>>, prompt)

KeptOfResponses(kept, part) ==
  Append(kept, IF part.kind \in {"text", "call", "result"} THEN part ELSE EmptyMessage)

ResponsesRequestToOpenAIChatRequest(prompt) == FoldLeft(KeptOfResponses, <<>>, prompt)

------------------------------------------------------------------------------
RelayInit ==
  /\ call \in RelayCalls
  /\ phase = "asked"
  /\ verdict = [action |-> "allow", seen |-> <<>>]
  /\ sent = <<>>
  /\ conv = NewConverter
  /\ client = NewClient
  /\ tail = "none"
  /\ money = "none"
  /\ source = "none"
  /\ amount = 0 /\ charge = 0
  /\ up = [lines |-> 0, chunked |-> FALSE, parts |-> 0, reported |-> FALSE,
            tooled |-> FALSE, resumed |-> FALSE, foreign |-> FALSE]

(* evaluateOutboundGuardrails: the stored policies on the texts of the body.   *)
Judged ==
  Evaluate(Loaded(call.policies), call.scope, ChatFragments(call.messages), call.label)

(* /v1/chat/completions is judged before it is routed; a block is a 400, an    *)
(* exhausted budget and policies that cannot be loaded a 500.  A masked text is *)
(* not put into the request.                                                   *)
Judge ==
  /\ phase = "asked" /\ call.out = "openai"
  /\ verdict' \in {Judged, [action |-> "error", seen |-> <<>>]}
  /\ phase' = IF verdict'.action \in {"block", "error"} THEN "refused" ELSE "admitted"
  /\ sent' = call.prompt
  /\ UNCHANGED <<call, conv, client, tail, money, source, amount, charge, up>>

(* /v1/messages and /v1/responses are converted, not judged; a body that does  *)
(* not decode is a 400.                                                        *)
ConvertRequest ==
  /\ phase = "asked" /\ call.out # "openai"
  /\ \/ /\ call.out = "responses" =>
             \A k \in DOMAIN call.prompt : call.prompt[k].kind # "reply"
        /\ phase' = "admitted"
        /\ sent' = IF call.out = "claude" THEN ClaudeToOpenAIRequest(call.prompt)
                   ELSE ResponsesRequestToOpenAIChatRequest(call.prompt)
     \/ phase' = "refused" /\ sent' = sent
  /\ UNCHANGED <<call, verdict, conv, client, tail, money, source, amount, charge, up>>

(* computeMaxChargeHold and Reserve; without a price, a wallet or the balance  *)
(* the call is refused.                                                        *)
ReserveMaximum ==
  /\ phase = "admitted"
  /\ \/ \E output \in HoldOutput(call.declared) :
          LET most == Hold(call.rows, call.before.period,
                           VolumeRatio(call.tiers, call.before.month), sent, output)
          IN  /\ most.priced
              /\ phase' = "held" /\ money' = "held" /\ amount' = most.amount
     \/ phase' = "refused" /\ UNCHANGED <<money, amount>>
  /\ UNCHANGED <<call, verdict, sent, conv, client, tail, source, charge, up>>

(* The upstream answers, or fails before the first event: the hold goes back.  *)
Connect ==
  /\ phase = "held"
  /\ \/ phase' = "streaming" /\ money' = money
     \/ phase' = "failed" /\ money' = "released"
  /\ UNCHANGED <<call, verdict, sent, conv, client, tail, source, amount, charge, up>>

(* A "data:" line that parses: converted, written and flushed.                 *)
DataLine(ch) ==
  /\ phase = "streaming" /\ up.lines < call.lines
  /\ LET next == Converted(ch) IN conv' = next.c /\ client' = Received(next.out)
  /\ tail' = IF ch.usage THEN "usage" ELSE "plain"
  /\ up' = LET tooled == up.tooled \/ \E i \in DOMAIN ch.parts : ch.parts[i].slot \in ToolCalls
           IN  [lines    |-> up.lines + 1,
                chunked  |-> TRUE,
                foreign  |-> up.foreign,
                parts    |-> up.parts + (IF conv.done THEN 0 ELSE Pieces(ch)),
                reported |-> up.reported \/ ch.usage,
                tooled   |-> tooled,
                resumed  |-> up.resumed \/ (up.tooled /\ \E i \in DOMAIN ch.parts :
                                                           ch.parts[i].slot \in Contents)]
  /\ UNCHANGED <<call, phase, verdict, sent, money, source, amount, charge>>

(* A "data:" line that is no JSON goes to the client as it is, whatever the    *)
(* client speaks, and is the last data line all the same.                      *)
RawLine ==
  /\ phase = "streaming" /\ up.lines < call.lines
  /\ client' = Received(<<Foreign>>)
  /\ tail' = "plain"
  /\ up' = [up EXCEPT !.lines = @ + 1, !.foreign = TRUE]
  /\ UNCHANGED <<call, phase, verdict, sent, conv, money, source, amount, charge>>

(* A line that is neither "data:", blank nor a comment (an "event:" field, the *)
(* rest of a body that is no stream) goes to the client as data, past the      *)
(* converter, and is not remembered.                                           *)
BareLine ==
  /\ phase = "streaming" /\ up.lines < call.lines
  /\ client' = Received(<<Foreign>>)
  /\ up' = [up EXCEPT !.lines = @ + 1, !.foreign = TRUE]
  /\ UNCHANGED <<call, phase, verdict, sent, conv, tail, money, source, amount, charge>>

(* The client goes away: the request's context is cancelled, which the scanner *)
(* sees as a read error unless the body was read to its end before.            *)
Leave ==
  /\ phase = "streaming" /\ ~client.gone
  /\ client' = [client EXCEPT !.gone = TRUE]
  /\ UNCHANGED <<call, phase, verdict, sent, conv, tail, money, source, amount, charge, up>>

(* Mutant of Interrupt: the end of the stream is written before the check. *)
Interrupt_AfterDone ==
  /\ phase = "streaming"
  /\ phase' = "interrupted"
  /\ money' = "released"
  /\ LET last == Finished IN conv' = last.c /\ client' = Received(last.out)
  /\ UNCHANGED <<call, verdict, sent, tail, source, amount, charge, up>>

(* scanner.Err(): no end for the client, the hold goes back.                   *)
Interrupt ==
  /\ phase = "streaming"
  /\ phase' = "interrupted"
  /\ money' = "released"
  /\ UNCHANGED <<call, verdict, sent, conv, client, tail, source, amount, charge, up>>

(* The usage of the last data line, or else the estimate.                      *)
SettledUsage ==
  IF tail = "usage" /\ HasUsage(Parsed(call.report)) THEN Parsed(call.report)
  ELSE Estimated(sent)

(* A clean end of the body: the client gets its end, and the call is settled at*)
(* the price its usage has now; with a dimension unpriced, at the whole hold;  *)
(* when the pricer fails, at nothing.                                          *)
Complete ==
  /\ phase = "streaming"
  /\ phase' = "done"
  /\ LET last == Finished IN conv' = last.c /\ client' = Received(last.out)
  /\ source' = IF tail = "usage" /\ HasUsage(Parsed(call.report)) THEN "final_chunk"
               ELSE "estimated"
  /\ \/ charge' = LET cost == Cost(call.rows, call.after.period,
                                VolumeRatio(call.tiers, call.after.month), SettledUsage)
               IN  IF cost.missing # {} THEN amount ELSE cost.list
     \/ charge' = 0
  /\ money' = "settled"
  /\ UNCHANGED <<call, verdict, sent, tail, amount, up>>

RelayNext ==
  \/ Judge \/ ConvertRequest \/ ReserveMaximum \/ Connect
  \/ \E ch \in Chunks[call.sends] : DataLine(ch)
  \/ RawLine \/ BareLine \/ Leave \/ Interrupt \/ Complete

RelaySpec == RelayInit /\ [][RelayNext]_relayVars

------------------------------------------------------------------------------
(* Properties.                                                                 *)

(* What the client reads is a stream of its protocol: one start, blocks        *)
(* numbered in order, every delta inside an open block of its kind, every      *)
(* block closed once, nothing after the end - and no piece of the answer is    *)
(* missing.  Four exceptions are the code's: content that resumes after a tool *)
(* call goes to the tool's block (claude_stream.go:123-138), an upstream       *)
(* without ids has its Responses envelope opened by every chunk                *)
(* (responses_stream.go:53), a stream without a chunk is ended unopened, and   *)
(* what is no JSON or not marked as data reaches the client unconverted, even  *)
(* after its end (claude_relay.go:153-157, chat.go:737-739).                   *)
AnswerArrivesWhole ==
  /\ client.faults \subseteq {"delta of another kind", "second start", "end without a start",
                              "foreign data"}
  /\ "delta of another kind" \in client.faults => call.out = "claude" /\ up.resumed
  /\ "second start" \in client.faults => call.out = "responses" /\ ~call.named
  /\ "end without a start" \in client.faults => ~up.chunked
  /\ "foreign data" \in client.faults => up.foreign
  /\ ~client.gone => client.got = up.parts

(* The end the client sees and the fate of the money agree: a settled call was *)
(* brought to its end, a released one was not - unless the converter, knowing  *)
(* finish and usage, had ended it before the upstream broke off.  A report is  *)
(* settled from only if there was one, and one that came is replaced by an     *)
(* estimate only if it counts nothing or other data came after it.             *)
(* (chat.go:743-745: "an incomplete stream must NOT be presented as success".) *)
MoneyFollowsTheEnd ==
  /\ money = "settled" => client.ended \/ client.gone
  /\ money = "released" /\ client.ended => conv.finish /\ conv.usage /\ up.reported
  /\ source = "final_chunk" => up.reported
  /\ source = "estimated" /\ up.reported => tail = "plain" \/ ~HasUsage(Parsed(call.report))

Upstream == money # "none"

(* What a loaded policy forbids does not leave the gateway: no text of a chat  *)
(* call that was let through holds a word a block item names, none was let     *)
(* through past a model that called it unsafe or was missing where the policy  *)
(* blocks on that, and none whose texts were beyond the budgets.               *)
ForbiddenTextsStay ==
  Upstream /\ call.out = "openai" =>
    LET policies == Applicable(Loaded(call.policies), call.scope)
        items    == UNION {ToSet(policies[i].items) : i \in DOMAIN policies}
        texts    == {f.text : f \in ToSet(ChatFragments(call.messages))}
    IN  /\ \A item \in {i \in items : i.action = "block" /\ i.detector # "model"}, t \in texts :
             \A w \in ToSet(item.words) : ~Occurs(t, w)
        /\ \A item \in {i \in items : i.detector = "model"} :
             /\ call.label = "unavailable" => item.unavailable # "block"
             /\ call.label = "unsafe" => item.action # "block"
        /\ \A item \in items, t \in texts :
             item.words # <<>> /\ item.detector # "model" => Len(t) <= MaxMatcherWork

(* A model detector is shown every text of the request with what the masking   *)
(* items match taken out, and nothing else taken out.  Messages of several     *)
(* parts are excepted: the engine keeps one masked text per message.           *)
DetectorSeesMaskedText ==
  verdict.seen # <<>> /\ (\A m \in DOMAIN call.messages : Len(call.messages[m]) <= 1) =>
    LET policies == Applicable(Loaded(call.policies), call.scope)
        masks    == {i \in UNION {ToSet(policies[p].items) : p \in DOMAIN policies} :
                       i.action = "mask"}
        words    == UNION {ToSet(i.words) : i \in masks}
        texts    == ChatFragments(call.messages)
        letters(t, out) == Cardinality({k \in DOMAIN t : t[k] \notin out})
        named    == UNION {ToSet(w) : w \in words}
    IN  /\ Len(verdict.seen) = Len(texts)
        /\ \A f \in DOMAIN texts :
             /\ \A w \in words : ~Occurs(verdict.seen[f].text, w)
             /\ letters(verdict.seen[f].text, named \cup {Redacted}) = letters(texts[f].text, named)
             /\ \A k \in DOMAIN verdict.seen[f].text :
                  ~(Hit(verdict.seen[f].text, <<Redacted, Redacted>>, k))

(* The guardrails judge whole requests (engine.go:145, engine.go:574): nothing *)
(* a loaded policy forbids goes upstream, whichever detector of whichever      *)
(* policy has to find it in whichever message, and what a detector is shown    *)
(* is the request but for what must not be shown to it.                        *)
GuardrailsHold == ForbiddenTextsStay /\ DetectorSeesMaskedText

(* The price of every dimension rises with the size of the request, up to a    *)
(* size.                                                                       *)
TiersRise(size) ==
  LET at(n) == [Tokens(0, 0) EXCEPT !.total = n]
      price(d, n) == Prices(call.rows, d, call.before.period, at(n))
  IN  \A d \in {"input", "output"}, m, n \in 0..size :
        m <= n => \A p \in price(d, m), q \in price(d, n) : p <= q

(* The hold is the maximum charge (reserve.go:30-33): as long as the prices    *)
(* stay what they were and rise with size, and the answer keeps to the prompt, *)
(* to the output the caller declared - FallbackOutput if it declared none, and *)
(* OutputCap in any case - and to the dimensions input and output, the         *)
(* settlement never asks for more than is held.  An estimated settlement is    *)
(* covered only when the declared output is at least FallbackOutput.  Nothing  *)
(* is promised beyond the numbers int64 holds: there the declared output comes *)
(* out negative on amd64, passes the cap and is not priced (reserve.go:90,     *)
(* reserve.go:105-109, pricer.go:128), against reserve.go:54-57.               *)
HoldCoversCharge ==
  LET prompt   == Estimated(sent).input
      declared == IF call.declared > 0 THEN call.declared ELSE FallbackOutput
      output   == IF declared > OutputCap THEN OutputCap ELSE declared
  IN  /\ money = "settled" /\ call.before = call.after /\ call.declared < Int64Limit
      /\ TiersRise(prompt + output)
      /\ SettledUsage.input <= prompt /\ SettledUsage.output <= output
      /\ SettledUsage.total <= prompt + output
      /\ \A d \in Dims \ {"input", "output"} :
           ~Billable(call.rows, d, call.after.period, SettledUsage)
      => charge <= amount
=============================================================================
