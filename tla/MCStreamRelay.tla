---------------------------- MODULE MCStreamRelay ----------------------------
(* Instances of StreamRelay: every conversion with the streams of a few chunks *)
(* of every shape, and the policies with texts of a few letters.               *)
EXTENDS StreamRelay

Part(slot) == [slot |-> slot, text |-> TRUE]
Name(slot) == [slot |-> slot, text |-> FALSE]

Deltas == {<<>>, <<Part("text")>>, <<Part("thinking")>>, <<Part("thinking"), Part("text")>>,
           <<Name("tool0")>>, <<Part("tool0")>>, <<Part("text"), Part("tool0")>>,
           <<Part("tool0"), Part("tool1")>>}

MCChunks == [any    |-> [parts : Deltas, finish : BOOLEAN, usage : BOOLEAN],
             report |-> {[parts |-> <<Part("text")>>, finish |-> TRUE, usage |-> TRUE]}]

Nothing == <<<<"a">>>>

Row(dim, type, price, period, tenant, min, max) ==
  [dim |-> dim, type |-> type, price |-> price, period |-> period, tenant |-> tenant,
   min |-> min, max |-> max]

Flat == <<Row("input", "sell", 1, "off_peak", FALSE, 0, Unbounded),
          Row("output", "sell", 2, "off_peak", FALSE, 0, Unbounded)>>

Report(in, out, cached, total) ==
  [input |-> in, output |-> out, cache_read |-> cached, cache_write |-> 0, reasoning |-> 0,
   total |-> total]

TextPart(n) == [kind |-> "text", tokens |-> n]
Other(kind) == [kind |-> kind, tokens |-> 0]

OffPeak == [period |-> "off_peak", month |-> 0]

(* A chat call with nothing special about it. *)
Plain == [out |-> "openai", named |-> TRUE, messages |-> <<Nothing>>, policies |-> <<>>,
          scope |-> "t1", label |-> "unavailable", lines |-> 0, sends |-> "any", rows |-> Flat, tiers |-> <<>>,
          prompt |-> <<TextPart(1)>>, declared |-> 2, report |-> Report(1, 1, 0, 0),
          before |-> OffPeak, after |-> OffPeak]

Streams == {[Plain EXCEPT !.out = "claude", !.lines = 4],
            [Plain EXCEPT !.out = "responses", !.lines = 3],
            [Plain EXCEPT !.out = "responses", !.named = FALSE, !.lines = 3],
            [Plain EXCEPT !.lines = 3]}

(* Price tables: flat, dearer at peak hours and beyond five tokens, dearer     *)
(* beyond three with a gap at the top, a tenant's own rows with a malformed    *)
(* one, and cost rows.                                                         *)
PriceTables ==
  {Flat,
   Flat \o <<Row("output", "sell", 4, "peak", FALSE, 0, Unbounded),
             Row("output", "sell", 5, "off_peak", FALSE, 6, Unbounded)>>,
   <<Row("input", "sell", 1, "off_peak", FALSE, 0, Unbounded),
     Row("output", "sell", 1, "off_peak", FALSE, 0, 3), Row("output", "sell", 3, "off_peak", FALSE, 4, 5)>>,
   <<Row("input", "sell", Malformed, "off_peak", TRUE, 0, Unbounded),
     Row("input", "cost", 1, "off_peak", FALSE, 0, Unbounded),
     Row("output", "sell", 5, "off_peak", FALSE, 0, Unbounded),
     Row("output", "sell", 2, "off_peak", TRUE, 0, Unbounded)>>,
   Flat \o <<Row("cache_read", "sell", 1, "off_peak", FALSE, 0, Unbounded),
             Row("output", "sell", 1, "off_peak", FALSE, 4, Unbounded)>>}

(* When the hold and when the settlement are computed. *)
Moments == LET peak  == [period |-> "peak", month |-> 0]
               month == [period |-> "off_peak", month |-> 5]
           IN  {<<OffPeak, OffPeak>>, <<peak, peak>>, <<month, month>>, <<OffPeak, peak>>}

Prompts == {<<>>, <<Other("empty")>>, <<TextPart(2)>>, <<TextPart(1), Other("image")>>, <<Other("audio"), TextPart(0)>>,
            <<TextPart(1), Other("file")>>}

Priced == {[Plain EXCEPT !.lines = 1, !.sends = "report", !.rows = rows, !.tiers = <<[min |-> 5, ratio |-> 8]>>,
              !.prompt = p, !.declared = d, !.report = r, !.before = m[1], !.after = m[2]] :
             rows \in PriceTables, p \in Prompts, d \in {Absent, 1, 6, 9},
             r \in {Report(i, o, c, 0) : i \in 1..2, o \in 0..3, c \in 0..1}
                  \cup {Report(-1, 0, 0, 0), Report(1, 3, 0, 6)},
             m \in Moments}

(* Conversations that are converted on their way: pictures, files, tool calls, *)
(* their results and replies, with more or less said about the answer.         *)
Converting == {[Plain EXCEPT !.out = out, !.lines = 1, !.sends = "report", !.prompt = p,
                  !.declared = d, !.report = r] :
                 out \in {"openai", "claude", "responses"},
                 p \in {<<TextPart(1), Other("file")>>, <<Other("image"), Other("call")>>,
                       <<[kind |-> "reply", tokens |-> 2], TextPart(1)>>,
                       <<[kind |-> "result", tokens |-> 1]>>},
                 d \in {Absent, 3},
                 r \in {Report(i, o, 0, 0) : i \in 1..3, o \in {0, 2, 3}} \cup {Report(-1, 0, 0, 0)}}

Item(detector, action, words, unavailable) ==
  [detector |-> detector, action |-> action, words |-> words, unavailable |-> unavailable]

Policy(active, scope, items) == [active |-> active, scopes |-> {scope}, items |-> items]

Banned  == Item("pattern", "block", <<<<"b">>, <<"s", "t">>>>, "")
Watched == Item("pattern", "audit", <<<<"a">>>>, "")
Secrets == Item("sensitive_data", "mask", <<<<"s">>>>, "")
Cards   == Item("sensitive_data", "mask", <<<<"s", "t">>, <<"t", "t">>>>, "")
Model(action, blockOn, unavailable) == Item("model", action, <<blockOn>>, unavailable)

Models == {Model("block", "unsafe", "block"), Model("block", "controversial_or_unsafe", ""),
           Model("audit", "unsafe", "")}

Tables ==
  {<<Policy(TRUE, "all_projects", <<i>>)>> : i \in {Banned, Secrets}}
  \cup {<<Policy(TRUE, s, <<i, m>>)>> : s \in {"t1", "t2"}, i \in {Banned, Secrets, Cards}, m \in Models}
  \cup {<<Policy(FALSE, "t1", <<Banned>>), Policy(TRUE, "t1", <<Watched, Secrets, Cards, m>>)>> : m \in Models}
  \cup {<<Policy(TRUE, "t1", <<Banned>>), Policy(TRUE, "t1", <<Secrets>>)>>}

Texts == {<<>>, <<"a">>, <<"b", "a">>, <<"s", "t">>, <<"s", "a", "s">>, <<"s", "s", "t", "a">>,
          <<"s", "t", "t", "t">>, <<"a", "a", "a", "a", "a">>}

(* Texts that come in pairs, as two messages or as two parts of one. *)
Paired == Texts \ {<<>>, <<"b", "a">>, <<"a", "a", "a", "a", "a">>}

Messages == {<<<<t>>>> : t \in Texts} \cup {<<<<t>>, <<u>>>> : t \in Paired, u \in Paired}
            \cup {<<<<t, u>>>> : t \in Paired, u \in Paired}

Chats == {[Plain EXCEPT !.messages = m, !.policies = p, !.label = l] :
            m \in Messages, p \in Tables, l \in {"unavailable", "safe", "controversial", "unsafe"}}

MCRelayCalls == Streams \cup Chats \cup Priced \cup Converting

==============================================================================
