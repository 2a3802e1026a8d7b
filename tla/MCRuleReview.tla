---------------------------- MODULE MCRuleReview ----------------------------
(* Rules with one and two contents, of URLs, bodies and page templates, and *)
(* a history that half agrees with them.                                    *)
EXTENDS RuleReview

Text(text, length) ==
    [text |-> text, buffer |-> "http.uri", length |-> length, quote |-> FALSE, marks |-> {},
     rest |-> "path", body |-> FALSE]
Web(contents) == [form |-> "sound", topic |-> "web", structure |-> "http", pcre |-> FALSE, bars |-> "bytes", contents |-> contents]

Service == Text("/service/", 9)
UploadField == Text("upload=", 7)
Payload == [Text("eval(", 5) EXCEPT !.buffer = "http.request_body", !.marks = {"attack"}, !.quote = TRUE]
Page == [Text("{{page}}", 8) EXCEPT !.marks = {"delimiter"}, !.rest = "empty", !.body = TRUE]
Bare == [Text("{{", 2) EXCEPT !.marks = {"delimiter"}, !.rest = "empty"]
Times == [Text("7*7", 3) EXCEPT !.rest = "evaluation"]
Long == Text("/very/long/service", 18)

MCGenerated ==
    {Web(<<Service, UploadField>>), Web(<<Service, Payload>>), Web(<<Long>>), Web(<<Bare, Service>>), Web(<<Page, Times>>),
     Web(<<Bare, Times>>), [Web(<<Long>>) EXCEPT !.form = "brackets"],
     [Web(<<Long, Service>>) EXCEPT !.topic = "protocol"],
     Web(<<[Long EXCEPT !.marks = {"benign"}], Bare>>), [Web(<<Long, UploadField>>) EXCEPT !.bars = "text"],
     [Web(<<Service, Payload>>) EXCEPT !.bars = "lone"]}

\* The two young batches meet the lower limits of hits, sources and share exactly, all four
\* the higher ones.
MCHistory ==
    {[age |-> 0, count |-> 50, sources |-> 1..3, has |-> {<<"url", "/service/">>, <<"url", "upload=">>}],
     [age |-> 2, count |-> 50, sources |-> 3..5, has |-> {<<"url", "/service/">>}],
     [age |-> 6, count |-> 47450, sources |-> 1..9, has |-> {<<"url", "/service/">>, <<"url", "{{page}}">>}],
     [age |-> 4, count |-> 2450, sources |-> 1..2, has |-> {<<"url", "/service/">>, <<"url", "upload=">>}]}
=============================================================================
