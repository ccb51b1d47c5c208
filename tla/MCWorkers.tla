------------------------------- MODULE MCWorkers -------------------------------
EXTENDS Workers
Headers(limit, remaining, reset, retry) == [limit |-> limit, remaining |-> remaining, reset |-> reset, retry |-> retry]
Answer(kind, input, cached, h) == [kind |-> kind, input |-> input, cached |-> cached, headers |-> h]
Estimate(w, n, turns) == [by |-> w, requests |-> n, turns |-> turns]
MCJobs == <<Estimate("wiki", 3, 0), Estimate("wiki", 1, 1)>>
MCAnswers == {Answer("ok", 1, 2, Headers(1, 0, 1, 0)),
              Answer("tools", 1, 0, NoHeaders),
              Answer("transient", 0, 0, Headers(0, 2, 1, 1)),
              Answer("quota", 0, 0, NoHeaders)}
=============================================================================
