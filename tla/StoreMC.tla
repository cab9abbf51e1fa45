------------------------------- MODULE StoreMC -------------------------------
(***************************************************************************)
(* A small instance of Store: one traces, one logs and one metrics request *)
(* that share a resource and a scope.                                      *)
(***************************************************************************)
EXTENDS Store

MCIds == {"res", "scope", "bounds", "host", "pod", "lib", "method", "exc", "origin",
          "route", "instr", "reason", "sp1", "sp2", "ev", "lk", "log", "gauge", "labels", "m1",
          "m2", "dp", "ex"}

K(t, id) == [t |-> t, id |-> id, n |-> 0]
A(id)    == K("attributes", id)
R(t, id, fk, attrs) == [key |-> K(t, id), fk |-> fk, attrs |-> attrs, meta |-> {}]

res   == K("resources", "res")
scope == K("scopes", "scope")

ScopeRow == R("scopes", "scope", {}, {A("lib")})

\* Two spans; the first owns an event and a link.
Traces ==
  [sig |-> "spans", streams |-> {}, series |-> {},
   dict |-> {R("resources", "res", {}, {A("host")}), ScopeRow},
   items |-> <<{R("spans", "sp1", {res, scope}, {A("method")}),
                R("events", "ev", {K("spans", "sp1")}, {A("exc")})},
               {R("spans", "sp2", {res, scope}, {A("method")}),
                R("links", "lk", {K("spans", "sp2")}, {})}>>]

\* The same resource, enriched with one more attribute: same id, other row.
Logs ==
  [sig |-> "logs", streams |-> {}, series |-> {},
   dict |-> {R("resources", "res", {}, {A("host"), A("pod")}), ScopeRow},
   items |-> <<{R("logs", "log", {res, scope}, {A("origin")})}>>]

\* A histogram metric with metadata and an exemplar, and a summary metric,
\* which stores an ingest row and no datapoint.
Metrics ==
  LET stream == K("metric_streams", "gauge")
      series == K("metric_series", "labels")
      m1     == K("metric_ingests", "m1")
  IN [sig |-> "metrics",
      dict |-> {R("resources", "res", {}, {A("host")}), ScopeRow,
                R("histogram_bounds", "bounds", {}, {})},
      streams |-> {R("metric_streams", "gauge", {}, {})},
      series  |-> {R("metric_series", "labels", {stream, res}, {A("route")})},
      items |-> <<{[R("metric_ingests", "m1", {stream, res, scope}, {})
                      EXCEPT !.meta = {A("instr")}],
                   R("datapoints", "dp",
                     {stream, series, m1, K("histogram_bounds", "bounds")}, {A("route")}),
                   R("exemplars", "ex", {K("datapoints", "dp")}, {A("reason")})},
                  {R("metric_ingests", "m2", {stream, res, scope}, {})}>>]

MCBatches == {Traces, Logs, Metrics}
=============================================================================
