-------------------------- MODULE MCReportBuilder --------------------------
(***************************************************************************)
(* Two request ids, two cookies, one of them classified, and record lists  *)
(* of each shape: answered, redirected, unanswered, a request id used      *)
(* again without a redirect, a response without its request, a second      *)
(* response, a cookie named by the request and again by the response.      *)
(* Chrome's list may repeat a name (two domains or paths).                 *)
(***************************************************************************)
EXTENDS ReportBuilder

CONSTANTS a, b, u1, u2, d, functional, id1, id2

Lasting(name, domain, maxAge, form, time) ==
  [name |-> name, domain |-> domain, maxAge |-> maxAge,
   expires |-> [form |-> form, time |-> time]]
Set(name, domain) == Lasting(name, domain, 0, "none", 0)
Resp(sets, headers) == [sets |-> sets, requestHeaders |-> headers]

Req(t, u, headers) ==
  [isRequest |-> TRUE, reqSeq |-> t, url |-> u, headers |-> headers,
   redirected |-> FALSE, response |-> Resp(<<>>, <<>>)]
Redirected(t, u, resp) ==
  [isRequest |-> TRUE, reqSeq |-> t, url |-> u, headers |-> <<>>,
   redirected |-> TRUE, response |-> resp]
Answer(resp) ==
  [isRequest |-> FALSE, reqSeq |-> 3, url |-> NoUrl, headers |-> <<>>,
   redirected |-> FALSE, response |-> resp]

SetSome ==
  {<<>>, <<Set(a, NoDomain)>>,
   <<Lasting(a, d, 5, "none", 0), Set(b, NoDomain), Set(a, NoDomain)>>}

(* A cookie around each limit of the expiry column                         *)
SetLasting ==
  {<<Lasting(a, d, age, "none", 0)>> : age \in {1, 4, 5, 6999, 7000}}
  \cup {<<Lasting(a, d, 0, form, 20)>> : form \in Forms}
  \cup {<<Lasting(a, d, 0, "long", time)>> : time \in {-14001, 3, 4440, 28000}}
  \cup {<<Lasting(a, d, age, "long", 4440)>> : age \in {-1, 4}}

MCReqIDs == {id1, id2}
MCNames == {a, b}
MCUrls == {u1, u2}
MCDomains == {d}
MCCategories == {functional}
MCCategoryOf == [c \in {a, b} |-> IF c = a THEN functional ELSE Unclassified]

MCTraces ==
  {<<>>}
  \cup {<<Req(t, u1, h), Answer(Resp(s, <<b>>))>> :
          t \in {1, 2}, h \in {<<>>, <<a>>}, s \in SetSome}
  \cup {<<Req(2, u2, <<>>), Answer(Resp(s, <<>>))>> : s \in SetLasting}
  \cup {<<Req(2, u1, <<a>>), Answer(Resp(<<Set(a, d)>>, <<a, b>>))>>}
  \cup {<<Req(1, u1, <<a>>), Redirected(2, u2, Resp(s, <<>>)), Answer(Resp(s2, <<>>))>> :
          s \in SetSome, s2 \in SetSome}
  \cup {<<Req(1, u1, <<a>>)>>}
  \cup {<<Req(1, u1, <<a>>), Req(2, u2, <<>>), Answer(Resp(s, <<>>))>> : s \in SetSome}
  \cup {<<Answer(Resp(s, <<b>>))>> : s \in SetSome}
  \cup {<<Req(1, u1, <<a>>), Answer(Resp(<<>>, <<b>>)), Answer(Resp(s, <<>>))>> :
          s \in SetSome}

MCListings ==
  LET Held(name, time) == [name |-> name, expires |-> time]
  IN {<<>>, <<Held(a, 4440), Held(b, -1)>>, <<Held(b, 28000), Held(b, 19)>>}

(***************************************************************************)
(* Six units, scaled down: a second has 4 nanoseconds, a minute 5 seconds, *)
(* an hour 3 minutes, a day 2 hours, a month 3 days and a year 12 months   *)
(* and a day; a Duration holds a little more than six years.               *)
(***************************************************************************)
MCLengths == <<4440, 360, 120, 60, 20, 4>>
MCDurationLimit == 28000
MCMaxAges == {-1, 0, 1, 4, 5, 6999, 7000}
MCTimes == {-14001, -1, 0, 3, 19, 20, 4440, 28000}
MCZeroTime == -56000
MCStartTime == 0

============================================================================
