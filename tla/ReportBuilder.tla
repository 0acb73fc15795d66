---------------------------- MODULE ReportBuilder ----------------------------
(***************************************************************************)
(* Task.parseResponse (parser/parser.go:77-310): from the records of a     *)
(* scan and Chrome's own list of cookies to the rows of the report.  Go    *)
(* ranges over its maps in any order; here the next key is any key.        *)
(*                                                                         *)
(* A URL stands for itself and for its host.  A record keeps what is read  *)
(* from it: the time, the URL, the names in its Cookie headers, and, for   *)
(* what carries a response, the cookies that response sets in the order of *)
(* its headers, each with its domain, Max-Age and Expires.  A request      *)
(* carries the response to the request before it if Chrome followed a      *)
(* redirect (redirectResponse).                                            *)
(***************************************************************************)
EXTENDS Integers, Sequences, FiniteSets, SequencesExt, CookieExpiry

CONSTANTS
  ReqIDs, Names, Urls, Domains,
  NoKey,          (* before the first request id                            *)
  NoUrl,          (* the URL of a response whose request was never seen     *)
  NoDomain,       (* a Set-Cookie header without a Domain attribute         *)
  Categories,     (* the classifier's categories                            *)
  Unclassified,   (* the empty category                                     *)
  CategoryOf,     (* Classifier.GetCookieDetail                             *)
  Traces,         (* record lists to build the snapshot from                *)
  Listings,       (* Chrome's lists of all cookies                          *)
  NoListing,      (* GetAllCookies failed                                   *)
  StartTime       (* Task.startTime                                         *)

SetCookies == [name : Names, domain : Domains \cup {NoDomain},
               maxAge : MaxAges, expires : Dates]
BrowserCookies == [name : Names, expires : Times]
Responses == [sets : Seq(SetCookies), requestHeaders : Seq(Names)]
Records == [isRequest : BOOLEAN, reqSeq : Int, url : Urls \cup {NoUrl},
            headers : Seq(Names), redirected : BOOLEAN, response : Responses]

ASSUME BuilderAssumption ==
  /\ Unclassified \notin Categories
  /\ CategoryOf \in [Names -> Categories \cup {Unclassified}]
  /\ NoKey \notin ReqIDs
  /\ Traces \subseteq Seq(Records)
  /\ Listings \subseteq Seq(BrowserCookies) /\ NoListing \notin Listings
  /\ StartTime \in Times

VARIABLES
  snapshot,       (* rc.get(), one of the snapshots of Traces               *)
  listing,        (* what GetAllCookies is going to return                  *)
  pc,
  todo,           (* the keys the current range loop has not visited        *)
  key,            (* the request id whose records are read                  *)
  left,           (* the records of that id, or Chrome's cookies, left      *)
  lastHeaders,    (* names in the Cookie header of the last request         *)
  lastIsRequest,  (* lastRecord != nil && lastRecord.isRequest              *)
  output,         (* the output under construction                          *)
  outputs,
  counted,        (* the outputs whose cookies are counted                  *)
  usedCount,      (* cookieUsedCount                                        *)
  seqMap,         (* cookieSeqMap: an index of outputs, 0 when absent       *)
  groups,         (* reportRecords: the rows of each category               *)
  count,          (* cookieCount                                            *)
  result          (* resultData: the categories in the order of the report  *)

(* The variables of the loop over the records, and those of the rest       *)
recordVars == <<key, lastHeaders, lastIsRequest, output, outputs>>
countVars == <<counted, usedCount, seqMap>>
rowVars == <<groups, count>>

vars == <<snapshot, listing, pc, todo, left, recordVars, countVars, rowVars,
          result>>

(* An output has a history variable, the record it came from.              *)
NewOutput ==
  [url |-> NoUrl, reqSeq |-> 0, used |-> <<>>, set |-> <<>>, from |-> <<>>]

Init ==
  /\ snapshot \in [ReqIDs -> Traces]
  /\ listing \in Listings \cup {NoListing}
  /\ pc = "records"
  /\ todo = {id \in ReqIDs : snapshot[id] # <<>>}
  /\ key = NoKey /\ left = <<>>
  /\ lastHeaders = <<>> /\ lastIsRequest = FALSE
  /\ output = NewOutput
  /\ outputs = <<>>
  /\ counted = 0
  /\ usedCount = [c \in Names |-> 0]
  /\ seqMap = [c \in Names |-> 0]
  /\ groups = [g \in Categories \cup {Unclassified} |-> <<>>]
  /\ count = 0
  /\ result = <<>>

----------------------------------------------------------------------------
(* The records of one request id                                           *)

NextRequestID(id) ==
  /\ pc = "records" /\ left = <<>>
  /\ id \in todo
  /\ todo' = todo \ {id}
  /\ key' = id /\ left' = snapshot[id]
  /\ lastHeaders' = <<>> /\ lastIsRequest' = FALSE
  /\ output' = NewOutput
  /\ UNCHANGED <<snapshot, listing, pc, outputs, countVars, rowVars, result>>

(* The place of the first record that is left                              *)
Position == Len(snapshot[key]) - Len(left) + 1

(* A cookie without a domain gets the host of the output's URL.            *)
WithDomain(cookies, url) ==
  [i \in 1..Len(cookies) |->
     [cookies[i] EXCEPT !.domain = IF @ = NoDomain THEN url ELSE @]]

(* The output finished by a response: its Set-Cookie headers and, for the  *)
(* Cookie headers, those of the request and those reported with the        *)
(* response together.                                                      *)
Finished(resp) ==
  [output EXCEPT !.set = WithDomain(resp.sets, output.url),
                 !.used = lastHeaders \o resp.requestHeaders,
                 !.from = <<key, Position>>]

(* An output without cookies is left out.                                  *)
AddOutput(o) ==
  outputs' = IF o.used = <<>> /\ o.set = <<>> THEN outputs ELSE Append(outputs, o)

(* A request.  If it follows another one and carries the response to it,   *)
(* that one's output is complete and a new one begins; otherwise the       *)
(* output of the request before is overwritten.                            *)
RequestRecord ==
  /\ pc = "records" /\ left # <<>>
  /\ LET r == Head(left)
         redirect == lastIsRequest /\ r.redirected
         current == IF redirect THEN NewOutput ELSE output
     IN /\ r.isRequest
        /\ IF redirect THEN AddOutput(Finished(r.response)) ELSE UNCHANGED outputs
        /\ output' = [current EXCEPT !.url = r.url, !.reqSeq = r.reqSeq,
                                     !.used = r.headers]
        /\ lastHeaders' = r.headers
  /\ lastIsRequest' = TRUE
  /\ left' = Tail(left)
  /\ UNCHANGED <<snapshot, listing, pc, todo, key, countVars, rowVars, result>>

(* Seeded fault: the headers of the last request outlive its response, and *)
(* so does its URL.                                                        *)
ResponseRecordKeeping ==
  /\ pc = "records" /\ left # <<>>
  /\ ~ Head(left).isRequest
  /\ AddOutput(Finished(Head(left).response))
  /\ lastIsRequest' = FALSE
  /\ left' = Tail(left)
  /\ UNCHANGED <<snapshot, listing, pc, todo, key, output, lastHeaders,
                 countVars, rowVars, result>>

(* A response completes the output; without a request it has no URL.       *)
ResponseRecord ==
  /\ pc = "records" /\ left # <<>>
  /\ ~ Head(left).isRequest
  /\ AddOutput(Finished(Head(left).response))
  /\ output' = NewOutput
  /\ lastHeaders' = <<>>
  /\ lastIsRequest' = FALSE
  /\ left' = Tail(left)
  /\ UNCHANGED <<snapshot, listing, pc, todo, key, countVars, rowVars, result>>

----------------------------------------------------------------------------
(* The cookies of the outputs                                              *)

EndRecords ==
  /\ pc = "records" /\ todo = {} /\ left = <<>>
  /\ pc' = "outputs"
  /\ UNCHANGED <<snapshot, listing, todo, left, recordVars, countVars, rowVars,
                 result>>

Occurrences(s, c) == Cardinality({i \in 1..Len(s) : s[i] = c})

NamesIn(cookies) == {cookies[i].name : i \in 1..Len(cookies)}

(* httpCookieMap: the first cookie with a name that a response sets        *)
CookieNamed(cookies, c) ==
  cookies[CHOOSE i \in 1..Len(cookies) :
            /\ cookies[i].name = c
            /\ \A j \in 1..i - 1 : cookies[j].name # c]

(* Seeded fault: the last output that sets a cookie is kept.               *)
FirstSetterLatest(m, idx) ==
  [c \in Names |->
     IF c \in NamesIn(outputs[idx].set)
        /\ (m[c] = 0 \/ outputs[m[c]].reqSeq <= outputs[idx].reqSeq)
     THEN idx ELSE m[c]]

(* One output's share in the loop over outputs: it becomes the first       *)
(* setter of a cookie that has none yet, or a later one.                   *)
FirstSetter(m, idx) ==
  [c \in Names |->
     IF c \in NamesIn(outputs[idx].set)
        /\ (m[c] = 0 \/ outputs[m[c]].reqSeq > outputs[idx].reqSeq)
     THEN idx ELSE m[c]]

(* The loop over outputs, in order.                                        *)
CountOutput ==
  /\ pc = "outputs" /\ counted < Len(outputs)
  /\ counted' = counted + 1
  /\ usedCount' = [c \in Names |->
                     usedCount[c] + Occurrences(outputs[counted + 1].used, c)]
  /\ seqMap' = FirstSetter(seqMap, counted + 1)
  /\ UNCHANGED <<snapshot, listing, pc, todo, left, recordVars, rowVars, result>>

(* The range over cookieSeqMap begins.                                     *)
EndOutputs ==
  /\ pc = "outputs" /\ counted = Len(outputs)
  /\ pc' = "http"
  /\ todo' = {c \in Names : seqMap[c] # 0}
  /\ UNCHANGED <<snapshot, listing, left, recordVars, countVars, rowVars, result>>

AddRow(row) ==
  groups' = [groups EXCEPT ![CategoryOf[row.name]] = Append(@, row)]

(* A row for a cookie set by a response                                    *)
ListHTTPCookie(c) ==
  /\ pc = "http"
  /\ c \in todo
  /\ todo' = todo \ {c}
  /\ LET o == outputs[seqMap[c]]
         cookie == CookieNamed(o.set, c)
     IN AddRow([name |-> c, domain |-> cookie.domain, url |-> o.url,
                used |-> usedCount[c],
                expiry |-> Expiry(cookie.maxAge, cookie.expires, StartTime)])
  /\ UNCHANGED <<snapshot, listing, pc, left, recordVars, countVars, count,
                 result>>

(* GetAllCookies; an error ends parseResponse without a report.            *)
LoadBrowserCookies ==
  /\ pc = "http" /\ todo = {}
  /\ count' = Cardinality({c \in Names : seqMap[c] # 0})
  /\ IF listing = NoListing
     THEN pc' = "failed" /\ UNCHANGED left
     ELSE pc' = "browser" /\ left' = listing
  /\ UNCHANGED <<snapshot, listing, todo, recordVars, countVars, groups, result>>

(* A row for a cookie that only Chrome knows                               *)
BrowserRow(cookie) ==
  [name |-> cookie.name, domain |-> NoDomain, url |-> NoUrl,
   used |-> usedCount[cookie.name],
   expiry |-> EstimatedDuration(Sub(cookie.expires, StartTime))]

(* Seeded fault: what responses set is listed again.                       *)
ListBrowserCookieAgain ==
  /\ pc = "browser" /\ left # <<>>
  /\ left' = Tail(left)
  /\ count' = count + 1
  /\ AddRow(BrowserRow(Head(left)))
  /\ UNCHANGED <<snapshot, listing, pc, todo, recordVars, countVars, result>>

(* One cookie of Chrome's list: a name no response has set gets a row.     *)
ListBrowserCookie ==
  /\ pc = "browser" /\ left # <<>>
  /\ left' = Tail(left)
  /\ IF seqMap[Head(left).name] = 0
     THEN count' = count + 1 /\ AddRow(BrowserRow(Head(left)))
     ELSE UNCHANGED <<count, groups>>
  /\ UNCHANGED <<snapshot, listing, pc, todo, recordVars, countVars, result>>

----------------------------------------------------------------------------
(* The order of the categories                                             *)

StartAssembling ==
  /\ pc = "browser" /\ left = <<>>
  /\ pc' = "assemble"
  /\ todo' = {g \in DOMAIN groups : groups[g] # <<>>}
  /\ UNCHANGED <<snapshot, listing, left, recordVars, countVars, rowVars, result>>

(* Seeded fault: the unclassified cookies come where the map has them.     *)
AssembleAny(g) ==
  /\ pc = "assemble"
  /\ g \in todo
  /\ todo' = todo \ {g}
  /\ result' = Append(result, g)
  /\ UNCHANGED <<snapshot, listing, pc, left, recordVars, countVars, rowVars>>

AssembleClassified(g) ==
  /\ pc = "assemble"
  /\ g \in todo /\ g # Unclassified
  /\ todo' = todo \ {g}
  /\ result' = Append(result, g)
  /\ UNCHANGED <<snapshot, listing, pc, left, recordVars, countVars, rowVars>>

AssembleRest ==
  /\ pc = "assemble"
  /\ todo \subseteq {Unclassified}
  /\ result' = IF todo = {} THEN result ELSE Append(result, Unclassified)
  /\ todo' = {}
  /\ pc' = "done"
  /\ UNCHANGED <<snapshot, listing, left, recordVars, countVars, rowVars>>

Next ==
  \/ \E id \in ReqIDs : NextRequestID(id)
  \/ RequestRecord \/ ResponseRecord
  \/ EndRecords \/ CountOutput \/ EndOutputs
  \/ \E c \in Names : ListHTTPCookie(c)
  \/ LoadBrowserCookies \/ ListBrowserCookie
  \/ StartAssembling
  \/ \E g \in DOMAIN groups : AssembleClassified(g)
  \/ AssembleRest

Spec == Init /\ [][Next]_vars

----------------------------------------------------------------------------
(* What the report should say, from the records alone                      *)

(* A record that carries a response, with the request before it, if any.   *)
Carriers ==
  {k \in UNION {{id} \X (1..Len(snapshot[id])) : id \in ReqIDs} :
     LET r == snapshot[k[1]][k[2]]
     IN r.isRequest =>
          k[2] > 1 /\ snapshot[k[1]][k[2] - 1].isRequest /\ r.redirected}

Response(k) == snapshot[k[1]][k[2]].response

HasRequest(k) == k[2] > 1 /\ snapshot[k[1]][k[2] - 1].isRequest
Request(k) == snapshot[k[1]][k[2] - 1]

(* A response whose request was not seen has no time and no URL.           *)
Time(k) == IF HasRequest(k) THEN Request(k).reqSeq ELSE 0
Url(k) == IF HasRequest(k) THEN Request(k).url ELSE NoUrl

(* The names in the Cookie headers reported with the request and with the  *)
(* response                                                                *)
Headers(k) ==
  (IF HasRequest(k) THEN Request(k).headers ELSE <<>>)
    \o Response(k).requestHeaders

(* The carriers whose response sets a cookie, and that cookie              *)
Setters(c) == {k \in Carriers : c \in NamesIn(Response(k).sets)}
SetBy(k, c) == CookieNamed(Response(k).sets, c)

(* The earliest of them, or one of several at that time                    *)
IsFirstSetter(k, c) ==
  k \in Setters(c) /\ \A l \in Setters(c) : Time(k) <= Time(l)

(* The requests that used a cookie, and those that name it only once       *)
Users(c) == {k \in Carriers : c \in ToSet(Headers(k))}
NamesOnce(k, c) ==
  \A i, j \in 1..Len(Headers(k)) : Headers(k)[i] = c /\ Headers(k)[j] = c => i = j

RowPlaces == UNION {{g} \X (1..Len(groups[g])) : g \in DOMAIN groups}
Row(place) == groups[place[1]][place[2]]

(***************************************************************************)
(* The report attributes a cookie to the first response that set it, by    *)
(* the time of its request: along a redirect chain to the right hop, and   *)
(* across requests whatever order Go's map iteration gave.  The row has    *)
(* the URL of that request, and its host if the cookie named no domain.    *)
(* A response whose request was not seen has the time 0 of a new output    *)
(* (parser.go:85), which is before the first of Chrome's timestamps.       *)
(***************************************************************************)
FirstSetterListed ==
  pc = "done" =>
    \A c \in Names :
      Setters(c) # {} =>
        \E k \in Setters(c), place \in RowPlaces :
          /\ IsFirstSetter(k, c)
          /\ Row(place).name = c
          /\ Row(place).url = Url(k)
          /\ Row(place).domain = (IF SetBy(k, c).domain = NoDomain
                                  THEN Url(k) ELSE SetBy(k, c).domain)

(***************************************************************************)
(* "Used Requests" (parser/pdf.go:131): a row counts every request with an *)
(* answer or a redirect whose Cookie headers name the cookie, those sent   *)
(* with the request and those reported with the response.  It counts none  *)
(* of them twice as long as each names the cookie once; the code counts    *)
(* names, and a request that names it in both headers counts as two.       *)
(***************************************************************************)
UsesCounted ==
  pc = "done" =>
    \A place \in RowPlaces :
      LET c == Row(place).name
      IN /\ Row(place).used >= Cardinality(Users(c))
         /\ (\A k \in Users(c) : NamesOnce(k, c)) =>
              Row(place).used = Cardinality(Users(c))

(***************************************************************************)
(* CookieCount is the number of rows, a cookie set by a response has one   *)
(* row, and a name has a row if and only if a response set it or Chrome    *)
(* lists it.                                                               *)
(***************************************************************************)
CountIsRows ==
  pc = "done" =>
    /\ count = Cardinality(RowPlaces)
    /\ {Row(place).name : place \in RowPlaces} =
         {c \in Names : Setters(c) # {}} \cup NamesIn(listing)
    /\ \A p, q \in RowPlaces :
         Row(p).name = Row(q).name /\ Setters(Row(p).name) # {} => p = q

(***************************************************************************)
(* The report has each category that has a cookie once, the unclassified   *)
(* cookies last, and every cookie under the classifier's category.         *)
(***************************************************************************)
UnclassifiedLast ==
  pc = "done" =>
    /\ ToSet(result) = {g \in DOMAIN groups : groups[g] # <<>>}
    /\ IsInjective(result)
    /\ \A i \in 1..Len(result) : result[i] = Unclassified => i = Len(result)
    /\ \A place \in RowPlaces : place[1] = CategoryOf[Row(place).name]

(***************************************************************************)
(* The expiry column (parser/parser.go:214-220, 279 and 312-328): the row  *)
(* of a cookie that a response has set shows the lifetime which the first  *)
(* response to set it gave it, and of several in that response the first,  *)
(* whatever later responses said; any other row shows the time left to a   *)
(* cookie of that name in Chrome's list.                                   *)
(***************************************************************************)
ExpiryOfFirstSetter ==
  pc = "done" =>
    \A place \in RowPlaces :
      LET c == Row(place).name
          shown == Row(place).expiry
      IN IF Setters(c) # {}
         THEN \E k \in Setters(c) :
                /\ IsFirstSetter(k, c)
                /\ ShowsLifetime(shown, SetBy(k, c).maxAge,
                                 SetBy(k, c).expires, StartTime)
         ELSE \E i \in 1..Len(listing) :
                /\ listing[i].name = c
                /\ Agrees(shown, Saturated(listing[i].expires - StartTime))

(* The type of the builder's state.                                        *)
TypeOK ==
  /\ snapshot \in [ReqIDs -> Traces] /\ listing \in Listings \cup {NoListing}
  /\ pc \in {"records", "outputs", "http", "browser", "assemble", "done",
             "failed"}
  /\ key \in ReqIDs \cup {NoKey}
  /\ pc = "records" => todo \subseteq ReqIDs
  /\ pc = "http" => todo \subseteq {c \in Names : seqMap[c] # 0}
  /\ pc = "assemble" => todo \subseteq DOMAIN groups
  /\ \A i \in 1..Len(outputs) :
       outputs[i].url \in Urls \cup {NoUrl} /\ outputs[i].from \in Carriers
  /\ counted \in 0..Len(outputs)
  /\ seqMap \in [Names -> 0..counted]
  /\ usedCount \in [Names -> Nat]
  /\ DOMAIN groups = Categories \cup {Unclassified}
  /\ count \in Nat
  /\ ToSet(result) \subseteq DOMAIN groups

============================================================================
