------------------------- MODULE ReportBuilderProofs -------------------------
(***************************************************************************)
(* Proofs about module ReportBuilder: what the report says follows from    *)
(* the records of the scan and Chrome's list, for any number of requests,  *)
(* cookies and categories, and in every order of the loops over maps.      *)
(* The last part is about module CookieExpiry, for units of any lengths    *)
(* and a machine word of any width.                                        *)
(***************************************************************************)
EXTENDS ReportBuilder, FiniteSetTheorems, SequenceTheorems,
        WellFoundedInduction, TLAPS

(* The record that is read next                                            *)
Here == <<key, Position>>

(* The carriers that have been read                                        *)
Handled ==
  {k \in Carriers :
     pc = "records" => k[1] \notin todo /\ (k[1] = key => k[2] < Position)}

(* What a carrier contributes to the report                                *)
OutputOf(k) ==
  [url |-> Url(k), reqSeq |-> Time(k), used |-> Headers(k),
   set |-> WithDomain(Response(k).sets, Url(k)), from |-> k]
Silent(k) == Headers(k) = <<>> /\ Response(k).sets = <<>>

(* The places of a cookie's name in the headers of some carriers           *)
Uses(K, c) ==
  UNION {{k} \X {i \in 1..Len(Headers(k)) : Headers(k)[i] = c} : k \in K}

(* The cookies that are set by an output counted so far                    *)
Found == {c \in Names : seqMap[c] # 0}
From(n) == {outputs[i].from : i \in 1..n}

HTTPRow(c) ==
  LET o == outputs[seqMap[c]]
      cookie == CookieNamed(o.set, c)
  IN [name |-> c, domain |-> cookie.domain, url |-> o.url,
      used |-> usedCount[c],
      expiry |-> Expiry(cookie.maxAge, cookie.expires, StartTime)]

(* The names of Chrome's list that have been looked at                     *)
Looked ==
  IF pc \in {"browser", "assemble", "done"}
  THEN {listing[i].name : i \in 1..Len(listing) - Len(left)} ELSE {}

(* A row's expiry is that of a cookie of its name in Chrome's list.        *)
Listed(row) ==
  \E i \in 1..Len(listing) :
    /\ listing[i].name = row.name
    /\ row.expiry = EstimatedDuration(Sub(listing[i].expires, StartTime))

AllGroups == Categories \cup {Unclassified}
Filled == {g \in AllGroups : groups[g] # <<>>}
RowSet ==
  [name : Names, url : Urls \cup {NoUrl}, used : Nat,
   domain : Domains \cup {NoDomain} \cup Urls \cup {NoUrl},
   expiry : {EstimatedDuration(d) : d \in Int}]

TypePart ==
  /\ snapshot \in [ReqIDs -> Traces] /\ listing \in Listings \cup {NoListing}
  /\ pc \in {"records", "outputs", "http", "browser", "assemble", "done",
             "failed"}
  /\ key \in ReqIDs \cup {NoKey}
  /\ outputs \in Seq({OutputOf(k) : k \in Carriers})
  /\ counted \in 0..Len(outputs)
  /\ seqMap \in [Names -> 0..counted]
  /\ usedCount \in [Names -> Nat]
  /\ groups \in [AllGroups -> Seq(RowSet)]
  /\ count \in Nat
  /\ result \in Seq(AllGroups)

(* Between two records, what is kept of the one before                     *)
ReadPart ==
  pc = "records" =>
    /\ todo \subseteq ReqIDs
    /\ key = NoKey => left = <<>>
    /\ key # NoKey =>
         /\ key \notin todo
         /\ left \in Seq(Records) /\ Len(left) <= Len(snapshot[key])
         /\ \A i \in 1..Len(left) : left[i] = snapshot[key][Position - 1 + i]
         /\ lastIsRequest = HasRequest(Here)
         /\ lastHeaders = (IF HasRequest(Here) THEN Request(Here).headers ELSE <<>>)
         /\ output = [url |-> Url(Here), reqSeq |-> Time(Here),
                      used |-> lastHeaders, set |-> <<>>, from |-> <<>>]

(* The outputs are those of the carriers read, but for the empty ones.     *)
OutputsPart ==
  /\ \A i \in 1..Len(outputs) : \E k \in Handled : outputs[i] = OutputOf(k)
  /\ \A i, j \in 1..Len(outputs) : outputs[i].from = outputs[j].from => i = j
  /\ \A k \in Handled :
       Silent(k) \/ \E i \in 1..Len(outputs) : outputs[i].from = k

CountPart ==
  /\ pc = "records" => counted = 0
  /\ pc \notin {"records", "outputs"} => counted = Len(outputs)
  /\ \A c \in Names :
       /\ IsFiniteSet(Uses(From(counted), c))
       /\ usedCount[c] = Cardinality(Uses(From(counted), c))

(* seqMap has the earliest of the outputs counted that set a cookie.       *)
FirstPart ==
  /\ IsFiniteSet(Found)
  /\ \A c \in Names :
       IF seqMap[c] = 0
       THEN \A i \in 1..counted : c \notin NamesIn(outputs[i].set)
       ELSE /\ c \in NamesIn(outputs[seqMap[c]].set)
            /\ \A i \in 1..counted :
                 c \in NamesIn(outputs[i].set) =>
                   outputs[seqMap[c]].reqSeq <= outputs[i].reqSeq

ListPart ==
  /\ pc = "outputs" => todo = {}
  /\ pc = "http" => todo \subseteq Found
  /\ pc = "browser" =>
       /\ left \in Seq(BrowserCookies) /\ listing # NoListing
       /\ Len(left) <= Len(listing)
       /\ \A i \in 1..Len(left) : left[i] = listing[Len(listing) - Len(left) + i]
  /\ pc \in {"assemble", "done"} => left = <<>> /\ listing # NoListing

(* Each row is where its category is and says what was counted; a cookie   *)
(* that was found has one row, that of its first output, and any other row *)
(* is of Chrome's list.                                                    *)
RowsCorrect ==
  /\ \A p \in RowPlaces :
       p[1] = CategoryOf[Row(p).name] /\ Row(p).used = usedCount[Row(p).name]
  /\ \A c \in Found, p \in RowPlaces :
       Row(p).name = c =>
         Row(p) = HTTPRow(c) /\ \A q \in RowPlaces : Row(q).name = c => q = p
  /\ \A p \in RowPlaces : Row(p).name \notin Found => Listed(Row(p))

(* The rows are those of the cookies found, then those of Chrome's list.   *)
RowsPart ==
  /\ pc \in {"records", "outputs"} => Filled = {}
  /\ pc \notin {"records", "outputs"} =>
       /\ {Row(p).name : p \in RowPlaces} =
            (IF pc = "http" THEN Found \ todo ELSE Found) \cup Looked
       /\ RowsCorrect

TotalPart ==
  /\ IsFiniteSet(RowPlaces)
  /\ pc = "http" => Cardinality(RowPlaces) + Cardinality(todo) = Cardinality(Found)
  /\ pc \in {"browser", "assemble", "done"} => count = Cardinality(RowPlaces)

OrderPart ==
  /\ pc \notin {"assemble", "done"} => result = <<>>
  /\ pc \in {"assemble", "done"} =>
       /\ todo \cap ToSet(result) = {} /\ todo \cup ToSet(result) = Filled
       /\ IsInjective(result)
  /\ pc = "assemble" => Unclassified \notin ToSet(result)
  /\ pc = "done" =>
       /\ todo = {}
       /\ \A i \in 1..Len(result) : result[i] = Unclassified => i = Len(result)

BuilderInv ==
  /\ TypePart /\ ReadPart /\ OutputsPart /\ CountPart /\ FirstPart
  /\ ListPart /\ RowsPart /\ TotalPart /\ OrderPart

----------------------------------------------------------------------------
(* Numbers, sets and sequences                                             *)

(* A set of natural numbers has a smallest element.                        *)
LEMMA Smallest ==
  ASSUME NEW T, T \subseteq Nat, T # {}
  PROVE  \E x \in T : \A y \in T : x <= y
<1> DEFINE R == OpToRel(<, Nat)
<1>1. IsWellFoundedOn(R, Nat)
  BY NatLessThanWellFounded
<1> HIDE DEF R
<1>2. PICK x \in T : \A y \in T : ~ (<<y, x>> \in R)
  BY <1>1, WFMin, Zenon
<1>3. ASSUME NEW y \in T, y < x PROVE FALSE
  <2>1. <<y, x>> \in R
    BY <1>3 DEF R, OpToRel
  <2> QED
    BY <1>2, <2>1
<1> QED
  BY <1>3

(* What a sequence has is finite.                                          *)
LEMMA FiniteImage ==
  ASSUME NEW S, NEW s \in Seq(S)
  PROVE  IsFiniteSet({s[i] : i \in 1..Len(s)})
<1> DEFINE T == {s[i] : i \in 1..Len(s)}
           f == [i \in 1..Len(s) |-> s[i]]
<1>1. f \in [1..Len(s) -> T] /\ \A t \in T : \E i \in 1..Len(s) : f[i] = t
  OBVIOUS
<1>2. f \in Surjection(1..Len(s), T)
  BY <1>1 DEF Surjection
<1>3. IsFiniteSet(1..Len(s))
  BY FS_Interval
<1> QED
  BY <1>2, <1>3, FS_Surjection

(* One more row under the category of its cookie                           *)
LEMMA AddedRow ==
  ASSUME BuilderAssumption, groups \in [AllGroups -> Seq(RowSet)],
         NEW row \in RowSet, AddRow(row)
  PROVE  /\ groups' \in [AllGroups -> Seq(RowSet)]
         /\ \E place :
              /\ place \notin RowPlaces /\ RowPlaces' = RowPlaces \cup {place}
              /\ place[1] = CategoryOf[row.name] /\ Row(place)' = row
              /\ \A p \in RowPlaces : Row(p)' = Row(p)
<1> DEFINE g == CategoryOf[row.name]
           n == Len(groups[g]) + 1
<1>1. row.name \in Names /\ g \in AllGroups /\ groups[g] \in Seq(RowSet)
  BY DEF BuilderAssumption, AllGroups, RowSet
<1> PICK place : place = <<g, n>>
  OBVIOUS
<1>2. /\ groups' = [groups EXCEPT ![g] = Append(groups[g], row)]
      /\ groups' \in [AllGroups -> Seq(RowSet)]
  BY <1>1 DEF AddRow
<1>3. /\ Len(groups'[g]) = n /\ groups'[g][n] = row
      /\ \A i \in 1..Len(groups[g]) : groups'[g][i] = groups[g][i]
      /\ n \in Nat \ {0}
  BY <1>1, <1>2
<1>4. \A h \in AllGroups : h # g => groups'[h] = groups[h]
  BY <1>2
<1>5. \A p : p \in RowPlaces <=>
        \E h \in AllGroups : \E i \in 1..Len(groups[h]) : p = <<h, i>>
  BY DEF RowPlaces
<1>6. \A p : p \in RowPlaces' <=>
        \E h \in AllGroups : \E i \in 1..Len(groups'[h]) : p = <<h, i>>
  BY <1>2 DEF RowPlaces
<1>7. place \notin RowPlaces
  BY <1>1, <1>5
<1>8. RowPlaces' = RowPlaces \cup {place}
  <2>1. ASSUME NEW p \in RowPlaces' PROVE p \in RowPlaces \cup {place}
    <3>1. PICK h \in AllGroups : \E i \in 1..Len(groups'[h]) : p = <<h, i>>
      BY <1>6
    <3> QED
      BY <3>1, <1>1, <1>3, <1>4, <1>5
  <2>2. ASSUME NEW p \in RowPlaces PROVE p \in RowPlaces'
    <3>1. PICK h \in AllGroups : \E i \in 1..Len(groups[h]) : p = <<h, i>>
      BY <1>5
    <3>2. groups[h] = groups'[h] \/ h = g
      BY <1>4
    <3>3. Len(groups[g]) \in Nat /\ Len(groups[g]) <= Len(groups'[g])
      BY <1>1, <1>3
    <3>4. \A i \in 1..Len(groups[h]) : i \in 1..Len(groups'[h])
      BY <3>2, <3>3
    <3> QED
      BY <3>1, <3>4, <1>6
  <2>3. place \in RowPlaces'
    BY <1>1, <1>3, <1>6
  <2> QED
    BY <2>1, <2>2, <2>3
<1>9. Row(place)' = row
  BY <1>3 DEF Row
<1>10. ASSUME NEW p \in RowPlaces PROVE Row(p)' = Row(p)
  <2>1. PICK h \in AllGroups : \E i \in 1..Len(groups[h]) : p = <<h, i>>
    BY <1>5
  <2>2. PICK i \in 1..Len(groups[h]) : p = <<h, i>>
    BY <2>1
  <2>3. groups'[h][i] = groups[h][i]
    BY <1>3, <1>4
  <2>4. p[1] = h /\ p[2] = i
    BY <2>2
  <2> QED
    BY <2>3, <2>4 DEF Row
<1> QED
  BY <1>2, <1>7, <1>8, <1>9, <1>10

----------------------------------------------------------------------------
(* Records and the cookies in them                                         *)

LEMMA SnapshotRecords ==
  ASSUME BuilderAssumption, snapshot \in [ReqIDs -> Traces], NEW id \in ReqIDs
  PROVE  snapshot[id] \in Seq(Records)
BY DEF BuilderAssumption

LEMMA CarrierTypes ==
  ASSUME BuilderAssumption, snapshot \in [ReqIDs -> Traces], NEW k \in Carriers
  PROVE  /\ k[1] \in ReqIDs /\ k[2] \in 1..Len(snapshot[k[1]])
         /\ k = <<k[1], k[2]>>
         /\ Response(k).sets \in Seq(SetCookies)
         /\ Response(k).requestHeaders \in Seq(Names)
         /\ Url(k) \in Urls \cup {NoUrl} /\ Time(k) \in Int
         /\ Headers(k) \in Seq(Names)
<1>0. PICK id \in ReqIDs : \E i \in 1..Len(snapshot[id]) : k = <<id, i>>
  BY DEF Carriers
<1>1. PICK i \in 1..Len(snapshot[id]) : k = <<id, i>>
  BY <1>0
<1>2. snapshot[id] \in Seq(Records)
  BY SnapshotRecords
<1>3. k[1] = id /\ k[2] = i /\ snapshot[id][i] \in Records
  BY <1>1, <1>2
<1>4. Response(k) \in Responses
  BY <1>3 DEF Response, Records
<1>5. ASSUME HasRequest(k) PROVE Request(k) \in Records
  BY <1>1, <1>2, <1>3, <1>5 DEF HasRequest, Request
<1>6. Url(k) \in Urls \cup {NoUrl} /\ Time(k) \in Int
  BY <1>5 DEF Url, Time, Records
<1>7. Headers(k) \in Seq(Names)
  BY <1>4, <1>5 DEF Headers, Records, Responses
<1> QED
  BY <1>1, <1>3, <1>4, <1>6, <1>7 DEF Responses

(* The first cookie with a name is one place.                              *)
LEMMA FirstNamed ==
  ASSUME NEW S, NEW s \in Seq(S), NEW c \in NamesIn(s)
  PROVE  /\ \E i \in 1..Len(s) :
              s[i].name = c /\ \A j \in 1..i - 1 : s[j].name # c
         /\ \A i, l \in 1..Len(s) :
              /\ s[i].name = c /\ \A j \in 1..i - 1 : s[j].name # c
              /\ s[l].name = c /\ \A j \in 1..l - 1 : s[j].name # c
              => i = l
<1>1. Len(s) \in Nat
  OBVIOUS
<1> DEFINE T == {i \in 1..Len(s) : s[i].name = c}
<1>2. T \subseteq Nat /\ T # {}
  BY <1>1 DEF NamesIn
<1>3. PICK i \in T : \A j \in T : i <= j
  BY <1>2, Smallest, Zenon
<1>4. i \in 1..Len(s) /\ s[i].name = c /\ \A j \in 1..i - 1 : s[j].name # c
  BY <1>1, <1>3
<1>5. ASSUME NEW p \in 1..Len(s), NEW q \in 1..Len(s), p < q,
             s[p].name = c, \A j \in 1..q - 1 : s[j].name # c
      PROVE  FALSE
  BY <1>1, <1>5
<1>6. \A p, q \in 1..Len(s) : p < q \/ q < p \/ p = q
  BY <1>1
<1> QED
  BY <1>4, <1>5, <1>6

(* Filling in the domains keeps the names and their first places.          *)
LEMMA DomainFilled ==
  ASSUME NEW s \in Seq(SetCookies),
         NEW url \in Urls \cup {NoUrl}
  PROVE  /\ WithDomain(s, url) = <<>> <=> s = <<>>
         /\ NamesIn(WithDomain(s, url)) = NamesIn(s)
         /\ NamesIn(s) \subseteq Names
         /\ \A c \in NamesIn(s) :
              LET cookie == CookieNamed(s, c)
                  filled == CookieNamed(WithDomain(s, url), c)
              IN /\ filled.domain = (IF cookie.domain = NoDomain
                                     THEN url ELSE cookie.domain)
                 /\ filled.domain \in Domains \cup Urls \cup {NoUrl}
                 /\ filled.maxAge = cookie.maxAge /\ filled.expires = cookie.expires
                 /\ filled.maxAge \in MaxAges /\ filled.expires \in Dates
         /\ IsFiniteSet(NamesIn(s))
<1> DEFINE Filled2 == [name : Names, domain : Domains \cup Urls \cup {NoUrl},
                       maxAge : MaxAges, expires : Dates]
           w == WithDomain(s, url)
<1>1. /\ Len(s) \in Nat
      /\ \A i \in 1..Len(s) :
           /\ s[i] \in SetCookies /\ s[i].name \in Names
           /\ s[i].maxAge \in MaxAges /\ s[i].expires \in Dates
  <2>1. Len(s) \in Nat /\ \A i \in 1..Len(s) : s[i] \in SetCookies
    BY ElementOfSeq, LenProperties
  <2> QED
    BY <2>1 DEF SetCookies
<1>2. /\ w \in Seq(Filled2) /\ Len(w) = Len(s)
      /\ \A i \in 1..Len(s) :
           /\ w[i].name = s[i].name /\ w[i].maxAge = s[i].maxAge
           /\ w[i].expires = s[i].expires
           /\ w[i].domain = IF s[i].domain = NoDomain THEN url ELSE s[i].domain
  <2>1. /\ w = [i \in 1..Len(s) |->
                [s[i] EXCEPT !.domain =
                   IF s[i].domain = NoDomain THEN url ELSE s[i].domain]]
    BY DEF WithDomain
  <2>2. \A i \in 1..Len(s) : w[i] \in Filled2
    BY <1>1, <2>1 DEF SetCookies
  <2>3. w \in [1..Len(s) -> Filled2]
    BY <2>1, <2>2
  <2>4. w \in Seq(Filled2) /\ Len(w) = Len(s)
    <3> HIDE DEF Filled2, w
    <3> QED
      BY <1>1, <2>3, IsASeq, LenProperties
  <2> QED
    BY <1>1, <2>1, <2>4
<1> HIDE DEF w
<1>3. NamesIn(w) = NamesIn(s)
  BY <1>2 DEF NamesIn
<1>4. ASSUME NEW c \in NamesIn(s)
      PROVE  LET cookie == CookieNamed(s, c)
                 filled == CookieNamed(w, c)
             IN /\ filled.domain = (IF cookie.domain = NoDomain
                                    THEN url ELSE cookie.domain)
                /\ filled.domain \in Domains \cup Urls \cup {NoUrl}
                /\ filled.maxAge = cookie.maxAge /\ filled.expires = cookie.expires
                /\ filled.maxAge \in MaxAges /\ filled.expires \in Dates
  <2> DEFINE First(t, i) == t[i].name = c /\ \A j \in 1..i - 1 : t[j].name # c
             p == CHOOSE i \in 1..Len(s) : First(s, i)
             q == CHOOSE i \in 1..Len(w) : First(w, i)
  <2>1. p \in 1..Len(s) /\ First(s, p)
    BY FirstNamed, Zenon
  <2>2. q \in 1..Len(w) /\ First(w, q)
    <3> HIDE DEF Filled2
    <3>1. w \in Seq(Filled2) /\ c \in NamesIn(w)
      BY <1>2, <1>3
    <3>2. \E i \in 1..Len(w) : First(w, i)
      BY <3>1, FirstNamed, Zenon
    <3> QED
      BY <3>2, Zenon
  <2>3. CookieNamed(s, c) = s[p] /\ CookieNamed(w, c) = w[q]
    BY DEF CookieNamed
  <2> HIDE DEF p, q
  <2>4. First(s, q)
    BY <1>1, <1>2, <2>2
  <2>5. p = q
    <3>1. q \in 1..Len(s)
      BY <1>2, <2>2
    <3>2. \A i, l \in 1..Len(s) : First(s, i) /\ First(s, l) => i = l
      BY FirstNamed, Zenon
    <3> QED
      BY <2>1, <2>4, <3>1, <3>2, Zenon
  <2>6. /\ s[p].maxAge \in MaxAges /\ s[p].expires \in Dates
        /\ w[p].maxAge = s[p].maxAge /\ w[p].expires = s[p].expires
        /\ w[p].domain = IF s[p].domain = NoDomain THEN url ELSE s[p].domain
        /\ s[p].domain \in Domains \cup {NoDomain}
    BY <1>1, <1>2, <2>1 DEF SetCookies
  <2> QED
    BY <2>3, <2>5, <2>6
<1>5. w = <<>> <=> s = <<>>
  BY <1>2
<1>6. NamesIn(s) \subseteq Names
  BY <1>1 DEF NamesIn
<1>7. IsFiniteSet(NamesIn(s))
  <2> DEFINE names == [i \in 1..Len(s) |-> s[i].name]
  <2>1. names \in [1..Len(s) -> Names]
    BY <1>1
  <2>2. names \in Seq(Names) /\ Len(names) = Len(s)
    BY <1>1, <2>1, IsASeq, LenProperties
  <2>3. IsFiniteSet({names[i] : i \in 1..Len(names)})
    BY <2>2, FiniteImage
  <2> QED
    BY <2>2, <2>3 DEF NamesIn
<1> QED
  BY <1>3, <1>4, <1>5, <1>6, <1>7 DEF w

----------------------------------------------------------------------------
(* What does not change                                                    *)

LEMMA SnapshotKept ==
  ASSUME snapshot' = snapshot
  PROVE  /\ Carriers' = Carriers
         /\ \A k : /\ HasRequest(k)' = HasRequest(k) /\ Request(k)' = Request(k)
                   /\ Url(k)' = Url(k) /\ Time(k)' = Time(k)
                   /\ Headers(k)' = Headers(k) /\ Response(k)' = Response(k)
                   /\ OutputOf(k)' = OutputOf(k) /\ Silent(k)' = Silent(k)
         /\ \A K, c : Uses(K, c)' = Uses(K, c)
<1> USE DEF HasRequest, Request
<1>1. Carriers' = Carriers
  BY DEF Carriers
<1>2. \A k : /\ HasRequest(k)' = HasRequest(k) /\ Request(k)' = Request(k)
             /\ Response(k)' = Response(k)
  BY DEF Response
<1>3. \A k : Url(k)' = Url(k) /\ Time(k)' = Time(k) /\ Headers(k)' = Headers(k)
  BY DEF Url, Time, Headers, Response
<1>4. \A k : OutputOf(k)' = OutputOf(k) /\ Silent(k)' = Silent(k)
  BY <1>2, <1>3 DEF OutputOf, Silent
<1>5. \A K, c : Uses(K, c)' = Uses(K, c)
  BY <1>3 DEF Uses
<1> QED
  BY <1>1, <1>2, <1>3, <1>4, <1>5

LEMMA GroupsKept ==
  ASSUME groups' = groups
  PROVE  /\ RowPlaces' = RowPlaces /\ Filled' = Filled
         /\ \A p : Row(p)' = Row(p)
BY DEF RowPlaces, Filled, Row

(* While the records are read nothing is counted or listed.                *)
LEMMA RestKept ==
  ASSUME BuilderInv, pc = "records", pc' \in {"records", "outputs"},
         UNCHANGED <<countVars, rowVars, result>>
  PROVE  CountPart' /\ FirstPart' /\ RowsPart' /\ TotalPart' /\ OrderPart'
<1> USE DEF BuilderInv, countVars, rowVars
<1>1. counted = 0 /\ counted' = 0
  BY DEF CountPart
<1>2. CountPart'
  <2>1. \A c : Uses({}, c)' = {}
    BY DEF Uses
  <2>2. From(counted)' = {} /\ From(counted) = {}
    BY <1>1 DEF From
  <2>3. \A c : Uses(From(counted), c)' = {} /\ Uses(From(counted), c) = {}
    BY <2>1, <2>2 DEF Uses
  <2> QED
    BY <1>1, <2>3 DEF CountPart
<1>3. FirstPart'
  <2>1. \A c \in Names : seqMap[c] = 0
    BY <1>1 DEF TypePart
  <2>2. Found' = Found
    BY DEF Found
  <2> QED
    BY <1>1, <2>1, <2>2 DEF FirstPart
<1>4. RowsPart'
  BY GroupsKept DEF RowsPart
<1>5. TotalPart'
  BY GroupsKept DEF TotalPart
<1>6. OrderPart'
  BY DEF OrderPart
<1> QED
  BY <1>2, <1>3, <1>4, <1>5, <1>6

(* Once they are read the outputs stay.                                    *)
LEMMA OutputsKept ==
  ASSUME BuilderInv, pc # "records", pc' # "records",
         UNCHANGED <<snapshot, recordVars>>
  PROVE  /\ Handled = Carriers /\ Handled' = Carriers
         /\ ReadPart' /\ OutputsPart'
<1> USE DEF BuilderInv, recordVars
<1>1. Handled = Carriers /\ Handled' = Carriers
  BY SnapshotKept DEF Handled
<1>2. OutputsPart'
  BY <1>1, SnapshotKept DEF OutputsPart
<1>3. ReadPart'
  BY DEF ReadPart
<1> QED
  BY <1>1, <1>2, <1>3

(* What a step that reads and counts nothing must show for its types        *)
LEMMA TypeKept ==
  ASSUME TypePart, UNCHANGED <<snapshot, listing, recordVars, countVars>>,
         pc' \in {"http", "browser", "assemble", "done", "failed"},
         groups' \in [AllGroups -> Seq(RowSet)], count' \in Nat,
         result' \in Seq(AllGroups)
  PROVE  TypePart'
<1>1. {OutputOf(k) : k \in Carriers}' = {OutputOf(k) : k \in Carriers}
  <2>1. Carriers' = Carriers /\ \A k : OutputOf(k)' = OutputOf(k)
    BY SnapshotKept
  <2> QED
    BY <2>1
<1>2. /\ key' = key /\ outputs' = outputs /\ counted' = counted
      /\ seqMap' = seqMap /\ usedCount' = usedCount
      /\ snapshot' = snapshot /\ listing' = listing
  BY DEF recordVars, countVars
<1>3. outputs' \in Seq({OutputOf(k) : k \in Carriers}')
  BY <1>1, <1>2 DEF TypePart
<1> QED
  BY <1>2, <1>3 DEF TypePart

(* Once they are counted the counts stay.                                  *)
LEMMA CountsKept ==
  ASSUME BuilderInv, pc \notin {"records", "outputs"},
         pc' \notin {"records", "outputs"},
         UNCHANGED <<snapshot, recordVars, countVars>>
  PROVE  /\ ReadPart' /\ OutputsPart' /\ CountPart' /\ FirstPart'
         /\ Found' = Found /\ \A c : HTTPRow(c)' = HTTPRow(c)
<1> USE DEF BuilderInv, recordVars, countVars
<1>1. ReadPart' /\ OutputsPart'
  BY OutputsKept
<1>2. CountPart'
  <2>1. From(counted)' = From(counted)
    BY DEF From
  <2>2. \A c : Uses(From(counted), c)' = Uses(From(counted), c)
    BY <2>1, SnapshotKept DEF Uses
  <2> QED
    BY <2>2 DEF CountPart
<1>3. Found' = Found /\ \A c : HTTPRow(c)' = HTTPRow(c)
  BY DEF Found, HTTPRow
<1>4. FirstPart'
  BY <1>3 DEF FirstPart
<1> QED
  BY <1>1, <1>2, <1>3, <1>4

----------------------------------------------------------------------------
(* The records of one request id                                           *)

(* The output of a carrier that has been read is one of the outputs.       *)
LEMMA OutputAdded ==
  ASSUME BuilderAssumption, TypePart, OutputsPart, NEW k \in Carriers,
         k \notin Handled, snapshot' = snapshot, Handled' = Handled \cup {k},
         AddOutput(OutputOf(k))
  PROVE  outputs' \in Seq({OutputOf(l) : l \in Carriers}) /\ OutputsPart'
<1> DEFINE O == {OutputOf(l) : l \in Carriers}
           o == OutputOf(k)
<1>1. outputs \in Seq(O) /\ o \in O /\ o.from = k
  BY DEF TypePart, OutputOf
<1>2. o.used = <<>> /\ o.set = <<>> <=> Silent(k)
  <2>1. Response(k).sets \in Seq(SetCookies)
        /\ Url(k) \in Urls \cup {NoUrl}
    BY CarrierTypes DEF TypePart
  <2> QED
    BY <2>1, DomainFilled DEF OutputOf, Silent
<1>3. \A l : OutputOf(l)' = OutputOf(l) /\ Silent(l)' = Silent(l)
  BY SnapshotKept
<1>4. CASE Silent(k)
  <2>1. outputs' = outputs
    BY <1>2, <1>4 DEF AddOutput
  <2> QED
    BY <1>1, <1>3, <1>4, <2>1 DEF OutputsPart
<1>5. CASE ~ Silent(k)
  <2>1. outputs' = Append(outputs, o)
    BY <1>2, <1>5 DEF AddOutput
  <2> HIDE DEF o, O
  <2>2. /\ outputs' \in Seq(O) /\ Len(outputs') = Len(outputs) + 1
        /\ \A i \in 1..Len(outputs) : outputs'[i] = outputs[i]
        /\ outputs'[Len(outputs) + 1] = o
        /\ Len(outputs) \in Nat
    BY <1>1, <2>1
  <2>3. \A i \in 1..Len(outputs') : \E l \in Handled' : outputs'[i] = OutputOf(l)
    <3> SUFFICES ASSUME NEW i \in 1..Len(outputs')
                 PROVE  \E l \in Handled' : outputs'[i] = OutputOf(l)
      OBVIOUS
    <3>1. CASE i \in 1..Len(outputs)
      BY <2>2, <3>1 DEF OutputsPart
    <3>2. CASE i = Len(outputs) + 1
      BY <2>2, <3>2 DEF o
    <3> QED
      BY <2>2, <3>1, <3>2
  <2>4. \A i, j \in 1..Len(outputs') :
          outputs'[i].from = outputs'[j].from => i = j
    <3>0. \A l : OutputOf(l).from = l
      BY DEF OutputOf
    <3>1. ASSUME NEW i \in 1..Len(outputs) PROVE outputs'[i].from # k
      BY <2>2, <3>0 DEF OutputsPart
    <3>2. outputs'[Len(outputs) + 1].from = k
      BY <1>1, <2>2
    <3>3. \A i \in 1..Len(outputs') : i \in 1..Len(outputs) \/ i = Len(outputs) + 1
      BY <2>2
    <3> QED
      BY <2>2, <3>1, <3>2, <3>3 DEF OutputsPart
  <2>5. \A l \in Handled' :
          Silent(l)' \/ \E i \in 1..Len(outputs') : outputs'[i].from = l
    <3> SUFFICES ASSUME NEW l \in Handled', ~ Silent(l)
                 PROVE  \E i \in 1..Len(outputs') : outputs'[i].from = l
      BY <1>3
    <3>1. CASE l = k
      BY <1>1, <2>2, <3>1
    <3>2. CASE l \in Handled
      <4>1. PICK i \in 1..Len(outputs) : outputs[i].from = l
        BY <3>2 DEF OutputsPart
      <4> QED
        BY <2>2, <4>1
    <3> QED
      BY <3>1, <3>2
  <2>6. OutputsPart'
    BY <1>3, <2>3, <2>4, <2>5 DEF OutputsPart
  <2> QED
    BY <2>2, <2>6 DEF O
<1> QED
  BY <1>4, <1>5

LEMMA NextRequestIDKeeps ==
  ASSUME BuilderAssumption, BuilderInv, NEW id \in ReqIDs, NextRequestID(id)
  PROVE  BuilderInv'
<1> USE DEF BuilderInv, NextRequestID
<1>1. CountPart' /\ FirstPart' /\ RowsPart' /\ TotalPart' /\ OrderPart'
  BY RestKept
<1>2. snapshot[id] \in Seq(Records)
  BY SnapshotRecords DEF TypePart
<1>3. id # NoKey
  BY DEF BuilderAssumption
<1>4. Position' = 1 /\ Here' = <<id, 1>> /\ HasRequest(Here)' = FALSE
  BY <1>2 DEF Position, Here, HasRequest
<1>5. ReadPart'
  <2>1. Url(Here)' = NoUrl /\ Time(Here)' = 0
    BY <1>4 DEF Url, Time
  <2>2. left' \in Seq(Records) /\ Len(left') <= Len(snapshot[id])
        /\ \A i \in 1..Len(left') : left'[i] = snapshot[id][1 - 1 + i]
    BY <1>2
  <2> QED
    BY <1>3, <1>4, <2>1, <2>2 DEF ReadPart, NewOutput
<1>6. Handled' = Handled
  <2>1. ASSUME NEW k \in Carriers PROVE k \in Handled' <=> k \in Handled
    <3>1. k[1] \in ReqIDs /\ k[2] \in 1..Len(snapshot[k[1]])
      BY CarrierTypes DEF TypePart
    <3>2. k[1] = key => k[2] < Position
      <4>1. snapshot[k[1]] \in Seq(Records)
        BY <3>1, SnapshotRecords DEF TypePart
      <4> QED
        BY <3>1, <4>1 DEF Position
    <3>3. k \in Handled <=> k[1] \notin todo
      BY <3>2 DEF Handled
    <3>4. k \in Handled' <=> k[1] \notin todo \ {id} /\ (k[1] = id => k[2] < 1)
      BY <1>4, SnapshotKept DEF Handled
    <3> QED
      BY <3>1, <3>3, <3>4
  <2>2. Handled \subseteq Carriers /\ Handled' \subseteq Carriers
    BY SnapshotKept DEF Handled
  <2> QED
    BY <2>1, <2>2
<1>7. OutputsPart'
  BY <1>6, SnapshotKept DEF OutputsPart
<1>8. TypePart'
  BY <1>3, SnapshotKept DEF TypePart, countVars, rowVars
<1>9. ListPart'
  BY DEF ListPart
<1> QED
  BY <1>1, <1>5, <1>7, <1>8, <1>9

(* Taking the next record                                                  *)
LEMMA ReadMoves ==
  ASSUME BuilderAssumption, TypePart, ReadPart, pc = "records", left # <<>>,
         left' = Tail(left), UNCHANGED <<snapshot, pc, todo, key>>
  PROVE  /\ key \in ReqIDs /\ Position \in 1..Len(snapshot[key])
         /\ key # NoKey /\ key \notin todo
         /\ Head(left) = snapshot[key][Position] /\ Head(left) \in Records
         /\ left' \in Seq(Records) /\ Len(left') <= Len(snapshot[key])
         /\ Position' = Position + 1
         /\ \A i \in 1..Len(left') : left'[i] = snapshot[key][Position' - 1 + i]
         /\ HasRequest(Here)' = Head(left).isRequest
         /\ HasRequest(Here)' => Request(Here)' = Head(left)
         /\ Here \notin Handled
         /\ Here \in Carriers <=>
              (Head(left).isRequest => HasRequest(Here) /\ Head(left).redirected)
         /\ Handled' = IF Here \in Carriers THEN Handled \cup {Here} ELSE Handled
<1>1. key # NoKey /\ key \in ReqIDs /\ key \notin todo
  BY DEF ReadPart, TypePart
<1>2. snapshot[key] \in Seq(Records)
  BY <1>1, SnapshotRecords DEF TypePart
<1>3. /\ left \in Seq(Records) /\ Len(left) <= Len(snapshot[key])
      /\ \A i \in 1..Len(left) : left[i] = snapshot[key][Position - 1 + i]
  BY <1>1 DEF ReadPart
<1>4. /\ Len(left) \in Nat \ {0} /\ Len(left') = Len(left) - 1
      /\ left' \in Seq(Records) /\ Head(left) = left[1]
      /\ \A i \in 1..Len(left') : left'[i] = left[i + 1]
  BY <1>3
<1>5. Position \in 1..Len(snapshot[key]) /\ Position' = Position + 1
  BY <1>2, <1>3, <1>4 DEF Position
<1>6. Head(left) = snapshot[key][Position] /\ Head(left) \in Records
  BY <1>3, <1>4, <1>5
<1>7. \A i \in 1..Len(left') : left'[i] = snapshot[key][Position' - 1 + i]
  <2> SUFFICES ASSUME NEW i \in 1..Len(left')
               PROVE  left'[i] = snapshot[key][Position' - 1 + i]
    OBVIOUS
  <2>1. i + 1 \in 1..Len(left) /\ Position' - 1 + i = Position - 1 + (i + 1)
    BY <1>4, <1>5
  <2> QED
    BY <1>3, <1>4, <2>1
<1>8. /\ HasRequest(Here)' = Head(left).isRequest
      /\ HasRequest(Here)' => Request(Here)' = Head(left)
  <2>1. Here' = <<key, Position + 1>>
    BY <1>5 DEF Here
  <2>2. Position + 1 > 1 /\ Position + 1 - 1 = Position
    BY <1>5
  <2>3. Here'[1] = key /\ Here'[2] = Position + 1
    BY <2>1
  <2>4. HasRequest(Here)' <=> Head(left).isRequest
    BY <1>5, <1>6, <2>2, <2>3 DEF HasRequest
  <2>5. HasRequest(Here)' \in BOOLEAN /\ Head(left).isRequest \in BOOLEAN
    BY <1>6 DEF HasRequest, Records
  <2>6. Request(Here)' = Head(left)
    BY <1>5, <1>6, <2>2, <2>3 DEF Request
  <2> QED
    BY <2>4, <2>5, <2>6
<1>9. Here \notin Handled
  BY <1>5 DEF Handled, Here
<1>10. Here \in Carriers <=>
         (Head(left).isRequest => HasRequest(Here) /\ Head(left).redirected)
  <2>1. Here \in UNION {{id} \X (1..Len(snapshot[id])) : id \in ReqIDs}
    BY <1>1, <1>5 DEF Here
  <2> QED
    BY <1>6, <2>1 DEF Carriers, Here, HasRequest
<1>11. Handled' = IF Here \in Carriers THEN Handled \cup {Here} ELSE Handled
  <2>1. ASSUME NEW k \in Carriers
        PROVE  k \in Handled' <=> k \in Handled \/ k = Here
    <3>1. k[2] \in Int /\ k = <<k[1], k[2]>>
      BY CarrierTypes DEF TypePart
    <3>2. k = Here <=> k[1] = key /\ k[2] = Position
      BY <3>1 DEF Here
    <3>3. k \in Handled <=> k[1] \notin todo /\ (k[1] = key => k[2] < Position)
      BY DEF Handled
    <3>4. k \in Handled' <=> k[1] \notin todo /\ (k[1] = key => k[2] < Position + 1)
      BY <1>5, SnapshotKept DEF Handled
    <3>5. k[2] < Position + 1 <=> k[2] < Position \/ k[2] = Position
      BY <1>5, <3>1
    <3> QED
      BY <1>1, <3>2, <3>3, <3>4, <3>5
  <2>2. Handled \subseteq Carriers /\ Handled' \subseteq Carriers
    BY SnapshotKept DEF Handled
  <2> QED
    BY <2>1, <2>2
<1> QED
  BY <1>1, <1>4, <1>3, <1>5, <1>6, <1>7, <1>8, <1>9, <1>10, <1>11

(* The fields of an output that a response or a request sets               *)
LEMMA OutputFields ==
  ASSUME NEW o, NEW url, NEW reqSeq, NEW used, NEW set, NEW from,
         o = [url |-> url, reqSeq |-> reqSeq, used |-> used, set |-> set,
              from |-> from],
         NEW x, NEW y, NEW z
  PROVE  /\ [o EXCEPT !.set = x, !.used = y, !.from = z] =
              [url |-> url, reqSeq |-> reqSeq, used |-> y, set |-> x, from |-> z]
         /\ [o EXCEPT !.url = x, !.reqSeq = y, !.used = z] =
              [url |-> x, reqSeq |-> y, used |-> z, set |-> set, from |-> from]
<1> DEFINE p == [o EXCEPT !.set = x]
           q == [p EXCEPT !.used = y]
           v == [o EXCEPT !.url = x]
           w == [v EXCEPT !.reqSeq = y]
<1>1. p = [url |-> url, reqSeq |-> reqSeq, used |-> used, set |-> x, from |-> from]
  OBVIOUS
<1>2. v = [url |-> x, reqSeq |-> reqSeq, used |-> used, set |-> set, from |-> from]
  OBVIOUS
<1>3. /\ [o EXCEPT !.set = x, !.used = y, !.from = z] = [q EXCEPT !.from = z]
      /\ [o EXCEPT !.url = x, !.reqSeq = y, !.used = z] = [w EXCEPT !.used = z]
  BY Zenon
<1> HIDE DEF p, v
<1>4. q = [url |-> url, reqSeq |-> reqSeq, used |-> y, set |-> x, from |-> from]
  BY <1>1
<1>5. w = [url |-> x, reqSeq |-> y, used |-> used, set |-> set, from |-> from]
  BY <1>2
<1> HIDE DEF q, w
<1> QED
  BY <1>3, <1>4, <1>5

(* What a response finishes is the output of its carrier.                  *)
LEMMA FinishedOutput ==
  ASSUME ReadPart, pc = "records", key # NoKey
  PROVE  Finished(Response(Here)) = OutputOf(Here)
<1>1. output = [url |-> Url(Here), reqSeq |-> Time(Here),
                used |-> lastHeaders, set |-> <<>>, from |-> <<>>]
  BY DEF ReadPart
<1>2. lastHeaders \o Response(Here).requestHeaders = Headers(Here)
  BY DEF ReadPart, Headers
<1>3. Finished(Response(Here)) =
        [url |-> Url(Here), reqSeq |-> Time(Here),
         used |-> lastHeaders \o Response(Here).requestHeaders,
         set |-> WithDomain(Response(Here).sets, Url(Here)),
         from |-> <<key, Position>>]
  <2>1. output.url = Url(Here)
    BY <1>1
  <2>2. Finished(Response(Here)) =
          [output EXCEPT !.set = WithDomain(Response(Here).sets, Url(Here)),
                         !.used = lastHeaders \o Response(Here).requestHeaders,
                         !.from = <<key, Position>>]
    BY <2>1 DEF Finished
  <2> QED
    BY <1>1, <2>2, OutputFields, Zenon
<1> QED
  BY <1>2, <1>3 DEF OutputOf, Here

LEMMA RequestRecordKeeps ==
  ASSUME BuilderAssumption, BuilderInv, RequestRecord
  PROVE  BuilderInv'
<1> DEFINE r == Head(left)
           redirect == lastIsRequest /\ r.redirected
<1> USE DEF BuilderInv
<1>1. /\ pc = "records" /\ left # <<>> /\ left' = Tail(left) /\ r.isRequest
      /\ pc' = pc /\ snapshot' = snapshot /\ todo' = todo /\ key' = key
      /\ lastIsRequest' = TRUE /\ lastHeaders' = r.headers
      /\ IF redirect THEN AddOutput(Finished(r.response)) ELSE UNCHANGED outputs
      /\ output' = [IF redirect THEN NewOutput ELSE output
                      EXCEPT !.url = r.url, !.reqSeq = r.reqSeq, !.used = r.headers]
      /\ UNCHANGED <<listing, countVars, rowVars, result>>
  BY DEF RequestRecord
<1>2. /\ key \in ReqIDs /\ key # NoKey /\ key \notin todo
      /\ r = snapshot[key][Position] /\ r \in Records
      /\ left' \in Seq(Records) /\ Len(left') <= Len(snapshot[key])
      /\ \A i \in 1..Len(left') : left'[i] = snapshot[key][Position' - 1 + i]
      /\ HasRequest(Here)' /\ Request(Here)' = r
      /\ Here \notin Handled
      /\ Here \in Carriers <=> redirect
      /\ Handled' = IF redirect THEN Handled \cup {Here} ELSE Handled
  <2>1. lastIsRequest = HasRequest(Here)
    BY <1>1, ReadMoves DEF ReadPart
  <2> QED
    BY <1>1, <2>1, ReadMoves
<1>3. CountPart' /\ FirstPart' /\ RowsPart' /\ TotalPart' /\ OrderPart'
  BY <1>1, RestKept
<1>4. ReadPart'
  <2>1. output' = [url |-> r.url, reqSeq |-> r.reqSeq, used |-> r.headers,
                   set |-> <<>>, from |-> <<>>]
    <3>1. CASE redirect
      <4>1. NewOutput = [url |-> NoUrl, reqSeq |-> 0, used |-> <<>>,
                         set |-> <<>>, from |-> <<>>]
        BY DEF NewOutput
      <4>2. output' = [NewOutput EXCEPT !.url = r.url, !.reqSeq = r.reqSeq,
                                        !.used = r.headers]
        BY <1>1, <3>1
      <4> QED
        BY <4>1, <4>2, OutputFields, Zenon
    <3>2. CASE ~ redirect
      <4>1. output = [url |-> Url(Here), reqSeq |-> Time(Here),
                      used |-> lastHeaders, set |-> <<>>, from |-> <<>>]
        BY <1>1, <1>2 DEF ReadPart
      <4>2. output' = [output EXCEPT !.url = r.url, !.reqSeq = r.reqSeq,
                                     !.used = r.headers]
        BY <1>1, <3>2
      <4> QED
        BY <4>1, <4>2, OutputFields, Zenon
    <3> QED
      BY <3>1, <3>2
  <2>2. Url(Here)' = r.url /\ Time(Here)' = r.reqSeq
    BY <1>2 DEF Url, Time
  <2> QED
    BY <1>1, <1>2, <2>1, <2>2 DEF ReadPart
<1>5. outputs' \in Seq({OutputOf(k) : k \in Carriers}) /\ OutputsPart'
  <2>1. CASE redirect
    <3>1. r.response = Response(Here)
      BY <1>2 DEF Response, Here
    <3>2. AddOutput(OutputOf(Here))
      BY <1>1, <1>2, <2>1, <3>1, FinishedOutput
    <3> QED
      BY <1>1, <1>2, <2>1, <3>2, OutputAdded
  <2>2. CASE ~ redirect
    <3>1. outputs' = outputs /\ Handled' = Handled
      BY <1>1, <1>2, <2>2
    <3>2. outputs \in Seq({OutputOf(k) : k \in Carriers})
      BY DEF TypePart
    <3>3. OutputsPart'
      BY <1>1, <3>1, SnapshotKept DEF OutputsPart
    <3> QED
      BY <3>1, <3>2, <3>3
  <2> QED
    BY <2>1, <2>2
<1>6. TypePart'
  <2>1. counted = 0
    BY <1>1 DEF CountPart
  <2> QED
    BY <1>1, <1>5, <2>1, SnapshotKept, LenProperties
      DEF TypePart, countVars, rowVars
<1>7. ListPart'
  BY <1>1 DEF ListPart
<1> QED
  BY <1>3, <1>4, <1>5, <1>6, <1>7

LEMMA ResponseRecordKeeps ==
  ASSUME BuilderAssumption, BuilderInv, ResponseRecord
  PROVE  BuilderInv'
<1> DEFINE r == Head(left)
<1> USE DEF BuilderInv
<1>1. /\ pc = "records" /\ left # <<>> /\ left' = Tail(left) /\ ~ r.isRequest
      /\ pc' = pc /\ snapshot' = snapshot /\ todo' = todo /\ key' = key
      /\ lastIsRequest' = FALSE /\ lastHeaders' = <<>> /\ output' = NewOutput
      /\ AddOutput(Finished(r.response))
      /\ UNCHANGED <<listing, countVars, rowVars, result>>
  BY DEF ResponseRecord
<1>2. /\ key \in ReqIDs /\ key # NoKey /\ key \notin todo
      /\ r = snapshot[key][Position] /\ r \in Records
      /\ left' \in Seq(Records) /\ Len(left') <= Len(snapshot[key])
      /\ \A i \in 1..Len(left') : left'[i] = snapshot[key][Position' - 1 + i]
      /\ HasRequest(Here)' = FALSE
      /\ Here \notin Handled /\ Here \in Carriers
      /\ Handled' = Handled \cup {Here}
  BY <1>1, ReadMoves DEF Records
<1>3. CountPart' /\ FirstPart' /\ RowsPart' /\ TotalPart' /\ OrderPart'
  BY <1>1, RestKept
<1>4. ReadPart'
  <2>1. Url(Here)' = NoUrl /\ Time(Here)' = 0
    BY <1>2 DEF Url, Time
  <2> QED
    BY <1>1, <1>2, <2>1 DEF ReadPart, NewOutput
<1>5. outputs' \in Seq({OutputOf(k) : k \in Carriers}) /\ OutputsPart'
  <2>1. r.response = Response(Here)
    BY <1>2 DEF Response, Here
  <2>2. AddOutput(OutputOf(Here))
    BY <1>1, <1>2, <2>1, FinishedOutput
  <2> QED
    BY <1>1, <1>2, <2>2, OutputAdded
<1>6. TypePart'
  <2>1. counted = 0
    BY <1>1 DEF CountPart
  <2> QED
    BY <1>1, <1>5, <2>1, SnapshotKept, LenProperties
      DEF TypePart, countVars, rowVars
<1>7. ListPart'
  BY <1>1 DEF ListPart
<1> QED
  BY <1>3, <1>4, <1>5, <1>6, <1>7

LEMMA EndRecordsKeeps ==
  ASSUME BuilderAssumption, BuilderInv, EndRecords
  PROVE  BuilderInv'
<1> USE DEF BuilderInv, EndRecords
<1>1. CountPart' /\ FirstPart' /\ RowsPart' /\ TotalPart' /\ OrderPart'
  BY RestKept
<1>2. Handled' = Handled
  <2>1. ASSUME NEW k \in Carriers PROVE k \in Handled
    <3>1. k[1] \in ReqIDs /\ k[2] \in 1..Len(snapshot[k[1]])
      BY CarrierTypes DEF TypePart
    <3>2. snapshot[k[1]] \in Seq(Records)
      BY <3>1, SnapshotRecords DEF TypePart
    <3>3. k[1] = key => k[2] < Position
      BY <3>1, <3>2 DEF Position
    <3> QED
      BY <3>3 DEF Handled
  <2>2. Handled \subseteq Carriers /\ Handled' = Carriers
    BY SnapshotKept DEF Handled
  <2> QED
    BY <2>1, <2>2
<1>3. OutputsPart'
  BY <1>2, SnapshotKept DEF OutputsPart, recordVars
<1>4. ReadPart' /\ ListPart'
  BY DEF ReadPart, ListPart
<1>5. TypePart'
  BY SnapshotKept DEF TypePart, recordVars, countVars, rowVars
<1> QED
  BY <1>1, <1>3, <1>4, <1>5

----------------------------------------------------------------------------
(* The cookies of the outputs                                              *)

LEMMA OutputTypes ==
  ASSUME BuilderAssumption, TypePart, NEW i \in 1..Len(outputs)
  PROVE  /\ outputs[i].reqSeq \in Int /\ outputs[i].url \in Urls \cup {NoUrl}
         /\ outputs[i].from \in Carriers
         /\ outputs[i].used \in Seq(Names)
         /\ IsFiniteSet(NamesIn(outputs[i].set))
         /\ \A c \in NamesIn(outputs[i].set) :
              LET cookie == CookieNamed(outputs[i].set, c)
              IN /\ cookie.domain \in Domains \cup Urls \cup {NoUrl}
                 /\ cookie.maxAge \in MaxAges /\ cookie.expires \in Dates
<1> DEFINE O == {OutputOf(l) : l \in Carriers}
<1>1. outputs[i] \in O
  <2> HIDE DEF O
  <2>1. outputs \in Seq(O)
    BY DEF TypePart, O
  <2> QED
    BY <2>1, ElementOfSeq
<1>2. PICK k \in Carriers : outputs[i] = OutputOf(k)
  BY <1>1
<1>3. /\ Response(k).sets \in Seq(SetCookies)
      /\ Url(k) \in Urls \cup {NoUrl} /\ Time(k) \in Int /\ Headers(k) \in Seq(Names)
  BY CarrierTypes DEF TypePart
<1>4. /\ outputs[i].reqSeq = Time(k) /\ outputs[i].url = Url(k)
      /\ outputs[i].from = k /\ outputs[i].used = Headers(k)
      /\ outputs[i].set = WithDomain(Response(k).sets, Url(k))
  BY <1>2 DEF OutputOf
<1>5. /\ IsFiniteSet(NamesIn(outputs[i].set))
      /\ \A c \in NamesIn(outputs[i].set) :
           LET cookie == CookieNamed(outputs[i].set, c)
           IN /\ cookie.domain \in Domains \cup Urls \cup {NoUrl}
              /\ cookie.maxAge \in MaxAges /\ cookie.expires \in Dates
  <2> DEFINE s == Response(k).sets
             w == WithDomain(s, Url(k))
  <2>1. /\ NamesIn(w) = NamesIn(s) /\ IsFiniteSet(NamesIn(s))
        /\ \A c \in NamesIn(s) :
             /\ CookieNamed(w, c).domain \in Domains \cup Urls \cup {NoUrl}
             /\ CookieNamed(w, c).maxAge \in MaxAges
             /\ CookieNamed(w, c).expires \in Dates
    BY <1>3, DomainFilled, Zenon
  <2>2. outputs[i].set = w
    BY <1>4
  <2> HIDE DEF s, w
  <2> QED
    BY <2>1, <2>2
<1> QED
  BY <1>3, <1>4, <1>5

LEMMA OccurrencesFinite ==
  ASSUME NEW s \in Seq(Names), NEW c
  PROVE  /\ Occurrences(s, c) \in Nat
         /\ IsFiniteSet({i \in 1..Len(s) : s[i] = c})
<1>1. IsFiniteSet(1..Len(s))
  BY FS_Interval
<1>2. IsFiniteSet({i \in 1..Len(s) : s[i] = c})
  BY <1>1, FS_Subset
<1> QED
  BY <1>2, FS_CardinalityType DEF Occurrences

(* One more carrier adds the places in its own headers.                    *)
LEMMA UsesAdded ==
  ASSUME NEW K, NEW k, k \notin K, NEW c, Headers(k) \in Seq(Names),
         IsFiniteSet(Uses(K, c))
  PROVE  /\ IsFiniteSet(Uses(K \cup {k}, c))
         /\ Cardinality(Uses(K \cup {k}, c)) =
              Cardinality(Uses(K, c)) + Occurrences(Headers(k), c)
<1> DEFINE places == {i \in 1..Len(Headers(k)) : Headers(k)[i] = c}
           new == {k} \X places
<1>1. IsFiniteSet(places) /\ Cardinality(places) \in Nat
      /\ Occurrences(Headers(k), c) = Cardinality(places)
  BY OccurrencesFinite DEF Occurrences
<1>2. Uses(K \cup {k}, c) = Uses(K, c) \cup new
  BY DEF Uses
<1>3. Uses(K, c) \cap new = {}
  BY DEF Uses
<1> HIDE DEF places
<1>4. IsFiniteSet(new) /\ Cardinality(new) = Cardinality(places)
  <2>1. IsFiniteSet({k}) /\ Cardinality({k}) = 1
    BY FS_Singleton
  <2>2. IsFiniteSet(new) /\ Cardinality(new) = Cardinality({k}) * Cardinality(places)
    BY <1>1, <2>1, FS_Product
  <2> QED
    BY <1>1, <2>1, <2>2
<1> HIDE DEF new
<1>5. /\ IsFiniteSet(Uses(K, c) \cup new)
      /\ Cardinality(Uses(K, c) \cup new) =
           Cardinality(Uses(K, c)) + Cardinality(new) - Cardinality({})
  BY <1>3, <1>4, FS_Union
<1>6. Cardinality({}) = 0 /\ Cardinality(Uses(K, c)) \in Nat
  BY FS_EmptySet, FS_CardinalityType
<1>7. Cardinality(Uses(K, c) \cup new) = Cardinality(Uses(K, c)) + Cardinality(places)
  BY <1>1, <1>4, <1>5, <1>6
<1> QED
  BY <1>1, <1>2, <1>5, <1>7, Zenon

LEMMA CountOutputKeeps ==
  ASSUME BuilderAssumption, BuilderInv, CountOutput
  PROVE  BuilderInv'
<1> DEFINE n == counted + 1
           o == outputs[n]
<1> USE DEF BuilderInv
<1>1. /\ pc = "outputs" /\ pc' = "outputs" /\ counted' = n
      /\ usedCount' = [c \in Names |-> usedCount[c] + Occurrences(o.used, c)]
      /\ seqMap' = FirstSetter(seqMap, n)
      /\ UNCHANGED <<snapshot, listing, todo, left, recordVars, rowVars, result>>
      /\ outputs' = outputs
  BY DEF CountOutput, recordVars
<1>2. counted \in Nat /\ n \in 1..Len(outputs) /\ Len(outputs) \in Nat
      /\ n - 1 = counted
  BY LenProperties DEF CountOutput, TypePart
<1>3. ReadPart' /\ OutputsPart' /\ Handled = Carriers
  BY <1>1, OutputsKept
<1>4. /\ \A i \in 1..Len(outputs) :
           outputs[i].reqSeq \in Int /\ outputs[i].from \in Carriers
      /\ o.used \in Seq(Names) /\ IsFiniteSet(NamesIn(o.set))
  BY <1>2, OutputTypes
<1>5. \A c \in Names : Occurrences(o.used, c) \in Nat
  BY <1>4, OccurrencesFinite
<1>6. CountPart'
  <2>1. PICK k \in Carriers : o = OutputOf(k)
    BY <1>2, <1>3 DEF OutputsPart
  <2>2. o.from = k /\ o.used = Headers(k)
    BY <2>1 DEF OutputOf
  <2>3. k \notin From(counted)
    <3>1. ASSUME NEW i \in 1..counted PROVE outputs[i].from # k
      <4>1. i \in 1..Len(outputs) /\ i # n
        BY <1>2
      <4> QED
        BY <1>2, <2>2, <4>1 DEF OutputsPart
    <3> QED
      BY <3>1 DEF From
  <2>4. From(counted)' = From(counted) \cup {k}
    <3>1. From(counted)' = {outputs[i].from : i \in 1..n}
      BY <1>1 DEF From
    <3>2. \A i \in 1..n : i \in 1..counted \/ i = n
      BY <1>2
    <3>3. \A i \in 1..counted : i \in 1..n
      BY <1>2
    <3>4. n \in 1..n
      BY <1>2
    <3> QED
      BY <2>2, <3>1, <3>2, <3>3, <3>4 DEF From
  <2>5. ASSUME NEW c \in Names
        PROVE  /\ IsFiniteSet(Uses(From(counted) \cup {k}, c))
               /\ usedCount'[c] = Cardinality(Uses(From(counted) \cup {k}, c))
    <3>1. /\ IsFiniteSet(Uses(From(counted), c))
          /\ usedCount[c] = Cardinality(Uses(From(counted), c))
      BY DEF CountPart
    <3>2. /\ IsFiniteSet(Uses(From(counted) \cup {k}, c))
          /\ Cardinality(Uses(From(counted) \cup {k}, c)) =
               Cardinality(Uses(From(counted), c)) + Occurrences(Headers(k), c)
      BY <1>4, <2>2, <2>3, <3>1, UsesAdded
    <3>3. usedCount'[c] = usedCount[c] + Occurrences(Headers(k), c)
      BY <1>1, <2>2
    <3> QED
      BY <3>1, <3>2, <3>3
  <2>6. \A c : Uses(From(counted), c)' = Uses(From(counted) \cup {k}, c)
    <3>1. \A l : Headers(l)' = Headers(l)
      BY <1>1, SnapshotKept
    <3> QED
      BY <2>4, <3>1 DEF Uses
  <2> QED
    BY <1>1, <2>5, <2>6 DEF CountPart
<1>7. ASSUME NEW c \in Names
      PROVE  /\ seqMap'[c] \in 0..n
             /\ seqMap'[c] # 0 => seqMap[c] # 0 \/ c \in NamesIn(o.set)
             /\ IF seqMap'[c] = 0
                THEN \A i \in 1..n : c \notin NamesIn(outputs[i].set)
                ELSE /\ c \in NamesIn(outputs[seqMap'[c]].set)
                     /\ \A i \in 1..n :
                          c \in NamesIn(outputs[i].set) =>
                            outputs[seqMap'[c]].reqSeq <= outputs[i].reqSeq
  <2>1. /\ seqMap[c] \in 0..counted
        /\ IF seqMap[c] = 0
           THEN \A i \in 1..counted : c \notin NamesIn(outputs[i].set)
           ELSE /\ c \in NamesIn(outputs[seqMap[c]].set)
                /\ \A i \in 1..counted :
                     c \in NamesIn(outputs[i].set) =>
                       outputs[seqMap[c]].reqSeq <= outputs[i].reqSeq
    BY DEF TypePart, FirstPart
  <2>2. \A i \in 1..n : i \in 1..counted \/ i = n
    BY <1>2
  <2>3. CASE c \in NamesIn(o.set)
               /\ (seqMap[c] = 0 \/ outputs[seqMap[c]].reqSeq > o.reqSeq)
    <3>1. seqMap'[c] = n
      BY <1>1, <2>3 DEF FirstSetter
    <3>2. ASSUME NEW i \in 1..n, c \in NamesIn(outputs[i].set)
          PROVE  o.reqSeq <= outputs[i].reqSeq
      <4>1. CASE i = n
        BY <1>2, <1>4, <4>1
      <4>2. CASE i \in 1..counted
        <5>1. seqMap[c] # 0 /\ seqMap[c] \in 1..Len(outputs) /\ i \in 1..Len(outputs)
          BY <1>2, <2>1, <3>2, <4>2
        <5>2. outputs[seqMap[c]].reqSeq <= outputs[i].reqSeq
              /\ outputs[seqMap[c]].reqSeq > o.reqSeq
          BY <2>1, <2>3, <3>2, <4>2, <5>1
        <5> QED
          BY <1>2, <1>4, <5>1, <5>2
      <4> QED
        BY <2>2, <4>1, <4>2
    <3> QED
      BY <1>2, <2>3, <3>1, <3>2
  <2>4. CASE ~ (c \in NamesIn(o.set)
                  /\ (seqMap[c] = 0 \/ outputs[seqMap[c]].reqSeq > o.reqSeq))
    <3>1. seqMap'[c] = seqMap[c]
      BY <1>1, <2>4 DEF FirstSetter
    <3>2. CASE seqMap[c] = 0
      BY <1>2, <2>1, <2>2, <2>4, <3>1, <3>2
    <3>3. CASE seqMap[c] # 0
      <4>1. seqMap[c] \in 1..Len(outputs) /\ seqMap[c] \in 0..n
        BY <1>2, <2>1, <3>3
      <4>2. c \in NamesIn(o.set) => outputs[seqMap[c]].reqSeq <= o.reqSeq
        BY <1>2, <1>4, <2>4, <4>1
      <4> QED
        BY <2>1, <2>2, <3>1, <3>3, <4>1, <4>2
    <3> QED
      BY <3>2, <3>3
  <2> QED
    BY <2>3, <2>4
<1>8. FirstPart'
  <2>1. IsFiniteSet(Found')
    <3>1. Found' \subseteq Found \cup NamesIn(o.set)
      BY <1>7 DEF Found
    <3>2. IsFiniteSet(Found \cup NamesIn(o.set))
      BY <1>4, FS_Union DEF FirstPart
    <3> QED
      BY <3>1, <3>2, FS_Subset
  <2> QED
    BY <1>1, <1>7, <2>1 DEF FirstPart
<1>9. TypePart'
  <2>1. seqMap' \in [Names -> 0..n]
    BY <1>1, <1>7 DEF FirstSetter
  <2>2. usedCount' \in [Names -> Nat]
    BY <1>1, <1>5 DEF TypePart
  <2>3. counted' \in 0..Len(outputs)
    BY <1>1, <1>2
  <2> QED
    BY <1>1, <2>1, <2>2, <2>3, SnapshotKept DEF TypePart, recordVars, rowVars
<1>10. ListPart' /\ RowsPart' /\ TotalPart' /\ OrderPart'
  <2>1. groups' = groups
    BY <1>1 DEF rowVars
  <2> QED
    BY <1>1, <2>1, GroupsKept DEF ListPart, RowsPart, TotalPart, OrderPart
<1> QED
  BY <1>3, <1>6, <1>8, <1>9, <1>10

LEMMA EndOutputsKeeps ==
  ASSUME BuilderAssumption, BuilderInv, EndOutputs
  PROVE  BuilderInv'
<1> USE DEF BuilderInv, EndOutputs
<1>1. ReadPart' /\ OutputsPart'
  BY OutputsKept
<1>2. Found' = Found /\ todo' = Found /\ groups' = groups
  BY DEF Found, countVars, rowVars
<1>3. CountPart'
  <2>1. From(counted)' = From(counted)
    BY DEF From, recordVars, countVars
  <2>2. \A l : Headers(l)' = Headers(l)
    BY SnapshotKept
  <2>3. \A c : Uses(From(counted), c)' = Uses(From(counted), c)
    BY <2>1, <2>2 DEF Uses
  <2> QED
    BY <2>3 DEF CountPart, recordVars, countVars
<1>4. FirstPart'
  BY <1>2 DEF FirstPart, recordVars, countVars
<1>5. ListPart' /\ OrderPart'
  BY <1>2 DEF ListPart, OrderPart
<1>6. RowPlaces = {} /\ RowPlaces' = {}
  <2>1. \A g \in AllGroups : groups[g] = <<>>
    BY DEF RowsPart, Filled
  <2>2. DOMAIN groups = AllGroups
    BY DEF TypePart
  <2>3. RowPlaces = {}
    BY <2>1, <2>2 DEF RowPlaces
  <2> QED
    BY <1>2, <2>3, GroupsKept
<1>7. RowsPart'
  BY <1>2, <1>6 DEF RowsPart, RowsCorrect, Looked
<1>8. TotalPart'
  <2>1. IsFiniteSet({}) /\ Cardinality({}) = 0 /\ Cardinality(Found) \in Nat
    BY FS_EmptySet, FS_CardinalityType DEF FirstPart
  <2>2. Cardinality({}) + Cardinality(Found) = Cardinality(Found)
    BY <2>1
  <2> QED
    BY <1>2, <1>6, <2>1, <2>2, Zenon DEF TotalPart
<1>9. TypePart'
  BY <1>2, SnapshotKept DEF TypePart, recordVars, countVars, rowVars
<1> QED
  BY <1>1, <1>3, <1>4, <1>5, <1>7, <1>8, <1>9

----------------------------------------------------------------------------
(* The rows                                                                *)

(* One more row keeps what is known of the rows.                           *)
LEMMA RowsExtended ==
  ASSUME RowsCorrect, UNCHANGED <<usedCount, listing>>, Found' = Found,
         \A c : HTTPRow(c)' = HTTPRow(c),
         NEW row, NEW place, RowPlaces' = RowPlaces \cup {place},
         Row(place)' = row, \A p \in RowPlaces : Row(p)' = Row(p),
         place[1] = CategoryOf[row.name], row.used = usedCount[row.name],
         row.name \in Found =>
           row = HTTPRow(row.name) /\ \A p \in RowPlaces : Row(p).name # row.name,
         row.name \notin Found => Listed(row)
  PROVE  /\ {Row(p).name : p \in RowPlaces}' =
              {Row(p).name : p \in RowPlaces} \cup {row.name}
         /\ RowsCorrect'
<1>1. {Row(p).name : p \in RowPlaces}' =
        {Row(p).name : p \in RowPlaces} \cup {row.name}
  OBVIOUS
<1>2. ASSUME NEW p \in RowPlaces'
      PROVE  /\ p[1] = CategoryOf[Row(p)'.name]
             /\ Row(p)'.used = usedCount[Row(p)'.name]
  <2>1. CASE p = place
    BY <2>1
  <2>2. CASE p \in RowPlaces
    BY <2>2 DEF RowsCorrect
  <2> QED
    BY <2>1, <2>2
<1>3. ASSUME NEW c \in Found, NEW p \in RowPlaces', Row(p)'.name = c,
             NEW q \in RowPlaces', Row(q)'.name = c
      PROVE  Row(p)' = HTTPRow(c) /\ q = p
  <2>1. CASE p \in RowPlaces /\ q \in RowPlaces
    BY <1>3, <2>1 DEF RowsCorrect
  <2>2. CASE p = place /\ q = place
    BY <1>3, <2>2
  <2>3. CASE p = place /\ q \in RowPlaces
    BY <1>3, <2>3
  <2>4. CASE p \in RowPlaces /\ q = place
    BY <1>3, <2>4
  <2> QED
    BY <2>1, <2>2, <2>3, <2>4
<1>4. ASSUME NEW p \in RowPlaces', Row(p)'.name \notin Found PROVE Listed(Row(p))'
  <2>1. PICK shown : shown = Row(p)'
    OBVIOUS
  <2>2. Listed(shown)
    <3>1. CASE p = place
      BY <1>4, <2>1, <3>1
    <3>2. CASE p \in RowPlaces
      <4>1. Row(p) = shown
        BY <2>1, <3>2
      <4> QED
        BY <1>4, <2>1, <3>2, <4>1 DEF RowsCorrect
    <3> QED
      BY <3>1, <3>2
  <2> QED
    BY <2>1, <2>2 DEF Listed
<1> QED
  BY <1>1, <1>2, <1>3, <1>4 DEF RowsCorrect

(* What the expiry of a row is computed from                               *)
LEMMA LifetimeIsInt ==
  /\ StartTime \in Int
  /\ \A age \in MaxAges, date \in Dates : Lifetime(age, Reparsed(date), StartTime) \in Int
  /\ \A t \in Times : Sub(t, StartTime) \in Int
<1> USE ExpiryAssumption, BuilderAssumption
<1>1. DurationLimit \in Nat \ {0} /\ Lengths[Second] \in Nat
  BY DEF Second
<1>2. StartTime \in Int /\ Times \subseteq Int /\ ZeroTime \in Int
  OBVIOUS
<1>3. ASSUME NEW t \in Int PROVE Sub(t, StartTime) \in Int
  BY <1>1, <1>2 DEF Sub
<1>4. ASSUME NEW age \in MaxAges PROVE Multiply(Lengths[Second], age) \in Int
  <2> DEFINE x == Lengths[Second] * age + DurationLimit
             m == 2 * DurationLimit
  <2>1. x \in Int /\ m \in Nat \ {0}
    BY <1>1
  <2> HIDE DEF x, m
  <2>2. x % m \in Int
    BY <2>1
  <2> QED
    BY <1>1, <2>2 DEF Multiply, x, m
<1>5. ASSUME NEW date \in Dates PROVE Reparsed(date) \in Int
  BY <1>2 DEF Reparsed, ReadSetCookies, Dates
<1> QED
  BY <1>2, <1>3, <1>4, <1>5 DEF Lifetime

(* The row of a cookie that a response has set                             *)
LEMMA HTTPRowType ==
  ASSUME BuilderAssumption, BuilderInv, NEW c \in Found
  PROVE  HTTPRow(c) \in RowSet /\ c \in Names
<1> USE DEF BuilderInv
<1>1. c \in Names /\ seqMap[c] # 0
  BY DEF Found
<1>2. seqMap[c] \in 1..Len(outputs) /\ c \in NamesIn(outputs[seqMap[c]].set)
  BY <1>1, LenProperties DEF TypePart, FirstPart
<1>3. /\ outputs[seqMap[c]].url \in Urls \cup {NoUrl}
      /\ CookieNamed(outputs[seqMap[c]].set, c).domain
           \in Domains \cup Urls \cup {NoUrl}
      /\ CookieNamed(outputs[seqMap[c]].set, c).maxAge \in MaxAges
      /\ CookieNamed(outputs[seqMap[c]].set, c).expires \in Dates
  BY <1>2, OutputTypes
<1>4. usedCount[c] \in Nat
  BY <1>1 DEF TypePart
<1>5. HTTPRow(c).expiry \in {EstimatedDuration(d) : d \in Int}
  BY <1>3, LifetimeIsInt DEF HTTPRow, Expiry
<1> HIDE DEF BuilderInv
<1> QED
  BY <1>1, <1>3, <1>4, <1>5 DEF HTTPRow, RowSet

LEMMA ListHTTPCookieKeeps ==
  ASSUME BuilderAssumption, BuilderInv, NEW c \in Names, ListHTTPCookie(c)
  PROVE  BuilderInv'
<1> USE DEF BuilderInv
<1>1. /\ pc = "http" /\ pc' = "http" /\ c \in todo /\ todo' = todo \ {c}
      /\ AddRow(HTTPRow(c))
      /\ UNCHANGED <<snapshot, listing, left, recordVars, countVars, count, result>>
  BY DEF ListHTTPCookie, HTTPRow
<1>2. /\ ReadPart' /\ OutputsPart' /\ CountPart' /\ FirstPart'
      /\ Found' = Found /\ \A x : HTTPRow(x)' = HTTPRow(x)
  BY <1>1, CountsKept
<1>3. c \in Found /\ todo \subseteq Found /\ seqMap[c] # 0
  BY <1>1 DEF ListPart, Found
<1>4. HTTPRow(c) \in RowSet
  BY <1>1, <1>3, HTTPRowType
<1>5. HTTPRow(c).name = c /\ HTTPRow(c).used = usedCount[c]
  BY DEF HTTPRow
<1>6. groups \in [AllGroups -> Seq(RowSet)]
  BY DEF TypePart
<1>7. groups' \in [AllGroups -> Seq(RowSet)]
  BY <1>1, <1>4, <1>6, AddedRow
<1>8. PICK place :
        /\ place \notin RowPlaces /\ RowPlaces' = RowPlaces \cup {place}
        /\ place[1] = CategoryOf[c] /\ Row(place)' = HTTPRow(c)
        /\ \A p \in RowPlaces : Row(p)' = Row(p)
  BY <1>1, <1>4, <1>5, <1>6, AddedRow
<1>9. {Row(p).name : p \in RowPlaces} = Found \ todo
  BY <1>1 DEF RowsPart, Looked
<1>10. \A p \in RowPlaces : Row(p).name # c
  BY <1>1, <1>9
<1>11. usedCount' = usedCount /\ seqMap' = seqMap
  BY <1>1 DEF countVars
<1>12. RowsPart'
  <2>1. /\ {Row(p).name : p \in RowPlaces}' =
             {Row(p).name : p \in RowPlaces} \cup {c}
        /\ RowsCorrect'
    <3>1. RowsCorrect
      BY <1>1 DEF RowsPart
    <3> QED
      BY <1>1, <1>2, <1>3, <1>5, <1>8, <1>10, <1>11, <3>1, RowsExtended
  <2>2. (Found \ todo) \cup {c} = Found' \ todo'
    BY <1>1, <1>2, <1>3
  <2>3. Looked' = {}
    BY <1>1 DEF Looked
  <2> QED
    BY <1>1, <1>9, <2>1, <2>2, <2>3 DEF RowsPart
<1>13. TotalPart'
  <2>1. IsFiniteSet(RowPlaces) /\ IsFiniteSet(todo) /\ IsFiniteSet(Found)
    BY <1>3, FS_Subset DEF TotalPart, FirstPart
  <2>2. /\ IsFiniteSet(RowPlaces') /\ Cardinality(RowPlaces') = Cardinality(RowPlaces) + 1
        /\ Cardinality(todo') = Cardinality(todo) - 1
    BY <1>1, <1>8, <2>1, FS_AddElement, FS_RemoveElement
  <2>3. Cardinality(RowPlaces) \in Nat /\ Cardinality(todo) \in Nat
        /\ Cardinality(Found) \in Nat
    BY <2>1, FS_CardinalityType
  <2>4. Cardinality(RowPlaces) + Cardinality(todo) = Cardinality(Found)
    BY <1>1 DEF TotalPart
  <2>5. Cardinality(RowPlaces') + Cardinality(todo') = Cardinality(Found)
    BY <2>2, <2>3, <2>4
  <2> QED
    BY <1>1, <1>2, <2>2, <2>5 DEF TotalPart
<1>14. ListPart' /\ OrderPart'
  BY <1>1, <1>2, <1>3 DEF ListPart, OrderPart
<1>15. TypePart'
  <2>1. count' \in Nat /\ result' \in Seq(AllGroups)
    BY <1>1 DEF TypePart
  <2> QED
    BY <1>1, <1>7, <2>1, TypeKept
<1> QED
  BY <1>2, <1>12, <1>13, <1>14, <1>15

LEMMA LoadBrowserCookiesKeeps ==
  ASSUME BuilderAssumption, BuilderInv, LoadBrowserCookies
  PROVE  BuilderInv'
<1> USE DEF BuilderInv
<1>1. /\ pc = "http" /\ todo = {} /\ todo' = {} /\ count' = Cardinality(Found)
      /\ \/ listing = NoListing /\ pc' = "failed" /\ left' = left
         \/ listing # NoListing /\ pc' = "browser" /\ left' = listing
      /\ UNCHANGED <<snapshot, listing, recordVars, countVars, groups, result>>
  BY DEF LoadBrowserCookies, Found
<1>2. /\ ReadPart' /\ OutputsPart' /\ CountPart' /\ FirstPart'
      /\ Found' = Found /\ \A x : HTTPRow(x)' = HTTPRow(x)
  BY <1>1, CountsKept
<1>3. /\ RowPlaces' = RowPlaces /\ Filled' = Filled
      /\ \A p : Row(p)' = Row(p)
  BY <1>1, GroupsKept
<1>4. pc' = "browser" => left' \in Seq(BrowserCookies) /\ listing # NoListing
  BY <1>1 DEF TypePart, BuilderAssumption
<1>5. ListPart'
  BY <1>1, <1>4 DEF ListPart
<1>6. RowsPart'
  <2>1. Looked' = {} /\ Looked = {}
    BY <1>1, <1>4, LenProperties DEF Looked
  <2>2. usedCount' = usedCount /\ seqMap' = seqMap
    BY <1>1 DEF countVars
  <2> QED
    BY <1>1, <1>2, <1>3, <2>1, <2>2 DEF RowsPart, RowsCorrect, Listed
<1>7. Cardinality(Found) \in Nat
  BY FS_CardinalityType DEF FirstPart
<1>8. TotalPart'
  <2>1. Cardinality({}) = 0 /\ IsFiniteSet(RowPlaces) /\ Cardinality(RowPlaces) \in Nat
    BY FS_EmptySet, FS_CardinalityType DEF TotalPart
  <2>2. Cardinality(RowPlaces) = Cardinality(Found)
    BY <1>1, <1>7, <2>1 DEF TotalPart
  <2> QED
    BY <1>1, <1>3, <2>1, <2>2 DEF TotalPart
<1>9. OrderPart'
  BY <1>1 DEF OrderPart
<1>10. TypePart'
  <2>1. groups' \in [AllGroups -> Seq(RowSet)] /\ result' \in Seq(AllGroups)
    BY <1>1 DEF TypePart
  <2> QED
    BY <1>1, <1>7, <2>1, TypeKept
<1> QED
  BY <1>2, <1>5, <1>6, <1>8, <1>9, <1>10

LEMMA ListBrowserCookieKeeps ==
  ASSUME BuilderAssumption, BuilderInv, ListBrowserCookie
  PROVE  BuilderInv'
<1> DEFINE cookie == Head(left)
           c == cookie.name
           row == BrowserRow(cookie)
           n == Len(listing) - Len(left)
<1> USE DEF BuilderInv
<1>1. /\ pc = "browser" /\ pc' = "browser" /\ left # <<>> /\ left' = Tail(left)
      /\ \/ seqMap[c] = 0 /\ count' = count + 1 /\ AddRow(row)
         \/ seqMap[c] # 0 /\ count' = count /\ groups' = groups
      /\ UNCHANGED <<snapshot, listing, todo, recordVars, countVars, result>>
  BY DEF ListBrowserCookie
<1>2. /\ ReadPart' /\ OutputsPart' /\ CountPart' /\ FirstPart'
      /\ Found' = Found /\ \A x : HTTPRow(x)' = HTTPRow(x)
  BY <1>1, CountsKept
<1>3. /\ left \in Seq(BrowserCookies) /\ listing # NoListing
      /\ Len(left) <= Len(listing)
      /\ \A i \in 1..Len(left) : left[i] = listing[n + i]
  BY <1>1 DEF ListPart
<1>4. listing \in Seq(BrowserCookies) /\ Len(listing) \in Nat
  BY <1>3 DEF TypePart, BuilderAssumption
<1>5. /\ left' \in Seq(BrowserCookies) /\ Len(left') = Len(left) - 1
      /\ cookie = left[1] /\ Len(left) \in Nat \ {0} /\ cookie \in BrowserCookies
      /\ \A i \in 1..Len(left') : left'[i] = left[i + 1]
  BY <1>1, <1>3
<1>6. /\ n \in Nat /\ Len(listing) - Len(left') = n + 1
      /\ n + 1 \in 1..Len(listing) /\ cookie = listing[n + 1] /\ c \in Names
  BY <1>3, <1>4, <1>5 DEF BrowserCookies
<1>7. ListPart'
  <2>1. ASSUME NEW i \in 1..Len(left')
        PROVE  left'[i] = listing[Len(listing) - Len(left') + i]
    <3>1. i + 1 \in 1..Len(left) /\ n + (i + 1) = Len(listing) - Len(left') + i
      BY <1>5, <1>6
    <3> QED
      BY <1>3, <1>5, <3>1
  <2> QED
    BY <1>1, <1>3, <1>4, <1>5, <2>1 DEF ListPart
<1>8. Looked' = Looked \cup {c}
  <2>1. /\ Looked = {listing[i].name : i \in 1..n}
        /\ Looked' = {listing[i].name : i \in 1..n + 1}
    BY <1>1, <1>6 DEF Looked
  <2>2. \A i \in 1..n + 1 : i \in 1..n \/ i = n + 1
    BY <1>6
  <2>3. \A i \in 1..n : i \in 1..n + 1
    BY <1>6
  <2>4. n + 1 \in 1..n + 1
    BY <1>6
  <2> HIDE DEF n
  <2> QED
    BY <1>6, <2>1, <2>2, <2>3, <2>4
<1>9. {Row(p).name : p \in RowPlaces} = Found \cup Looked
  BY <1>1 DEF RowsPart
<1>10. usedCount' = usedCount /\ seqMap' = seqMap /\ usedCount[c] \in Nat
  BY <1>1, <1>6 DEF countVars, TypePart
<1>11. count \in Nat /\ IsFiniteSet(RowPlaces) /\ count = Cardinality(RowPlaces)
  BY <1>1 DEF TypePart, TotalPart
<1>12. CASE seqMap[c] = 0
  <2>1. count' = count + 1 /\ AddRow(row)
    BY <1>1, <1>12
  <2>2. row \in RowSet /\ row.name = c /\ row.used = usedCount[c] /\ Listed(row)
    <3>1. cookie.expires \in Times
      BY <1>5 DEF BrowserCookies
    <3>2. Sub(cookie.expires, StartTime) \in Int
      BY <3>1, LifetimeIsInt
    <3>3. /\ row.name = c /\ row.used = usedCount[c]
          /\ row.expiry = EstimatedDuration(Sub(cookie.expires, StartTime))
          /\ row = [name |-> c, domain |-> NoDomain, url |-> NoUrl,
                    used |-> usedCount[c], expiry |-> row.expiry]
      BY DEF BrowserRow
    <3>4. row.expiry \in {EstimatedDuration(d) : d \in Int}
      BY <3>2, <3>3
    <3> HIDE DEF row
    <3>5. row \in RowSet
      BY <1>6, <1>10, <3>3, <3>4 DEF RowSet
    <3>6. Listed(row)
      BY <1>6, <3>3 DEF Listed
    <3> QED
      BY <3>3, <3>5, <3>6
  <2>3. groups \in [AllGroups -> Seq(RowSet)]
    BY DEF TypePart
  <2> HIDE DEF row
  <2>4. groups' \in [AllGroups -> Seq(RowSet)]
    BY <2>1, <2>2, <2>3, AddedRow
  <2>5. PICK place :
          /\ place \notin RowPlaces /\ RowPlaces' = RowPlaces \cup {place}
          /\ place[1] = CategoryOf[c] /\ Row(place)' = row
          /\ \A p \in RowPlaces : Row(p)' = Row(p)
    BY <2>1, <2>2, <2>3, AddedRow
  <2>6. /\ {Row(p).name : p \in RowPlaces}' =
             {Row(p).name : p \in RowPlaces} \cup {c}
        /\ RowsCorrect'
    <3>1. RowsCorrect /\ c \notin Found
      BY <1>1, <1>12 DEF RowsPart, Found
    <3> QED
      BY <1>1, <1>2, <1>10, <2>2, <2>5, <3>1, RowsExtended
  <2>7. RowsPart'
    BY <1>1, <1>2, <1>8, <1>9, <2>6 DEF RowsPart
  <2>8. TotalPart'
    BY <1>1, <1>11, <2>1, <2>5, FS_AddElement DEF TotalPart
  <2>9. OrderPart'
    BY <1>1 DEF OrderPart
  <2>10. TypePart'
    <3>1. count' \in Nat /\ result' \in Seq(AllGroups)
      BY <1>1, <1>11, <2>1 DEF TypePart
    <3> QED
      BY <1>1, <2>4, <3>1, TypeKept
  <2> QED
    BY <1>2, <1>7, <2>7, <2>8, <2>9, <2>10
<1>13. CASE seqMap[c] # 0
  <2>1. count' = count /\ groups' = groups
    BY <1>1, <1>13
  <2>2. /\ RowPlaces' = RowPlaces /\ \A p : Row(p)' = Row(p)
    BY <2>1, GroupsKept
  <2>3. Found \cup Looked = Found \cup Looked'
    BY <1>6, <1>8, <1>13 DEF Found
  <2>4. RowsPart'
    <3>1. \A row2 : Listed(row2)' = Listed(row2)
      BY <1>1 DEF Listed
    <3> QED
      BY <1>1, <1>2, <1>10, <2>2, <2>3, <3>1 DEF RowsPart, RowsCorrect, Listed
  <2>5. TotalPart' /\ OrderPart'
    BY <1>1, <2>1, <2>2 DEF TotalPart, OrderPart
  <2>6. TypePart'
    <3>1. /\ groups' \in [AllGroups -> Seq(RowSet)] /\ count' \in Nat
          /\ result' \in Seq(AllGroups)
      BY <1>1, <2>1 DEF TypePart
    <3> QED
      BY <1>1, <3>1, TypeKept
  <2> QED
    BY <1>2, <1>7, <2>4, <2>5, <2>6
<1> QED
  BY <1>12, <1>13

----------------------------------------------------------------------------
(* The order of the categories                                             *)

LEMMA Appended ==
  ASSUME NEW S, NEW s \in Seq(S), NEW x \in S
  PROVE  /\ Append(s, x) \in Seq(S) /\ ToSet(Append(s, x)) = ToSet(s) \cup {x}
         /\ IsInjective(s) /\ x \notin ToSet(s) => IsInjective(Append(s, x))
         /\ Len(Append(s, x)) = Len(s) + 1 /\ Append(s, x)[Len(s) + 1] = x
<1> DEFINE t == Append(s, x)
<1>1. /\ t \in Seq(S) /\ Len(t) = Len(s) + 1 /\ Len(s) \in Nat
      /\ DOMAIN t = 1..Len(t) /\ DOMAIN s = 1..Len(s)
      /\ t[Len(s) + 1] = x /\ \A i \in 1..Len(s) : t[i] = s[i]
  OBVIOUS
<1> HIDE DEF t
<1>2. \A i \in 1..Len(t) : i \in 1..Len(s) \/ i = Len(s) + 1
  BY <1>1
<1>3. \A i \in 1..Len(s) : i \in 1..Len(t)
  BY <1>1
<1>4. Len(s) + 1 \in 1..Len(t)
  BY <1>1
<1>5. ToSet(t) = ToSet(s) \cup {x}
  BY <1>1, <1>2, <1>3, <1>4 DEF ToSet
<1>6. ASSUME IsInjective(s), x \notin ToSet(s) PROVE IsInjective(t)
  <2>1. \A i \in 1..Len(s) : s[i] # x
    BY <1>1, <1>6 DEF ToSet
  <2>2. \A i, j \in 1..Len(s) : s[i] = s[j] => i = j
    BY <1>1, <1>6 DEF IsInjective
  <2> QED
    BY <1>1, <1>2, <2>1, <2>2 DEF IsInjective
<1> QED
  BY <1>1, <1>5, <1>6 DEF t

(* Nothing but the order changes any more.                                 *)
LEMMA RowsKept ==
  ASSUME BuilderInv, pc \in {"browser", "assemble"}, pc' \in {"assemble", "done"},
         UNCHANGED <<snapshot, listing, left, recordVars, countVars, rowVars>>,
         left = <<>>
  PROVE  /\ ReadPart' /\ OutputsPart' /\ CountPart' /\ FirstPart'
         /\ ListPart' /\ RowsPart' /\ TotalPart' /\ Filled' = Filled
<1> USE DEF BuilderInv
<1>1. /\ ReadPart' /\ OutputsPart' /\ CountPart' /\ FirstPart'
      /\ Found' = Found /\ \A x : HTTPRow(x)' = HTTPRow(x)
  BY CountsKept
<1>2. groups' = groups /\ count' = count /\ usedCount' = usedCount
  BY DEF rowVars, countVars
<1>3. /\ RowPlaces' = RowPlaces /\ Filled' = Filled /\ \A p : Row(p)' = Row(p)
  BY <1>2, GroupsKept
<1>4. RowsPart'
  <2>1. Looked' = Looked
    BY DEF Looked
  <2> QED
    BY <1>1, <1>2, <1>3, <2>1 DEF RowsPart, RowsCorrect, Listed
<1>5. ListPart' /\ TotalPart'
  BY <1>2, <1>3 DEF ListPart, TotalPart
<1> QED
  BY <1>1, <1>3, <1>4, <1>5

LEMMA StartAssemblingKeeps ==
  ASSUME BuilderAssumption, BuilderInv, StartAssembling
  PROVE  BuilderInv'
<1> USE DEF BuilderInv, StartAssembling
<1>1. /\ ReadPart' /\ OutputsPart' /\ CountPart' /\ FirstPart'
      /\ ListPart' /\ RowsPart' /\ TotalPart' /\ Filled' = Filled
  BY RowsKept
<1>2. todo' = Filled
  BY DEF Filled, TypePart
<1>3. OrderPart'
  <2>1. result' = <<>>
    BY DEF OrderPart
  <2>2. ToSet(<<>>) = {} /\ IsInjective(<<>>)
    BY DEF ToSet, IsInjective
  <2> QED
    BY <1>1, <1>2, <2>1, <2>2 DEF OrderPart
<1>4. TypePart'
  BY TypeKept DEF TypePart, rowVars
<1> QED
  BY <1>1, <1>3, <1>4

LEMMA AssembleClassifiedKeeps ==
  ASSUME BuilderAssumption, BuilderInv, NEW g, AssembleClassified(g)
  PROVE  BuilderInv'
<1> USE DEF BuilderInv, AssembleClassified
<1>1. /\ ReadPart' /\ OutputsPart' /\ CountPart' /\ FirstPart'
      /\ ListPart' /\ RowsPart' /\ TotalPart' /\ Filled' = Filled
  <2>1. left = <<>>
    BY DEF ListPart
  <2> QED
    BY <2>1, RowsKept
<1>2. g \in AllGroups /\ g \notin ToSet(result) /\ result \in Seq(AllGroups)
  BY DEF OrderPart, Filled, TypePart
<1>3. /\ result' \in Seq(AllGroups) /\ ToSet(result') = ToSet(result) \cup {g}
      /\ IsInjective(result')
  BY <1>2, Appended DEF OrderPart
<1>4. OrderPart'
  <2>1. todo' \cap ToSet(result') = {} /\ todo' \cup ToSet(result') = Filled
    BY <1>3 DEF OrderPart
  <2> QED
    BY <1>1, <1>3, <2>1 DEF OrderPart
<1>5. TypePart'
  BY <1>3, TypeKept DEF TypePart, rowVars
<1> QED
  BY <1>1, <1>4, <1>5

LEMMA AssembleRestKeeps ==
  ASSUME BuilderAssumption, BuilderInv, AssembleRest
  PROVE  BuilderInv'
<1> USE DEF BuilderInv, AssembleRest
<1>1. /\ ReadPart' /\ OutputsPart' /\ CountPart' /\ FirstPart'
      /\ ListPart' /\ RowsPart' /\ TotalPart' /\ Filled' = Filled
  <2>1. left = <<>>
    BY DEF ListPart
  <2> QED
    BY <2>1, RowsKept
<1>2. /\ result \in Seq(AllGroups) /\ IsInjective(result)
      /\ todo \cap ToSet(result) = {} /\ todo \cup ToSet(result) = Filled
      /\ Unclassified \notin ToSet(result)
  BY DEF OrderPart, TypePart
<1>3. \A i \in 1..Len(result) : result[i] # Unclassified
  BY <1>2 DEF ToSet
<1>4. /\ result' \in Seq(AllGroups) /\ IsInjective(result')
      /\ ToSet(result') = Filled
      /\ \A i \in 1..Len(result') : result'[i] = Unclassified => i = Len(result')
  <2>1. CASE todo = {}
    BY <1>2, <1>3, <2>1
  <2>2. CASE todo # {}
    <3>1. todo = {Unclassified} /\ result' = Append(result, Unclassified)
      BY <2>2
    <3>2. Unclassified \in AllGroups
      BY DEF AllGroups
    <3>3. /\ result' \in Seq(AllGroups) /\ IsInjective(result')
          /\ ToSet(result') = ToSet(result) \cup {Unclassified}
          /\ Len(result') = Len(result) + 1
      BY <1>2, <3>1, <3>2, Appended
    <3>4. \A i \in 1..Len(result') : result'[i] = Unclassified => i = Len(result')
      <4>1. \A i \in 1..Len(result) : result'[i] = result[i]
        BY <1>2, <3>1, <3>2
      <4>2. \A i \in 1..Len(result') : i \in 1..Len(result) \/ i = Len(result')
        BY <1>2, <3>3, LenProperties
      <4> QED
        BY <1>3, <4>1, <4>2
    <3> QED
      BY <1>2, <3>1, <3>3, <3>4
  <2> QED
    BY <2>1, <2>2
<1>5. OrderPart'
  BY <1>1, <1>4 DEF OrderPart
<1>6. TypePart'
  BY <1>4, TypeKept DEF TypePart, rowVars
<1> QED
  BY <1>1, <1>5, <1>6

----------------------------------------------------------------------------
(* The invariant                                                           *)

LEMMA BuilderInitInv ==
  ASSUME BuilderAssumption, Init
  PROVE  BuilderInv
<1> USE DEF Init
<1>1. TypePart
  <2>1. groups \in [AllGroups -> Seq(RowSet)]
    BY DEF AllGroups
  <2> QED
    BY <2>1 DEF TypePart
<1>2. ReadPart
  BY DEF ReadPart
<1>3. Handled = {}
  <2>1. ASSUME NEW k \in Carriers PROVE k[1] \in todo
    <3>1. k[1] \in ReqIDs /\ k[2] \in 1..Len(snapshot[k[1]])
      BY CarrierTypes
    <3>2. snapshot[k[1]] # <<>>
      BY <3>1
    <3> QED
      BY <3>1, <3>2
  <2> QED
    BY <2>1 DEF Handled
<1>4. OutputsPart
  BY <1>3 DEF OutputsPart
<1>5. CountPart
  <2>1. From(0) = {}
    BY DEF From
  <2>2. \A c : Uses(From(0), c) = {}
    BY <2>1 DEF Uses
  <2> QED
    BY <2>2, FS_EmptySet DEF CountPart
<1>6. FirstPart
  <2>1. Found = {}
    BY DEF Found
  <2> QED
    BY <2>1, FS_EmptySet DEF FirstPart
<1>7. ListPart
  BY DEF ListPart
<1>8. RowPlaces = {} /\ Filled = {}
  BY DEF RowPlaces, Filled, AllGroups
<1>9. RowsPart
  BY <1>8 DEF RowsPart
<1>10. TotalPart
  BY <1>8, FS_EmptySet DEF TotalPart
<1>11. OrderPart
  BY DEF OrderPart
<1> QED
  BY <1>1, <1>2, <1>4, <1>5, <1>6, <1>7, <1>9, <1>10, <1>11 DEF BuilderInv

LEMMA BuilderStepInv ==
  ASSUME BuilderAssumption, BuilderInv, [Next]_vars
  PROVE  BuilderInv'
<1>1. CASE UNCHANGED vars
  <2>1. /\ snapshot' = snapshot /\ groups' = groups /\ listing' = listing
        /\ pc' = pc /\ todo' = todo /\ key' = key /\ left' = left
        /\ lastHeaders' = lastHeaders /\ lastIsRequest' = lastIsRequest
        /\ output' = output /\ outputs' = outputs /\ counted' = counted
        /\ usedCount' = usedCount /\ seqMap' = seqMap /\ count' = count
        /\ result' = result
    BY <1>1 DEF vars, recordVars, countVars, rowVars
  <2> USE DEF BuilderInv
  <2>2. /\ Carriers' = Carriers /\ \A k : OutputOf(k)' = OutputOf(k)
        /\ \A k : Silent(k)' = Silent(k) /\ \A K, c : Uses(K, c)' = Uses(K, c)
    BY <2>1, SnapshotKept
  <2>3. /\ RowPlaces' = RowPlaces /\ Filled' = Filled /\ \A p : Row(p)' = Row(p)
    BY <2>1, GroupsKept
  <2>4. /\ Found' = Found /\ \A c : HTTPRow(c)' = HTTPRow(c)
        /\ Looked' = Looked /\ From(counted)' = From(counted)
    BY <2>1 DEF Found, HTTPRow, Looked, From
  <2>5. Position' = Position /\ Handled' = Handled
    BY <2>1, <2>2 DEF Position, Handled
  <2>6. TypePart'
    BY <2>1, <2>2 DEF TypePart
  <2>7. ReadPart'
    BY <2>1 DEF ReadPart, Here, Position, Url, Time, HasRequest, Request
  <2>8. OutputsPart'
    BY <2>1, <2>2, <2>5 DEF OutputsPart
  <2>9. CountPart'
    <3>1. \A c : Uses(From(counted), c)' = Uses(From(counted), c)
      BY <2>1, <2>4, SnapshotKept DEF Uses
    <3> QED
      BY <2>1, <3>1 DEF CountPart
  <2>10. FirstPart' /\ ListPart'
    BY <2>1, <2>4 DEF FirstPart, ListPart
  <2>11. RowsPart' /\ TotalPart' /\ OrderPart'
    BY <2>1, <2>3, <2>4 DEF RowsPart, RowsCorrect, Listed, TotalPart, OrderPart
  <2> QED
    BY <2>6, <2>7, <2>8, <2>9, <2>10, <2>11
<1>2. ASSUME NEW id \in ReqIDs, NextRequestID(id) PROVE BuilderInv'
  BY <1>2, NextRequestIDKeeps
<1>3. CASE RequestRecord
  BY <1>3, RequestRecordKeeps
<1>4. CASE ResponseRecord
  BY <1>4, ResponseRecordKeeps
<1>5. CASE EndRecords
  BY <1>5, EndRecordsKeeps
<1>6. CASE CountOutput
  BY <1>6, CountOutputKeeps
<1>7. CASE EndOutputs
  BY <1>7, EndOutputsKeeps
<1>8. ASSUME NEW c \in Names, ListHTTPCookie(c) PROVE BuilderInv'
  BY <1>8, ListHTTPCookieKeeps
<1>9. CASE LoadBrowserCookies
  BY <1>9, LoadBrowserCookiesKeeps
<1>10. CASE ListBrowserCookie
  BY <1>10, ListBrowserCookieKeeps
<1>11. CASE StartAssembling
  BY <1>11, StartAssemblingKeeps
<1>12. ASSUME NEW g \in DOMAIN groups, AssembleClassified(g) PROVE BuilderInv'
  BY <1>12, AssembleClassifiedKeeps
<1>13. CASE AssembleRest
  BY <1>13, AssembleRestKeeps
<1> QED
  BY <1>1, <1>2, <1>3, <1>4, <1>5, <1>6, <1>7, <1>8, <1>9, <1>10, <1>11,
     <1>12, <1>13 DEF Next

THEOREM BuilderInvariant == Spec => []BuilderInv
<1> USE BuilderAssumption
<1>1. Init => BuilderInv
  BY BuilderInitInv
<1>2. BuilderInv /\ [Next]_vars => BuilderInv'
  BY BuilderStepInv
<1> QED
  BY <1>1, <1>2, PTL DEF Spec

----------------------------------------------------------------------------
(* What the report says                                                    *)

(* The type invariant.                                                     *)
THEOREM BuilderTypeOK == Spec => []TypeOK
<1> USE BuilderAssumption
<1>1. BuilderInv => TypeOK
  <2> SUFFICES ASSUME BuilderInv PROVE TypeOK
    OBVIOUS
  <2> USE DEF BuilderInv
  <2>1. \A i \in 1..Len(outputs) :
          outputs[i].url \in Urls \cup {NoUrl} /\ outputs[i].from \in Carriers
    BY OutputTypes
  <2>2. ToSet(result) \subseteq AllGroups /\ DOMAIN groups = AllGroups
    BY DEF TypePart, ToSet
  <2>3. pc = "records" => todo \subseteq ReqIDs
    BY DEF ReadPart
  <2>4. pc = "http" => todo \subseteq {c \in Names : seqMap[c] # 0}
    BY DEF ListPart, Found
  <2>5. pc = "assemble" => todo \subseteq AllGroups
    BY DEF OrderPart, Filled
  <2> QED
    BY <2>1, <2>2, <2>3, <2>4, <2>5 DEF TypeOK, TypePart, AllGroups
<1> QED
  BY <1>1, BuilderInvariant, PTL

(* When the report is done, the cookies found are those that responses set, *)
(* and what is kept of each is the earliest of the responses that set it.  *)
LEMMA FoundAreSet ==
  ASSUME BuilderAssumption, BuilderInv, pc = "done", NEW c \in Names
  PROVE  /\ c \in Found <=> Setters(c) # {}
         /\ c \in Found =>
              \E k \in Setters(c) :
                outputs[seqMap[c]] = OutputOf(k) /\ IsFirstSetter(k, c)
<1> USE DEF BuilderInv
<1>1. Handled = Carriers /\ counted = Len(outputs)
  BY DEF Handled, CountPart
<1>2. \A k \in Carriers : OutputOf(k).from = k /\ OutputOf(k).reqSeq = Time(k)
                          /\ NamesIn(OutputOf(k).set) = NamesIn(Response(k).sets)
  <2> SUFFICES ASSUME NEW k \in Carriers
               PROVE  NamesIn(OutputOf(k).set) = NamesIn(Response(k).sets)
    BY DEF OutputOf
  <2>1. /\ Response(k).sets \in Seq(SetCookies)
        /\ Url(k) \in Urls \cup {NoUrl}
    BY CarrierTypes DEF TypePart
  <2>2. NamesIn(WithDomain(Response(k).sets, Url(k))) = NamesIn(Response(k).sets)
    BY <2>1, DomainFilled, Zenon
  <2> QED
    BY <2>2 DEF OutputOf
<1>3. ASSUME NEW k \in Setters(c)
      PROVE  \E i \in 1..Len(outputs) : outputs[i] = OutputOf(k)
                                        /\ c \in NamesIn(outputs[i].set)
  <2>1. k \in Carriers /\ c \in NamesIn(Response(k).sets)
    BY DEF Setters
  <2>2. ~ Silent(k)
    <3>1. Response(k).sets # <<>>
      BY <2>1 DEF NamesIn
    <3> QED
      BY <3>1 DEF Silent
  <2>3. PICK i \in 1..Len(outputs) : outputs[i].from = k
    BY <1>1, <2>1, <2>2 DEF OutputsPart
  <2>4. PICK l \in Carriers : outputs[i] = OutputOf(l)
    BY <1>1 DEF OutputsPart
  <2>5. l = k
    BY <1>2, <2>3, <2>4
  <2> QED
    BY <1>2, <2>1, <2>4, <2>5
<1>4. ASSUME c \in Found
      PROVE  \E k \in Setters(c) :
               outputs[seqMap[c]] = OutputOf(k) /\ IsFirstSetter(k, c)
  <2>1. seqMap[c] # 0 /\ seqMap[c] \in 1..Len(outputs)
    BY <1>1, <1>4, LenProperties DEF Found, TypePart
  <2>2. /\ c \in NamesIn(outputs[seqMap[c]].set)
        /\ \A i \in 1..Len(outputs) :
             c \in NamesIn(outputs[i].set) =>
               outputs[seqMap[c]].reqSeq <= outputs[i].reqSeq
    BY <1>1, <2>1 DEF FirstPart
  <2>3. PICK k \in Carriers : outputs[seqMap[c]] = OutputOf(k)
    BY <1>1, <2>1 DEF OutputsPart
  <2>4. k \in Setters(c)
    BY <1>2, <2>2, <2>3 DEF Setters
  <2>5. ASSUME NEW l \in Setters(c) PROVE Time(k) <= Time(l)
    <3>1. PICK i \in 1..Len(outputs) :
            outputs[i] = OutputOf(l) /\ c \in NamesIn(outputs[i].set)
      BY <1>3
    <3>2. l \in Carriers
      BY DEF Setters
    <3> QED
      BY <1>2, <2>2, <2>3, <3>1, <3>2
  <2> QED
    BY <2>3, <2>4, <2>5 DEF IsFirstSetter
<1>5. ASSUME Setters(c) # {} PROVE c \in Found
  <2>1. PICK k : k \in Setters(c)
    BY <1>5
  <2>2. \E i \in 1..Len(outputs) : c \in NamesIn(outputs[i].set)
    BY <1>3, <2>1
  <2> QED
    BY <1>1, <2>2 DEF FirstPart, Found
<1> QED
  BY <1>4, <1>5

(* A row is of a cookie.                                                   *)
LEMMA RowTypes ==
  ASSUME TypePart, NEW place \in RowPlaces
  PROVE  Row(place) \in RowSet /\ Row(place).name \in Names
<1>1. /\ place[1] \in AllGroups /\ groups[place[1]] \in Seq(RowSet)
      /\ place[2] \in 1..Len(groups[place[1]])
  BY DEF RowPlaces, TypePart
<1>2. Row(place) \in RowSet
  BY <1>1, ElementOfSeq DEF Row
<1> QED
  BY <1>2 DEF RowSet

(* The row of a cookie that a response has set is made from an earliest    *)
(* response that set it.                                                   *)
LEMMA SetterRow ==
  ASSUME BuilderAssumption, BuilderInv, pc = "done",
         NEW c \in Names, Setters(c) # {}
  PROVE  /\ c \in {Row(p).name : p \in RowPlaces}
         /\ \E k \in Setters(c) :
              /\ IsFirstSetter(k, c)
              /\ SetBy(k, c).maxAge \in MaxAges /\ SetBy(k, c).expires \in Dates
              /\ \A p \in RowPlaces : Row(p).name = c =>
                   /\ Row(p).url = Url(k)
                   /\ Row(p).domain = (IF SetBy(k, c).domain = NoDomain
                                       THEN Url(k) ELSE SetBy(k, c).domain)
                   /\ Row(p).expiry = Expiry(SetBy(k, c).maxAge,
                                             SetBy(k, c).expires, StartTime)
<1> USE DEF BuilderInv
<1>1. c \in Found
  BY FoundAreSet
<1>2. PICK k \in Setters(c) :
        outputs[seqMap[c]] = OutputOf(k) /\ IsFirstSetter(k, c)
  BY <1>1, FoundAreSet
<1>3. c \in {Row(p).name : p \in RowPlaces}
  BY <1>1 DEF RowsPart
<1>4. \A p \in RowPlaces : Row(p).name = c => Row(p) = HTTPRow(c)
  BY <1>1 DEF RowsPart, RowsCorrect
<1> DEFINE filled == CookieNamed(WithDomain(Response(k).sets, Url(k)), c)
<1>5. /\ HTTPRow(c).url = Url(k) /\ HTTPRow(c).domain = filled.domain
      /\ HTTPRow(c).expiry = Expiry(filled.maxAge, filled.expires, StartTime)
  <2>1. /\ outputs[seqMap[c]].url = Url(k)
        /\ outputs[seqMap[c]].set = WithDomain(Response(k).sets, Url(k))
    BY <1>2 DEF OutputOf
  <2> QED
    BY <2>1 DEF HTTPRow
<1>6. /\ filled.domain = (IF SetBy(k, c).domain = NoDomain
                         THEN Url(k) ELSE SetBy(k, c).domain)
      /\ filled.maxAge = SetBy(k, c).maxAge /\ filled.expires = SetBy(k, c).expires
      /\ filled.maxAge \in MaxAges /\ filled.expires \in Dates
  <2>1. k \in Carriers /\ c \in NamesIn(Response(k).sets)
    BY DEF Setters
  <2>2. Response(k).sets \in Seq(SetCookies) /\ Url(k) \in Urls \cup {NoUrl}
    BY <2>1, CarrierTypes DEF TypePart
  <2>3. PICK sets \in Seq(SetCookies), url \in Urls \cup {NoUrl} :
          sets = Response(k).sets /\ url = Url(k)
    BY <2>2
  <2>4. PICK cookie, f : /\ cookie = CookieNamed(sets, c)
                         /\ f = CookieNamed(WithDomain(sets, url), c)
    OBVIOUS
  <2>5. /\ f.domain = (IF cookie.domain = NoDomain THEN url ELSE cookie.domain)
        /\ f.maxAge = cookie.maxAge /\ f.expires = cookie.expires
        /\ f.maxAge \in MaxAges /\ f.expires \in Dates
    <3>1. c \in NamesIn(sets)
      BY <2>1, <2>3
    <3>2. \A d \in NamesIn(sets) :
             LET read == CookieNamed(sets, d)
                 full == CookieNamed(WithDomain(sets, url), d)
             IN /\ full.domain = (IF read.domain = NoDomain THEN url ELSE read.domain)
                /\ full.maxAge = read.maxAge /\ full.expires = read.expires
                /\ full.maxAge \in MaxAges /\ full.expires \in Dates
      BY DomainFilled, Zenon
    <3> QED
      BY <2>4, <3>1, <3>2, Zenon
  <2>6. f = filled /\ cookie = SetBy(k, c)
    BY <2>3, <2>4 DEF SetBy
  <2> HIDE DEF filled
  <2> QED
    BY <2>3, <2>5, <2>6
<1> HIDE DEF filled
<1> QED
  BY <1>2, <1>3, <1>4, <1>5, <1>6

(***************************************************************************)
(* A cookie's row has the URL and the domain of the earliest response that *)
(* set it.                                                                 *)
(***************************************************************************)
THEOREM BuilderFirstSetter == Spec => []FirstSetterListed
<1> USE BuilderAssumption
<1>1. BuilderInv => FirstSetterListed
  <2> SUFFICES ASSUME BuilderInv, pc = "done", NEW c \in Names, Setters(c) # {}
               PROVE  \E k \in Setters(c), place \in RowPlaces :
                        /\ IsFirstSetter(k, c)
                        /\ Row(place).name = c
                        /\ Row(place).url = Url(k)
                        /\ Row(place).domain =
                             (IF SetBy(k, c).domain = NoDomain
                              THEN Url(k) ELSE SetBy(k, c).domain)
    BY DEF FirstSetterListed
  <2>1. PICK place \in RowPlaces : Row(place).name = c
    BY SetterRow
  <2> QED
    BY <2>1, SetterRow
<1> QED
  BY <1>1, BuilderInvariant, PTL

(* Counting the places where requests name a cookie counts each of the     *)
(* requests, and counts it once if it names the cookie once.               *)
LEMMA UsesAndUsers ==
  ASSUME NEW c, IsFiniteSet(Uses(Carriers, c)),
         \A k \in Carriers : Headers(k) \in Seq(Names)
  PROVE  /\ Cardinality(Uses(Carriers, c)) >= Cardinality(Users(c))
         /\ (\A k \in Users(c) : NamesOnce(k, c)) =>
              Cardinality(Uses(Carriers, c)) = Cardinality(Users(c))
<1> DEFINE U == Uses(Carriers, c)
           f == [u \in U |-> u[1]]
<1>1. \A u : u \in U <=>
        \E k \in Carriers : \E i \in 1..Len(Headers(k)) :
          Headers(k)[i] = c /\ u = <<k, i>>
  BY DEF Uses
<1>2. \A k : k \in Users(c) <=>
        k \in Carriers /\ \E i \in 1..Len(Headers(k)) : Headers(k)[i] = c
  BY DEF Users, ToSet
<1> HIDE DEF U
<1>3. f \in Surjection(U, Users(c))
  <2>1. ASSUME NEW u \in U PROVE f[u] \in Users(c)
    BY <1>1, <1>2
  <2>2. ASSUME NEW k \in Users(c) PROVE \E u \in U : f[u] = k
    <3>1. PICK i \in 1..Len(Headers(k)) : Headers(k)[i] = c
      BY <1>2
    <3>2. <<k, i>> \in U
      BY <1>1, <1>2, <3>1
    <3> QED
      BY <3>2
  <2> QED
    BY <2>1, <2>2 DEF Surjection
<1>4. ASSUME \A k \in Users(c) : NamesOnce(k, c)
      PROVE  f \in Injection(U, Users(c))
  <2>1. ASSUME NEW u \in U, NEW v \in U, f[u] = f[v] PROVE u = v
    <3>1. PICK k \in Carriers : \E i \in 1..Len(Headers(k)) :
            Headers(k)[i] = c /\ u = <<k, i>>
      BY <1>1
    <3>2. PICK l \in Carriers : \E i \in 1..Len(Headers(l)) :
            Headers(l)[i] = c /\ v = <<l, i>>
      BY <1>1
    <3>3. k = l /\ k \in Users(c)
      BY <1>2, <2>1, <3>1, <3>2
    <3> QED
      BY <1>4, <3>1, <3>2, <3>3 DEF NamesOnce
  <2>2. f \in [U -> Users(c)]
    BY <1>3 DEF Surjection
  <2>3. \A u, v \in DOMAIN f : f[u] = f[v] => u = v
    BY <2>1
  <2> HIDE DEF f
  <2> QED
    BY <2>2, <2>3 DEF Injection, IsInjective
<1>5. IsFiniteSet(U) /\ Cardinality(U) \in Nat
  BY FS_CardinalityType DEF U
<1> HIDE DEF f
<1>6. /\ IsFiniteSet(Users(c)) /\ Cardinality(Users(c)) <= Cardinality(U)
      /\ Cardinality(Users(c)) = Cardinality(U) <=> f \in Injection(U, Users(c))
  BY <1>3, <1>5, FS_Surjection
<1>7. Cardinality(Users(c)) \in Nat
  BY <1>6, FS_CardinalityType
<1> QED
  BY <1>4, <1>5, <1>6, <1>7 DEF U

(***************************************************************************)
(* A row counts every request that was answered or redirected and names    *)
(* the cookie, once if it names it once: the outputs left out have no      *)
(* cookies, and no carrier has two outputs.                                *)
(***************************************************************************)
THEOREM BuilderUses == Spec => []UsesCounted
<1> USE BuilderAssumption
<1>1. BuilderInv => UsesCounted
  <2> SUFFICES ASSUME BuilderInv, pc = "done", NEW place \in RowPlaces, NEW c,
                      c = Row(place).name
               PROVE  /\ Row(place).used >= Cardinality(Users(c))
                      /\ (\A k \in Users(c) : NamesOnce(k, c)) =>
                           Row(place).used = Cardinality(Users(c))
    BY DEF UsesCounted
  <2> USE DEF BuilderInv
  <2>1. Handled = Carriers /\ counted = Len(outputs)
    BY DEF Handled, CountPart
  <2>2. c \in Names
    BY RowTypes
  <2>3. \A k \in Carriers : k \in From(counted) \/ Headers(k) = <<>>
    BY <2>1 DEF OutputsPart, Silent, From
  <2>4. From(counted) \subseteq Carriers
    <3>1. \A i \in 1..Len(outputs) : outputs[i].from \in Carriers
      BY OutputTypes
    <3> QED
      BY <2>1, <3>1 DEF From
  <2>5. Uses(From(counted), c) = Uses(Carriers, c)
    BY <2>3, <2>4 DEF Uses
  <2>6. Row(place).used = usedCount[c]
    BY DEF RowsPart, RowsCorrect
  <2>7. /\ IsFiniteSet(Uses(Carriers, c))
        /\ Row(place).used = Cardinality(Uses(Carriers, c))
    BY <2>2, <2>5, <2>6 DEF CountPart
  <2>8. \A k \in Carriers : Headers(k) \in Seq(Names)
    BY CarrierTypes DEF TypePart
  <2> QED
    BY <2>7, <2>8, UsesAndUsers
<1> QED
  BY <1>1, BuilderInvariant, PTL

(***************************************************************************)
(* The total is the number of rows, there is a row for each cookie that a  *)
(* response set or that Chrome lists, and one only for the former.         *)
(***************************************************************************)
THEOREM BuilderCount == Spec => []CountIsRows
<1> USE BuilderAssumption
<1>1. BuilderInv => CountIsRows
  <2> SUFFICES ASSUME BuilderInv, pc = "done"
               PROVE  /\ count = Cardinality(RowPlaces)
                      /\ {Row(place).name : place \in RowPlaces} =
                           {c \in Names : Setters(c) # {}} \cup NamesIn(listing)
                      /\ \A p, q \in RowPlaces :
                           Row(p).name = Row(q).name /\ Setters(Row(p).name) # {}
                             => p = q
    BY DEF CountIsRows
  <2> USE DEF BuilderInv
  <2>1. count = Cardinality(RowPlaces)
    BY DEF TotalPart
  <2>2. Found = {c \in Names : Setters(c) # {}}
    BY FoundAreSet DEF Found
  <2>3. Looked = NamesIn(listing)
    <3>1. left = <<>> /\ listing \in Seq(BrowserCookies)
      BY DEF ListPart, TypePart, BuilderAssumption
    <3>2. Len(listing) - Len(left) = Len(listing)
      BY <3>1
    <3> QED
      BY <3>2 DEF Looked, NamesIn
  <2>4. {Row(place).name : place \in RowPlaces} = Found \cup Looked
    BY DEF RowsPart
  <2>5. ASSUME NEW p \in RowPlaces, NEW q \in RowPlaces,
               Row(p).name = Row(q).name, Setters(Row(p).name) # {}
        PROVE  p = q
    <3>1. Row(p).name \in Names
      BY RowTypes
    <3>2. Row(p).name \in Found
      BY <2>2, <2>5, <3>1
    <3> QED
      BY <2>5, <3>2 DEF RowsPart, RowsCorrect
  <2> QED
    BY <2>1, <2>2, <2>3, <2>4, <2>5
<1> QED
  BY <1>1, BuilderInvariant, PTL

(***************************************************************************)
(* Each category with a cookie is in the report once, the unclassified     *)
(* cookies come last, and each cookie is in its category.                  *)
(***************************************************************************)
THEOREM BuilderOrder == Spec => []UnclassifiedLast
<1> USE BuilderAssumption
<1>1. BuilderInv => UnclassifiedLast
  <2> SUFFICES ASSUME BuilderInv, pc = "done"
               PROVE  UnclassifiedLast
    BY DEF UnclassifiedLast
  <2> USE DEF BuilderInv
  <2>1. /\ ToSet(result) = Filled /\ IsInjective(result)
        /\ \A i \in 1..Len(result) : result[i] = Unclassified => i = Len(result)
    BY DEF OrderPart
  <2>2. Filled = {g \in DOMAIN groups : groups[g] # <<>>}
    BY DEF Filled, TypePart
  <2>3. \A place \in RowPlaces : place[1] = CategoryOf[Row(place).name]
    BY DEF RowsPart, RowsCorrect
  <2> QED
    BY <2>1, <2>2, <2>3 DEF UnclassifiedLast
<1> QED
  BY <1>1, BuilderInvariant, PTL

----------------------------------------------------------------------------
(* The expiry column                                                       *)

(* The last unit is the smallest.                                          *)
LEMMA UnitLengths ==
  /\ Second \in Nat \ {0}
  /\ \A i \in 1..Second : Lengths[i] \in Nat \ {0} /\ Lengths[i] >= Lengths[Second]
  /\ DurationLimit \in Nat /\ Lengths[Second] < DurationLimit
<1> USE ExpiryAssumption DEF Second
<1>1. Len(Lengths) \in Nat \ {0}
  OBVIOUS
<1>2. \A i \in 1..Len(Lengths) : Lengths[i] \in Nat \ {0}
  OBVIOUS
<1>3. \A i \in 1..Len(Lengths) : Lengths[i] >= Lengths[Len(Lengths)]
  <2> SUFFICES ASSUME NEW i \in 1..Len(Lengths)
               PROVE  Lengths[i] >= Lengths[Len(Lengths)]
    OBVIOUS
  <2>1. CASE i < Len(Lengths)
    BY <1>1, <1>2, <2>1
  <2>2. CASE i = Len(Lengths)
    BY <1>2, <2>2
  <2> QED
    BY <1>1, <2>1, <2>2
<1> QED
  BY <1>1, <1>2, <1>3

(* Rounding half up, in whole tenths                                       *)
LEMMA Rounding ==
  ASSUME NEW d \in Nat, NEW length \in Nat \ {0}
  PROVE  LET error == 2 * (Tenths(d, length) * length - 10 * d)
         IN -length <= error /\ error <= length
<1> DEFINE half == length \div 2
           a == 10 * d + half
           q == a \div length
           p == q * length
<1>1. half \in Nat /\ 2 * half <= length /\ length - 1 <= 2 * half
  BY SMT
<1>2. a \in Nat
  BY <1>1
<1>3. q \in Int /\ p <= a /\ a < p + length
  <2> HIDE DEF half
  <2>1. a = length * (a \div length) + (a % length) /\ a % length \in 0..(length - 1)
    BY <1>2, SMT
  <2> QED
    BY <1>2, <2>1, SMT
<1>4. p \in Int
  BY <1>3
<1>5. Tenths(d, length) * length = p
  BY DEF Tenths
<1> HIDE DEF p, half
<1>6. -length <= 2 * (p - 10 * d) /\ 2 * (p - 10 * d) <= length
  BY <1>1, <1>3, <1>4
<1> QED
  BY <1>5, <1>6

(***************************************************************************)
(* estimatedDuration agrees with any duration: it takes the largest unit   *)
(* that fits, because the lengths decrease.                                *)
(***************************************************************************)
LEMMA EstimateAgrees ==
  ASSUME NEW d \in Int
  PROVE  Agrees(EstimatedDuration(d), d)
<1>1. CASE d < Lengths[Second]
  <2>1. \A i \in 1..Second : ~ Fits(d, i)
    BY <1>1, UnitLengths DEF Fits
  <2>2. EstimatedDuration(d) = Session
    BY <2>1 DEF EstimatedDuration
  <2> QED
    BY <1>1, <2>2 DEF Agrees
<1>2. CASE ~ (d < Lengths[Second])
  <2> DEFINE fitting == {i \in 1..Second : Fits(d, i)}
             First(k) == Fits(d, k) /\ \A j \in 1..k - 1 : ~ Fits(d, j)
             i == CHOOSE k \in 1..Second : First(k)
  <2>1. Second \in fitting
    BY <1>2, UnitLengths DEF Fits
  <2>2. PICK k \in fitting : \A j \in fitting : k <= j
    <3>1. fitting \subseteq Nat /\ fitting # {}
      BY <2>1
    <3> QED
      BY <3>1, Smallest, Zenon
  <2>3. k \in 1..Second /\ First(k)
    BY <2>2, UnitLengths
  <2>4. i \in 1..Second /\ First(i)
    BY <2>3
  <2> HIDE DEF First, i
  <2>5. EstimatedDuration(d) = [unit |-> i, tenths |-> Tenths(d, Lengths[i])]
    BY <2>1 DEF EstimatedDuration, First, i
  <2>6. d >= Lengths[i] /\ Lengths[i] \in Nat \ {0} /\ d \in Nat
    BY <2>4, UnitLengths DEF First, Fits
  <2>7. i > 1 => d < Lengths[i - 1]
    <3>1. ASSUME i > 1 PROVE i - 1 \in 1..i - 1 /\ i - 1 \in 1..Second
      BY <2>4, <3>1, UnitLengths
    <3>2. ASSUME i > 1 PROVE ~ (d >= Lengths[i - 1])
      BY <2>4, <3>1, <3>2 DEF First, Fits
    <3> QED
      BY <3>1, <3>2, UnitLengths
  <2>8. LET error == 2 * (Tenths(d, Lengths[i]) * Lengths[i] - 10 * d)
        IN -Lengths[i] <= error /\ error <= Lengths[i]
    BY <2>6, Rounding
  <2> QED
    BY <1>2, <2>4, <2>5, <2>6, <2>7, <2>8 DEF Agrees
<1> QED
  BY <1>1, <1>2

(* What fits a Duration is multiplied without wrapping around.             *)
LEMMA MultiplyExact ==
  ASSUME NEW x \in Nat, NEW y \in Nat, x * y < DurationLimit
  PROVE  Multiply(x, y) = x * y
<1> DEFINE p == x * y
<1>1. p \in Nat /\ DurationLimit \in Nat
  BY UnitLengths
<1> HIDE DEF p
<1>2. (p + DurationLimit) % (2 * DurationLimit) = p + DurationLimit
  <2>1. p < DurationLimit
    BY DEF p
  <2> QED
    BY <1>1, <2>1, SMT
<1>3. Multiply(x, y) = p
  BY <1>1, <1>2 DEF Multiply, p
<1> QED
  BY <1>3 DEF p

(* A difference of times that does not fit is the longest Duration, or so  *)
(* far in the past that it is a session cookie's.                          *)
LEMMA SubAgrees ==
  ASSUME NEW t \in Int, NEW u \in Int
  PROVE  Agrees(EstimatedDuration(Sub(t, u)), Saturated(t - u))
<1>1. DurationLimit \in Nat /\ Lengths[Second] \in Nat \ {0}
      /\ Lengths[Second] < DurationLimit
  <2>1. Second \in 1..Second
    BY UnitLengths
  <2> QED
    BY <2>1, UnitLengths
<1>2. CASE t - u >= DurationLimit
  <2>1. Sub(t, u) = DurationLimit - 1 /\ Saturated(t - u) = DurationLimit - 1
    BY <1>1, <1>2 DEF Sub, Saturated
  <2>2. DurationLimit - 1 \in Int
    BY <1>1
  <2> QED
    BY <2>1, <2>2, EstimateAgrees
<1>3. CASE t - u < -DurationLimit
  <2>1. Sub(t, u) = -DurationLimit /\ Saturated(t - u) = t - u
    BY <1>1, <1>3 DEF Sub, Saturated
  <2>2. Agrees(EstimatedDuration(-DurationLimit), -DurationLimit)
    BY <1>1, EstimateAgrees
  <2> QED
    BY <1>1, <1>3, <2>1, <2>2 DEF Agrees
<1>4. CASE ~ (t - u >= DurationLimit) /\ ~ (t - u < -DurationLimit)
  <2>1. Sub(t, u) = t - u /\ Saturated(t - u) = t - u /\ t - u \in Int
    BY <1>1, <1>4 DEF Sub, Saturated
  <2> QED
    BY <2>1, EstimateAgrees
<1> QED
  BY <1>2, <1>3, <1>4

(***************************************************************************)
(* The column is computed as it should be, whatever the header said and    *)
(* the form of its date.                                                   *)
(***************************************************************************)
LEMMA ExpiryShows ==
  ASSUME NEW age \in MaxAges, NEW start \in Times, NEW raw \in Dates
  PROVE  ShowsLifetime(Expiry(age, raw, start), age, raw, start)
<1> DEFINE shown == Expiry(age, raw, start)
<1>1. /\ age \in Int /\ start \in Int /\ raw.time \in Int /\ ZeroTime \in Int
      /\ ZeroTime <= start /\ Lengths[Second] \in Nat \ {0}
      /\ DurationLimit \in Nat /\ Lengths[Second] < DurationLimit
  <2>1. age \in Int /\ start \in Int /\ ZeroTime \in Int /\ ZeroTime <= start
    BY ExpiryAssumption
  <2>2. raw.time \in Int
    BY ExpiryAssumption DEF Dates
  <2>3. Second \in 1..Second
    BY UnitLengths
  <2> QED
    BY <2>1, <2>2, <2>3, UnitLengths
<1>2. CASE age > 0
  <2> SUFFICES ASSUME Lengths[Second] * age < DurationLimit
               PROVE  Agrees(shown, Lengths[Second] * age)
    BY <1>2 DEF ShowsLifetime
  <2>1. age \in Nat /\ Lengths[Second] * age \in Int
    BY <1>1, <1>2
  <2>2. shown = EstimatedDuration(Lengths[Second] * age)
    BY <1>1, <1>2, <2>1, MultiplyExact DEF Expiry, Lifetime
  <2> QED
    BY <2>1, <2>2, EstimateAgrees
<1>3. CASE ~ (age > 0)
  <2> SUFFICES Agrees(shown, Saturated(DateLeft(raw, start)))
    BY <1>3 DEF ShowsLifetime
  <2>1. shown = EstimatedDuration(Sub(Reparsed(raw), start))
    BY <1>3 DEF Expiry, Lifetime
  <2>2. CASE raw.form \in {"long", "short"}
    <3>1. Reparsed(raw) = raw.time /\ DateLeft(raw, start) = raw.time - start
      BY <2>2 DEF Reparsed, ReadSetCookies, DateLeft
    <3> QED
      BY <1>1, <2>1, <3>1, SubAgrees
  <2>3. CASE raw.form \notin {"long", "short"}
    <3>1. Reparsed(raw) = ZeroTime /\ DateLeft(raw, start) = 0
      BY <2>3 DEF Reparsed, ReadSetCookies, DateLeft
    <3>2. Agrees(shown, Saturated(ZeroTime - start))
      BY <1>1, <2>1, <3>1, SubAgrees
    <3>3. /\ Saturated(ZeroTime - start) < Lengths[Second]
          /\ Saturated(0) < Lengths[Second]
      BY <1>1 DEF Saturated
    <3> QED
      BY <3>1, <3>2, <3>3 DEF Agrees
  <2> QED
    BY <2>2, <2>3
<1> QED
  BY <1>2, <1>3

(***************************************************************************)
(* A row's expiry column agrees with what the first response to set the    *)
(* cookie said, or with Chrome's list if no response set it, for units of  *)
(* any lengths and a Duration of any width.                                *)
(***************************************************************************)
THEOREM BuilderExpiry == Spec => []ExpiryOfFirstSetter
<1> USE BuilderAssumption
<1>1. BuilderInv => ExpiryOfFirstSetter
  <2> SUFFICES ASSUME BuilderInv, pc = "done", NEW place \in RowPlaces,
                      NEW c, c = Row(place).name, NEW shown,
                      shown = Row(place).expiry
               PROVE  IF Setters(c) # {}
                      THEN \E k \in Setters(c) :
                             /\ IsFirstSetter(k, c)
                             /\ ShowsLifetime(shown, SetBy(k, c).maxAge,
                                              SetBy(k, c).expires, StartTime)
                      ELSE \E i \in 1..Len(listing) :
                             /\ listing[i].name = c
                             /\ Agrees(shown,
                                       Saturated(listing[i].expires - StartTime))
    BY DEF ExpiryOfFirstSetter
  <2>1. c \in Names
    BY RowTypes DEF BuilderInv
  <2>2. StartTime \in Times /\ Times \subseteq Int
    BY ExpiryAssumption
  <2>3. CASE Setters(c) # {}
    <3>1. PICK k \in Setters(c) :
            /\ IsFirstSetter(k, c)
            /\ SetBy(k, c).maxAge \in MaxAges /\ SetBy(k, c).expires \in Dates
            /\ shown = Expiry(SetBy(k, c).maxAge, SetBy(k, c).expires, StartTime)
      BY <2>1, <2>3, SetterRow
    <3>2. ShowsLifetime(shown, SetBy(k, c).maxAge, SetBy(k, c).expires, StartTime)
      BY <2>2, <3>1, ExpiryShows
    <3> QED
      BY <2>3, <3>1, <3>2
  <2>4. CASE Setters(c) = {}
    <3>1. c \notin Found
      BY <2>1, <2>4, FoundAreSet
    <3>2. Listed(Row(place))
      BY <3>1 DEF BuilderInv, RowsPart, RowsCorrect
    <3>3. PICK i \in 1..Len(listing) :
            /\ listing[i].name = c
            /\ shown = EstimatedDuration(Sub(listing[i].expires, StartTime))
      BY <3>2 DEF Listed
    <3>4. listing[i].expires \in Int
      <4>1. listing \in Seq(BrowserCookies)
        BY DEF BuilderInv, TypePart, ListPart
      <4>2. listing[i] \in BrowserCookies
        BY <4>1
      <4> QED
        BY <2>2, <4>2 DEF BrowserCookies
    <3>5. Agrees(shown, Saturated(listing[i].expires - StartTime))
      BY <2>2, <3>3, <3>4, SubAgrees
    <3> QED
      BY <2>4, <3>3, <3>5
  <2> QED
    BY <2>3, <2>4
<1> QED
  BY <1>1, BuilderInvariant, PTL

============================================================================
