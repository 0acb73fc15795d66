---------------------------- MODULE CookieExpiry ----------------------------
(***************************************************************************)
(* The expiry column of a row (parser/parser.go): a positive Max-Age in    *)
(* seconds, or else the time from the start of the scan to the cookie's    *)
(* Expires, as a time.Duration and rounded to a tenth of the largest unit  *)
(* that fits.  A Duration counts nanoseconds in a machine word:            *)
(* multiplication wraps around, time.Time.Sub saturates.                   *)
(*                                                                         *)
(* net/http reads an Expires whose year has four digits ("long");          *)
(* parseHeaders tries again with two ("short").  Chrome's own list gives   *)
(* a number, which is as good as a long date.                              *)
(***************************************************************************)
EXTENDS Integers, Sequences

CONSTANTS
  DurationLimit,  (* a Duration is below it and at least its negative; 2^63 *)
  Lengths,        (* year, month, day, hour, minute and second, in          *)
                  (* nanoseconds                                            *)
  MaxAges,        (* values of http.Cookie.MaxAge: 0 without a Max-Age, and *)
                  (* -1 for one that is zero or negative                    *)
  Times,          (* values of Expires and of the start of a scan           *)
  ZeroTime        (* time.Time{}, long before any scan                      *)

Second == Len(Lengths)
Session == [unit |-> 0, tenths |-> 0]
Forms == {"none", "long", "short", "other"}
Dates == [form : Forms, time : Times]

ASSUME ExpiryAssumption ==
  /\ Lengths \in Seq(Nat \ {0}) /\ Lengths # <<>>
  /\ \A i, j \in 1..Len(Lengths) : i < j => Lengths[i] > Lengths[j]
  /\ DurationLimit \in Nat /\ \A i \in 1..Len(Lengths) : Lengths[i] < DurationLimit
  /\ MaxAges \subseteq Nat \cup {-1} /\ Times \subseteq Int
  /\ ZeroTime \in Int /\ \A t \in Times : ZeroTime <= t

Multiply(x, y) == ((x * y + DurationLimit) % (2 * DurationLimit)) - DurationLimit

Sub(t, u) ==
  CASE t - u >= DurationLimit -> DurationLimit - 1
    [] t - u < -DurationLimit -> -DurationLimit
    [] OTHER -> t - u

Fits(d, i) == d >= Lengths[i]

(* "%.1f" of the duration over the unit                                    *)
Tenths(d, length) == (10 * d + (length \div 2)) \div length

EstimatedDuration(d) ==
  IF \E i \in 1..Second : Fits(d, i)
  THEN LET i == CHOOSE k \in 1..Second :
                  Fits(d, k) /\ \A j \in 1..k - 1 : ~ Fits(d, j)
       IN [unit |-> i, tenths |-> Tenths(d, Lengths[i])]
  ELSE Session

Lifetime(age, expires, start) ==
  IF age > 0 THEN Multiply(Lengths[Second], age) ELSE Sub(expires, start)

(* What net/http makes of the header                                       *)
ReadSetCookies(raw) == IF raw.form = "long" THEN raw.time ELSE ZeroTime

(* Seeded fault: a date that is not in a short form is dropped.            *)
ReparsedOrDropped(raw) == IF raw.form = "short" THEN raw.time ELSE ZeroTime

(* The end of parseHeaders                                                 *)
Reparsed(raw) == IF raw.form = "short" THEN raw.time ELSE ReadSetCookies(raw)

Expiry(age, raw, start) == EstimatedDuration(Lifetime(age, Reparsed(raw), start))

----------------------------------------------------------------------------

(* How long the Expires header lets a cookie live, without the limits of   *)
(* the machine                                                             *)
DateLeft(raw, start) ==
  IF raw.form \in {"long", "short"} THEN raw.time - start ELSE 0

(* What is left of a lifetime that is longer than the longest Duration     *)
Saturated(d) == IF d >= DurationLimit THEN DurationLimit - 1 ELSE d

(* The column agrees with a lifetime: the number is that lifetime in the   *)
(* unit, to half a tenth of it, and no larger unit fits.                   *)
Agrees(shown, d) ==
  IF d < Lengths[Second] THEN shown = Session
  ELSE /\ shown.unit \in 1..Second /\ d >= Lengths[shown.unit]
       /\ shown.unit > 1 => d < Lengths[shown.unit - 1]
       /\ LET error == 2 * (shown.tenths * Lengths[shown.unit] - 10 * d)
          IN -Lengths[shown.unit] <= error /\ error <= Lengths[shown.unit]

(***************************************************************************)
(* What the column says of a cookie a response has set.  A positive        *)
(* Max-Age is shown if its nanoseconds fit a Duration; otherwise the       *)
(* product wraps around and nothing is claimed.  Without one it is the     *)
(* time left until Expires, or the longest Duration if that is more.  A    *)
(* Max-Age that is zero or negative ends a cookie at once, but the code    *)
(* treats it like none and shows the time left until Expires.              *)
(***************************************************************************)
ShowsLifetime(shown, age, raw, start) ==
  IF age > 0
  THEN Lengths[Second] * age < DurationLimit =>
         Agrees(shown, Lengths[Second] * age)
  ELSE Agrees(shown, Saturated(DateLeft(raw, start)))

============================================================================
