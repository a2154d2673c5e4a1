------------------------------ MODULE Cookies ------------------------------
(***************************************************************************)
(* cookie_store.rs: the cookies of a request as CookieStore::from reads    *)
(* them, the store of a response as its calls fill it, and the lifetimes   *)
(* and dates of Set-Cookie.                                                *)
(*                                                                         *)
(* A "cookie" field is a sequence of tokens: ";", "=", ",", " " and words. *)
(* A store is a function from names to values.                             *)
(***************************************************************************)
EXTENDS Tokens

CONSTANTS Now,        \* the time, in seconds since 1970
          WordSize    \* 2 to the width of u64

ASSUME ClockAssumption == Now \in Nat /\ WordSize \in Nat /\ Now < WordSize

-----------------------------------------------------------------------------
(* Mutant: the value ends at the next "=". *)
ValueFrom_NextEquals(pair, equals) == Split(SubSeq(pair, equals + 1, Len(pair)), Equals)[1]

(* A value is all that follows the first "=". *)
ValueFrom(pair, equals) == SubSeq(pair, equals + 1, Len(pair))

NoCookies == [name \in {} |-> <<>>]

(* HashMap::insert: a later cookie of a name replaces the value. *)
With(store, name, value) == [n \in DOMAIN store \cup {name} |-> IF n = name THEN value ELSE store[n]]

Without(store, name) == [n \in DOMAIN store \ {name} |-> store[n]]

(* One pair of CookieStore::from; one without a name is passed over. *)
ReadPair(store, text) ==
    LET pair == Trim(text)
        equals == FirstAt(<<Equals>>, pair, 1)
        name == IF equals = 0 THEN pair ELSE Trim(SubSeq(pair, 1, equals - 1))
        value == IF equals = 0 THEN <<>> ELSE Trim(ValueFrom(pair, equals))
    IN  IF name = <<>> THEN store ELSE With(store, name, value)

StoreOf(pairs) ==
    LET store[n \in 0..Len(pairs)] == IF n = 0 THEN NoCookies ELSE ReadPair(store[n - 1], pairs[n])
    IN  store[Len(pairs)]

(* CookieStore::from *)
ReadCookies(text) == StoreOf(Split(text, Semicolon))

-----------------------------------------------------------------------------
(* A call on a response, [op, name, value]: CookieStore::set trims the name, remove does not. *)
Call(store, call) ==
    IF call.op = "add" THEN With(store, Trim(call.name), call.value) ELSE Without(store, call.name)

(* add_cookie and remove_cookie in a row; to_bytes writes one line for each name left. *)
AfterCalls(calls) ==
    LET store[n \in 0..Len(calls)] == IF n = 0 THEN NoCookies ELSE Call(store[n - 1], calls[n])
    IN  store[Len(calls)]

-----------------------------------------------------------------------------
UnitSeconds ==
    [seconds |-> 1, minutes |-> 60, hours |-> 3600, days |-> 86400, months |-> 2592000, years |-> 31536000]

(* Mutant: a point in time that is over lasts until the counter has wrapped. *)
SecondsUntil_Wraps(time) == (time + WordSize - Now) % WordSize

SecondsUntil(time) == IF time > Now THEN time - Now ELSE 0

(* as_secs_duration: an unchecked product, cut to the width of the word. *)
Seconds(expiration) ==
    IF expiration.unit = "at" THEN SecondsUntil(expiration.n)
    ELSE (expiration.n * UnitSeconds[expiration.unit]) % WordSize

(* timestamp: an unchecked sum. *)
Timestamp(expiration) ==
    IF expiration.unit = "at" THEN expiration.n ELSE (Now + Seconds(expiration)) % WordSize

-----------------------------------------------------------------------------
Weekdays == <<"Thu", "Fri", "Sat", "Sun", "Mon", "Tue", "Wed">>

(* format_http_date, without the time of day: the date of a day counted from 1 January 1970. *)
DateOf(days) ==
    LET j == days + 2440588 + 32044
        g == j \div 146097
        dg == j % 146097
        c == ((dg \div 36524 + 1) * 3) \div 4
        dc == dg - c * 36524
        b == dc \div 1461
        db == dc % 1461
        a == ((db \div 365 + 1) * 3) \div 4
        da == db - a * 365
        m == ((da * 5 + 308) \div 153) - 2
    IN  [weekday |-> Weekdays[(days % 7) + 1],
         year |-> (((g * 400 + c * 100) + b * 4) + a - 4800) + ((m + 2) \div 12),
         month |-> ((m + 2) % 12) + 1,
         day |-> da - (((m + 4) * 153) \div 5) + 122 + 1]
=============================================================================
