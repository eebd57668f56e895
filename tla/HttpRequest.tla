----------------------------- MODULE HttpRequest ------------------------------
(***************************************************************************)
(* What readHttpRequest (api/http_request.cpp) makes of the lines it is    *)
(* given, the routing of api/router.cpp and the query of                   *)
(* net/query_string.cpp.                                                   *)
(*                                                                         *)
(* Text is a sequence of cells.  A cell is a character the code looks at   *)
(* (a space, a slash, a colon ...) or a word that has none in it; the caps *)
(* count cells.  Header names are written in lower case: the code compares *)
(* without regard to case.                                                 *)
(***************************************************************************)
EXTENDS Integers, Sequences, SequencesExt

CONSTANTS
    Cell,              \* what text is made of
    MethodCap,         \* kMethodCap, terminator included, as all caps
    TargetCap,         \* kTargetCap, and kWildcardCap
    AuthorizationCap,  \* kAuthorizationCap
    KeyCap,            \* kWebSocketKeyCap
    BodyCap,           \* kBodyCap: the one cap the terminator is not part of
    LengthLimit,       \* the 1000000 at which reading Content-Length stops
    Apps               \* AppScheduler::count

Digits == <<"0", "1", "2", "3", "4", "5", "6", "7", "8", "9">>
Digit(c) == Contains(Digits, c)
Value(c) == (CHOOSE i \in DOMAIN Digits : Digits[i] = c) - 1

(* strchr: what comes before and after the first c; Len(s) + 1 stands for  *)
(* the terminator when there is none.                                      *)
Place(s, c)  == IF Contains(s, c) THEN CHOOSE i \in DOMAIN s :
                       s[i] = c /\ \A j \in 1..(i - 1) : s[j] # c
                   ELSE Len(s) + 1
Before(s, c) == SubSeq(s, 1, Place(s, c) - 1)
After(s, c)  == SubSeq(s, Place(s, c) + 1, Len(s))
From(s, c)   == SubSeq(s, Place(s, c), Len(s))

(* copyCapped and captureWildcard: there must be room for a terminator.    *)
Fits(s, cap) == Len(s) < cap

(* strtol as this code writes it by hand: no number, one above the limit,  *)
(* or the number.  The limit stops the loop long before a uint32_t is full.*)
NotANumber == -1
TooMuch    == -2

Number(s, limit) ==
    LET Step(n, c) == IF n < 0 THEN n
                      ELSE IF ~Digit(c) THEN NotANumber
                      ELSE IF n * 10 + Value(c) > limit THEN TooMuch
                      ELSE n * 10 + Value(c)
        Read[i \in 0..Len(s)] == IF i = 0 THEN 0 ELSE Step(Read[i - 1], s[i])
    IN  Read[Len(s)]

------------------------------------------------------------------------------
(* memset: nothing of one request is there for the next.                   *)
NoRequest == [method |-> <<>>, target |-> <<>>, authorization |-> <<>>, key |-> <<>>,
              length |-> 0, body |-> <<>>]

(* "METHOD SP TARGET SP HTTP/1.1".                                         *)
RequestLine(line) ==
    LET rest == After(line, "SP")
    IN  IF ~Contains(line, "SP") \/ ~Fits(Before(line, "SP"), MethodCap)
           THEN [status |-> "malformed", request |-> NoRequest]
        ELSE IF ~Contains(rest, "SP") THEN [status |-> "malformed", request |-> NoRequest]
        ELSE IF ~Fits(Before(rest, "SP"), TargetCap)
           THEN [status |-> "target_too_long", request |-> NoRequest]
        ELSE [status |-> "ok", request |-> [NoRequest EXCEPT !.method = Before(line, "SP"),
                                                             !.target = Before(rest, "SP")]]

(* request.path: the target up to its '?'.                                 *)
Path(target) == Before(target, "?")

(* headerValue: the text after "name:", without the blanks in front of it. *)
Named(line, name) == Len(line) >= 2 /\ line[1] = name /\ line[2] = ":"

HeaderValue(line) ==
    LET text == SubSeq(line, 3, Len(line))
        Blanks(n) == \A i \in 1..n : text[i] = "SP"
        n == CHOOSE n \in 0..Len(text) : Blanks(n) /\ (n < Len(text) => text[n + 1] # "SP")
    IN  SubSeq(text, n + 1, Len(text))

(* One header: the request after it, whether it is an Authorization that   *)
(* did not fit, and a status other than "ok" where reading ends.  A key    *)
(* that does not fit is left as it was; a header nobody asks for is        *)
(* skipped, too long or not.                                               *)
CutShort(request, line, long) ==
    Named(line, "authorization") /\ (long \/ ~Fits(HeaderValue(line), AuthorizationCap))

Header(request, line, long) ==
    LET value  == HeaderValue(line)
        number == Number(value, LengthLimit)
        plain  == [status |-> "ok", request |-> request]
    IN  IF long THEN plain
        ELSE IF Named(line, "authorization") /\ Fits(value, AuthorizationCap)
           THEN [plain EXCEPT !.request.authorization = value]
        ELSE IF Named(line, "sec-websocket-key") /\ Fits(value, KeyCap)
           THEN [plain EXCEPT !.request.key = value]
        ELSE IF Named(line, "content-length") THEN
           CASE number \in Nat      -> [plain EXCEPT !.request.length = number]
             [] number = NotANumber -> [plain EXCEPT !.status = "malformed"]
             [] OTHER               -> [plain EXCEPT !.status = "body_too_large"]
        ELSE plain

(* At the empty line: what is wrong with the headers as a whole.           *)
HeadersTaken(request, cutShort) ==
    IF cutShort THEN "header_too_long"
    ELSE IF request.length > BodyCap THEN "body_too_large"
    ELSE "ok"

------------------------------------------------------------------------------
(* matchPath: a wildcard that is the last of the pattern takes all that is *)
(* left, one within it a single segment.                                   *)
NoMatch == [matches |-> FALSE, wildcard |-> <<>>]

Capture(text) == IF Fits(text, TargetCap) THEN [matches |-> TRUE, wildcard |-> text]
                                          ELSE NoMatch

matchPath(pattern, path) ==
    LET prefix == Before(pattern, "*")
        rest   == SubSeq(path, Len(prefix) + 1, Len(path))
        suffix == After(pattern, "*")
    IN  IF ~Contains(pattern, "*") THEN [matches |-> path = pattern, wildcard |-> <<>>]
        ELSE IF ~IsPrefix(prefix, path) THEN NoMatch
        ELSE IF suffix = <<>> THEN Capture(rest)
        ELSE IF Contains(rest, "/") /\ From(rest, "/") = suffix THEN Capture(Before(rest, "/"))
        ELSE NoMatch

(* findRoute: from the top of the table; 0 is its nullptr.                 *)
findRoute(table, method, path) ==
    LET Fit(i) == table[i].method = method /\ matchPath(table[i].pattern, path).matches
    IN  IF \E i \in DOMAIN table : Fit(i)
        THEN CHOOSE i \in DOMAIN table : Fit(i) /\ \A j \in 1..(i - 1) : ~Fit(j)
        ELSE 0

(* queryParam: name= counts right after the '?' or a '&', and nowhere else.*)
queryParam(target, name) ==
    LET query  == After(target, "?")
        At(i)  == query[i] = name /\ i < Len(query) /\ query[i + 1] = "="
                  /\ (i = 1 \/ query[i - 1] = "&")
        first  == CHOOSE i \in DOMAIN query : At(i) /\ \A j \in 1..(i - 1) : ~At(j)
    IN  IF \E i \in DOMAIN query : At(i)
        THEN Before(SubSeq(query, first + 2, Len(query)), "&")
        ELSE <<>>

(* parseAppIndex and resolveAppIndex: digits only, at most what a uint8_t  *)
(* holds (255), and the index of an app there is.                          *)
NoAppIndex == -3

resolveAppIndex(wildcard) ==
    LET n == Number(wildcard, 255)
    IN  IF wildcard = <<>> \/ n < 0 \/ n >= Apps THEN NoAppIndex ELSE n

==============================================================================
