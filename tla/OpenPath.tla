------------------------------ MODULE OpenPath ------------------------------
(***************************************************************************)
(* How do_open routes an OPEN path (src/socket_functions.c): match_subdir  *)
(* picks the sub-handler from the first segment, and for "socket/D/T/P"    *)
(* do_socket parses the three numbers with parse_socket_args (three        *)
(* strtol calls) and maps the type to a handle type.  The outcome is the   *)
(* handler reached (with the parsed numbers) or the status returned.       *)
(*                                                                         *)
(* A path is the name of its first segment followed by the characters of   *)
(* the rest, from a small alphabet.  Integer widths are scaled down: long  *)
(* has LongBits bits and int IntBits, keeping long wider than int so that  *)
(* both the ERANGE of strtol and the truncation of its result to int       *)
(* occur.  Whether strtol sets EINVAL when no digit is found is a property *)
(* of the C library the build uses, chosen in Init.                        *)
(***************************************************************************)
EXTENDS Integers, Sequences, SequencesExt

CONSTANTS
  IntBits,    \* width of int
  LongBits,   \* width of long, the type strtol returns
  MaxRest     \* longest path after the first segment's name

ASSUME IntBits \in Nat /\ LongBits \in Nat /\ 1 < IntBits /\ IntBits < LongBits

Names == {"none", "socket", "accept"}
Chars == {"1", "2", "/", " ", "x"}
Paths == UNION {{<<n>> \o r : r \in BoundedSeq(Chars, IF n = "socket" THEN MaxRest ELSE 2)} :
                 n \in Names}

SOCK_STREAM == 1
SOCK_DGRAM == 2

Kinds == {"pending", "none", "STREAM", "DGRAM", "accept", "INVALID_ARGS",
          "NOT_SUPPORTED"}
Outcome(k) == [kind |-> k, domain |-> 0, type |-> 0, protocol |-> 0]

VARIABLES
  path,        \* the OPEN payload
  libcEinval,  \* the C library's strtol sets EINVAL when it finds no digit
  outcome      \* where do_open got to

vars == <<path, libcEinval, outcome>>

-----------------------------------------------------------------------------
(* The C library's strtol(s, &end, 10) and the conversion of its result    *)
(* to int.                                                                 *)

DigitValue == [c \in {"0", "1", "2", "3", "4", "5", "6", "7", "8", "9"} |->
                 CHOOSE v \in 0..9 : <<"0", "1", "2", "3", "4", "5", "6", "7",
                                       "8", "9">>[v + 1] = c]
IsDigit(c) == c \in DOMAIN DigitValue
IsSpace(c) == c \in {" ", "\t", "\n", "\r", "\f"}

Decimal(ds) == FoldLeft(LAMBDA a, c : 10 * a + DigitValue[c], 0, ds)

LongMax == 2^(LongBits - 1) - 1
LongMin == -(2^(LongBits - 1))
IntMax == 2^(IntBits - 1) - 1

RECURSIVE SkipSpace(_)
SkipSpace(s) == IF s # <<>> /\ IsSpace(Head(s)) THEN SkipSpace(Tail(s)) ELSE s

RECURSIVE LeadDigits(_)
LeadDigits(s) ==
  IF s # <<>> /\ IsDigit(Head(s)) THEN <<Head(s)>> \o LeadDigits(Tail(s)) ELSE <<>>

\* strtol: leading white space, an optional sign, then the longest run of
\* digits.  Without a digit it returns 0 with end at s; out of range it
\* returns LONG_MAX or LONG_MIN with ERANGE.
StrToL(s, einval) ==
  LET b == SkipSpace(s)
      neg == b # <<>> /\ Head(b) = "-"
      u == IF b # <<>> /\ Head(b) \in {"+", "-"} THEN Tail(b) ELSE b
      ds == LeadDigits(u)
      v == IF neg THEN -Decimal(ds) ELSE Decimal(ds)
  IN IF ds = <<>>
       THEN [val |-> 0, rest |-> s, err |-> einval]
       ELSE [val |-> IF v > LongMax THEN LongMax
                     ELSE IF v < LongMin THEN LongMin ELSE v,
             rest |-> SubSeq(u, Len(ds) + 1, Len(u)),
             err |-> v > LongMax \/ v < LongMin]

\* Assigning a long to an int keeps the low IntBits bits (two's complement).
IntOfLong(v) ==
  LET m == v % 2^IntBits IN IF m > IntMax THEN m - 2^IntBits ELSE m

-----------------------------------------------------------------------------
(* The code.                                                               *)

\* match_subdir returning path + namelen also when '/' follows.
MatchSubdirKeepsSlash(p, name) ==
  LET r == Tail(p) IN
  IF p[1] = name /\ (r = <<>> \/ Head(r) = "/")
    THEN [hit |-> TRUE, rest |-> r]
    ELSE [hit |-> FALSE, rest |-> <<>>]

\* match_subdir: the rest of the path after "name" or "name/", or no match.
MatchSubdir(p, name) ==
  LET r == Tail(p) IN
  IF p[1] = name /\ (r = <<>> \/ Head(r) = "/")
    THEN [hit |-> TRUE, rest |-> IF r = <<>> THEN r ELSE Tail(r)]
    ELSE [hit |-> FALSE, rest |-> <<>>]

\* parse_socket_args without the end-of-string check.
ParseSocketArgsNoEnd(s, einval) ==
  LET Sep(r) == r # <<>> /\ Head(r) = "/"
      d == StrToL(s, einval)
      t == StrToL(Tail(d.rest), einval)
      p == StrToL(Tail(t.rest), einval)
  IN IF d.err \/ ~Sep(d.rest) \/ t.err \/ ~Sep(t.rest) \/ p.err
       THEN [ok |-> FALSE]
       ELSE [ok |-> TRUE, domain |-> IntOfLong(d.val), type |-> IntOfLong(t.val),
             protocol |-> IntOfLong(p.val)]

\* parse_socket_args: errno is cleared once; every strtol must leave it 0,
\* and be followed by '/', '/' and the end of the string.
ParseSocketArgs(s, einval) ==
  LET Sep(r) == r # <<>> /\ Head(r) = "/"
      d == StrToL(s, einval)
      t == StrToL(Tail(d.rest), einval)
      p == StrToL(Tail(t.rest), einval)
  IN IF d.err \/ ~Sep(d.rest) \/ t.err \/ ~Sep(t.rest) \/ p.err \/ p.rest # <<>>
       THEN [ok |-> FALSE]
       ELSE [ok |-> TRUE, domain |-> IntOfLong(d.val), type |-> IntOfLong(t.val),
             protocol |-> IntOfLong(p.val)]

\* do_socket up to the backend call: parse, then map the type.
DoSocketRoute(s, einval) ==
  LET a == ParseSocketArgs(s, einval) IN
  IF ~a.ok THEN Outcome("INVALID_ARGS")
  ELSE IF a.type \notin {SOCK_STREAM, SOCK_DGRAM} THEN Outcome("NOT_SUPPORTED")
  ELSE [kind |-> IF a.type = SOCK_STREAM THEN "STREAM" ELSE "DGRAM",
        domain |-> a.domain, type |-> a.type, protocol |-> a.protocol]

Init ==
  /\ path \in Paths
  /\ libcEinval \in BOOLEAN
  /\ outcome = Outcome("pending")

\* do_open: route on the first segment.
DoOpen ==
  /\ outcome.kind = "pending"
  /\ outcome' =
       CASE MatchSubdir(path, "none").hit -> Outcome("none")
         [] MatchSubdir(path, "socket").hit ->
              DoSocketRoute(MatchSubdir(path, "socket").rest, libcEinval)
         [] MatchSubdir(path, "accept").hit -> Outcome("accept")
         [] OTHER -> Outcome("INVALID_ARGS")
  /\ UNCHANGED <<path, libcEinval>>

Spec == Init /\ [][DoOpen]_vars

-----------------------------------------------------------------------------
(* The contract of spec section 4.4 and R3: "socket/" followed by exactly  *)
(* three non-empty decimal integers separated by '/', nothing else.       *)

RECURSIVE Segments(_)
Segments(s) ==
  LET k == SelectInSeq(s, LAMBDA c : c = "/") IN
  IF k = 0 THEN <<s>> ELSE <<SubSeq(s, 1, k - 1)>> \o Segments(SubSeq(s, k + 1, Len(s)))

StrictDecimal(g) == g # <<>> /\ \A k \in DOMAIN g : IsDigit(g[k])

\* The outcome the contract gives a "socket" path.
StrictSocketRoute(s) ==
  LET g == Segments(s) IN
  IF Len(g) # 3 \/ \E k \in 1..Len(g) : ~StrictDecimal(g[k]) \/ Decimal(g[k]) > IntMax
    THEN Outcome("INVALID_ARGS")
  ELSE IF Decimal(g[2]) \notin {SOCK_STREAM, SOCK_DGRAM} THEN Outcome("NOT_SUPPORTED")
  ELSE [kind |-> IF Decimal(g[2]) = SOCK_STREAM THEN "STREAM" ELSE "DGRAM",
        domain |-> Decimal(g[1]), type |-> Decimal(g[2]), protocol |-> Decimal(g[3])]

\* The contract's view of the first segment: "socket", alone or before '/'.
SocketPath == path[1] = "socket" /\ (Len(path) = 1 \/ path[2] = "/")
SocketArgs == SubSeq(path, 3, Len(path))
Routed == outcome.kind # "pending"

(* Every well-formed "socket/D/T/P" path whose numbers fit an int reaches  *)
(* the backend with exactly those numbers and the right handle type,      *)
(* whatever the C library does on an empty number.                          *)
ValidPathAccepted ==
  Routed /\ SocketPath /\ StrictSocketRoute(SocketArgs).kind
                            \in {"STREAM", "DGRAM", "NOT_SUPPORTED"}
    => outcome = StrictSocketRoute(SocketArgs)

(* Garbage is refused: a "socket" path with a character that is neither a *)
(* digit, '/' nor white space, or with more or fewer than three numbers,   *)
(* gets INVALID_ARGS -- through all three strtol calls and the separator   *)
(* and end-of-string checks of parse_socket_args.                           *)
GarbageRejected ==
  Routed /\ SocketPath /\ ("x" \in ToSet(SocketArgs) \/ Len(Segments(SocketArgs)) # 3)
    => outcome.kind = "INVALID_ARGS"

(* R3: a "socket" path is accepted only when it is strictly well formed,   *)
(* and then with its own numbers: no white space, no empty number, no      *)
(* number the int cannot hold.                                             *)
StrictParse ==
  Routed /\ SocketPath => outcome = StrictSocketRoute(SocketArgs)

=============================================================================
