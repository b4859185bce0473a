------------------------------- MODULE UrlCode -------------------------------
(***************************************************************************)
(* useful_func/url_encode_decode.c, whose functions myhttpd.c and          *)
(* myhttpd_daemon.c repeat. A string is the sequence of its chars before   *)
(* the NUL; char is signed, so that a byte above 127 is negative.          *)
(***************************************************************************)
EXTENDS Integers, Sequences

CONSTANTS
  Texts,     \* strings to encode
  Foreign,   \* strings to decode that urlencode did not make
  BURSIZE    \* of the array of the caller and of res

VARIABLES
  url,    \* the array that both work on
  call,   \* "urlencode", "urldecode" or "done"
  text,   \* history: the string at first
  own     \* history: urlencode made the string that is decoded

vars == <<url, call, text, own>>

char == -128 .. 127
Percent == 37

(* '0' is 48, 'A' is 65 and 'a' is 97.                                     *)
hex2dec(c) ==
  CASE c \in 48 .. 57 -> c - 48
    [] c \in 97 .. 102 -> c - 97 + 10
    [] c \in 65 .. 70 -> c - 65 + 10
    [] OTHER -> -1

(* A digit short of the first hexadecimal letter, for mutation.            *)
NarrowDigits(n) == IF n \in 0 .. 9 THEN n + 48 ELSE n + 65 - 11

dec2hex(n) ==
  CASE n \in 0 .. 9 -> n + 48
    [] n \in 10 .. 15 -> n + 65 - 10
    [] OTHER -> -1

(* Digits, letters, '/' and '.'.                                           *)
Plain(c) == c \in (48 .. 57) \union (97 .. 122) \union (65 .. 90) \union {47, 46}

Unsigned(c) == IF c < 0 THEN c + 256 ELSE c

(* An int assigned to a char.                                              *)
Narrowed(n) == IF n % 256 > 127 THEN (n % 256) - 256 ELSE n % 256

Escape(c) ==
  <<Percent, dec2hex(Unsigned(c) \div 16), dec2hex(Unsigned(c) % 16)>>

Unescape(c1, c0) == Narrowed(hex2dec(c1) * 16 + hex2dec(c0))

Encoded(s) ==
  LET res[i \in 0 .. Len(s)] ==
        IF i = 0 THEN <<>>
        ELSE res[i - 1] \o (IF Plain(s[i]) THEN <<s[i]>> ELSE Escape(s[i]))
  IN res[Len(s)]

(* What the loop reads behind the last char is the NUL, and then whatever  *)
(* the array holds.                                                        *)
Decoded(s, beyond) ==
  LET at(i) == IF i <= Len(s) THEN s[i] ELSE IF i = Len(s) + 1 THEN 0 ELSE beyond
      res[i \in 1 .. Len(s) + 3] ==
        IF i > Len(s) THEN <<>>
        ELSE IF s[i] # Percent THEN <<s[i]>> \o res[i + 1]
        ELSE <<Unescape(at(i + 1), at(i + 2))>> \o res[i + 3]
  IN res[1]

(* strcpy stops at the first NUL, which "%00" may have made.               *)
CString(s) ==
  LET nuls == {i \in DOMAIN s : s[i] = 0}
  IN IF nuls = {} THEN s ELSE SubSeq(s, 1, (CHOOSE i \in nuls : \A j \in nuls : i <= j) - 1)

Fits(s) == Len(s) < BURSIZE

-----------------------------------------------------------------------------
Init ==
  /\ own \in BOOLEAN
  /\ text \in IF own THEN Texts ELSE Foreign
  /\ url = text
  /\ call = IF own THEN "urlencode" ELSE "urldecode"

(* The caller has to see that the result fits, or all is undefined.        *)
urlencode ==
  /\ call = "urlencode"
  /\ Fits(Encoded(url))
  /\ url' = CString(Encoded(url))
  /\ call' = "urldecode"
  /\ UNCHANGED <<text, own>>

urldecode ==
  /\ call = "urldecode"
  /\ \E beyond \in {0, 48} : url' = CString(Decoded(url, beyond))
  /\ call' = "done"
  /\ UNCHANGED <<text, own>>

Next == urlencode \/ urldecode

Spec == Init /\ [][Next]_vars
-----------------------------------------------------------------------------
(***************************************************************************)
(* Decoding gives back what was encoded, bytes above 127 and '%' included, *)
(* and in between only '%' and plain chars are sent. What was not encoded  *)
(* gets no longer, and where it has no '%' it stays: "+" is not turned     *)
(* into a space (url_encode_decode.c:9).                                   *)
(***************************************************************************)
RoundTrip ==
  /\ call = "done" =>
       /\ Len(url) <= Len(text)
       /\ own \/ (\A i \in DOMAIN text : text[i] # Percent) => url = text
  /\ own /\ call = "urldecode" => \A i \in DOMAIN url : Plain(url[i]) \/ url[i] = Percent
=============================================================================
