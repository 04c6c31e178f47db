------------------------------ MODULE HttpFraming ------------------------------
(***************************************************************************)
(* Where a request ends in the bytes a connection has received, and what   *)
(* of them is its body: isRequestComplete of server_epoll.cpp and the body *)
(* part of parseHttpRequest of request_handler.cpp.                        *)
(*                                                                         *)
(* A text is a sequence of tokens: a carriage return, a newline, a blank,  *)
(* a digit, a minus, "content-length:" in any case of letters, or any      *)
(* other character. Each but the field name is one byte. A cut inside the  *)
(* name needs no token of its own: no header that ends in it is complete.  *)
(***************************************************************************)
EXTENDS Integers, SequencesExt

CR == "cr"
LF == "lf"
Blank == "blank"
Minus == "-"
Digits == <<"0", "1", "2", "3", "4", "5", "6", "7", "8", "9">>
ContentLength == "content-length:"

CRLF == <<CR, LF>>

(* std::string::find: the first place at or after from, or 0 for npos.     *)
Find(text, part, from) ==
    LET places == {i \in from..(Len(text) - Len(part) + 1) :
                       SubSeq(text, i, i + Len(part) - 1) = part}
    IN IF places = {} THEN 0 ELSE Min(places)

-----------------------------------------------------------------------------
(* std::stoi: blanks, a sign, and as many digits as there are; the rest is *)
(* ignored. The set of what it returns: none if it throws, without a digit *)
(* or when an int is too small (taken to hold as many numbers below zero   *)
(* as above, which is wrong of one).                                       *)
IntMax == 2147483647

LeadingRun(text, kinds) ==
    SubSeq(text, 1, Max({n \in 0..Len(text) : \A i \in 1..n : text[i] \in kinds}))

Append10(n, digit) ==
    LET d == CHOOSE v \in 0..9 : Digits[v + 1] = digit
    IN IF n < 0 \/ n > (IntMax - d) \div 10 THEN -1 ELSE 10 * n + d

Stoi(text) ==
    LET word == SubSeq(text, Len(LeadingRun(text, {Blank})) + 1, Len(text))
        negative == Len(word) > 0 /\ Head(word) = Minus
        digits == LeadingRun(IF negative THEN Tail(word) ELSE word, ToSet(Digits))
        value[n \in 0..Len(digits)] ==
            IF n = 0 THEN 0 ELSE Append10(value[n - 1], digits[n])
        number == value[Len(digits)]
    IN IF digits = <<>> \/ number = -1 THEN {}
       ELSE IF negative THEN {-number} ELSE {number}

(* actualBodyLength >= static_cast<size_t>(contentLength): cast to size_t, *)
(* a negative length is beyond any buffer.                                 *)
LongEnough_Signed(actual, length) == actual >= length  \* compared as int
LongEnough(actual, length) == length >= 0 /\ actual >= length

BodyStart_AtSeparator(headerEnd) == headerEnd  \* without the + 4
BodyStart(headerEnd) == headerEnd + 4

IsRequestComplete(buffer) ==
    LET headerEnd == Find(buffer, CRLF \o CRLF, 1)
        name == Find(buffer, <<ContentLength>>, 1)
        lineEnd == Find(buffer, CRLF, name + 1)
        length == Stoi(SubSeq(buffer, name + 1, lineEnd - 1))
        actual == Len(buffer) - (BodyStart(headerEnd) - 1)
    IN /\ headerEnd # 0
       /\ \/ name = 0 \/ lineEnd = 0
          \/ \A n \in length : LongEnough(actual, n)

-----------------------------------------------------------------------------
(* parseHttpRequest: getline until an empty line, or one that is only a    *)
(* carriage return; the lines after it are the body, without a newline at  *)
(* its end. The first line is the request line.                            *)
EndsHead(text, i) ==
    /\ text[i] = LF
    /\ \/ text[i - 1] = LF
       \/ i > 2 /\ text[i - 1] = CR /\ text[i - 2] = LF

WithoutLastNewline(text) ==
    IF text # <<>> /\ Last(text) = LF THEN Front(text) ELSE text

BodyOf_AfterBlankLine(text) ==  \* the next blank line taken for the end of the head
    LET ends == {i \in 2..Len(text) : EndsHead(text, i)}
    IN IF ends = {} THEN <<>>
       ELSE WithoutLastNewline(SubSeq(text, Max(ends) + 1, Len(text)))

BodyOf(text) ==
    LET ends == {i \in 2..Len(text) : EndsHead(text, i)}
    IN IF ends = {} THEN <<>>
       ELSE WithoutLastNewline(SubSeq(text, Min(ends) + 1, Len(text)))

===============================================================================
