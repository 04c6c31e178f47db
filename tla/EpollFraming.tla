----------------------------- MODULE EpollFraming -----------------------------
(***************************************************************************)
(* EpollServer counts a request in ReqLen segments and hands it over when  *)
(* it has them all. Here the segments are texts again: a request is cut    *)
(* anywhere into ReqLen of them, and isRequestComplete, which sees only    *)
(* what has been received, has to find the same moment.                    *)
(***************************************************************************)
EXTENDS EpollServer, HttpFraming

(* The requests a client may send: a request line, a header of one or two  *)
(* fields or none, and a body that its Content-Length counts.              *)
OtherField == <<"x">> \o CRLF
LengthField(value) == <<ContentLength, Blank>> \o value \o CRLF

HeadWith(fields) == <<"x">> \o CRLF \o fields \o CRLF

Decimal(n) == IF n < 10 THEN <<Digits[n + 1]>> ELSE <<Digits[n \div 10 + 1], Digits[(n % 10) + 1]>>

Around(field) == {field, OtherField \o field, field \o OtherField}

Bodies ==
    {[i \in 1..n |-> "x"] : n \in {0, 1, 2, 11}}
        \cup {<<"x", LF>>, <<"x", LF, "x">>, <<"x">> \o CRLF \o CRLF \o <<"x">>}

WithBody ==
    UNION {{[head |-> HeadWith(f), body |-> b] : f \in Around(LengthField(Decimal(Len(b))))}
               : b \in Bodies}

WithoutBody == {[head |-> HeadWith(f), body |-> <<>>] : f \in {<<>>, OtherField}}

Requests == WithBody \cup WithoutBody

(* Values of Content-Length that name no length: no number, one that is    *)
(* too large for an int, and a negative one.                               *)
Unparsable == {<<"x">>, <<Blank>>, <<Minus>>, [i \in 1..11 |-> "9"]}
Negative == {<<Minus, "1">>, <<Minus, "1", "0">>}

HeadsOf(values) == UNION {{HeadWith(f) : f \in Around(LengthField(v))} : v \in values}

-----------------------------------------------------------------------------
(* How much of a text of length bytes may have come with n of its ReqLen   *)
(* segments, none of which is empty.                                       *)
CutAfter(n, length) ==
    {k \in n..(length - (ReqLen - n)) : /\ n = 0 => k = 0
                                        /\ n = ReqLen => k = length}

(* With n of its segments a request is complete or not, wherever it is cut.*)
FramedRight ==
    [n \in 0..ReqLen |->
        \A r \in Requests : \A k \in CutAfter(n, Len(r.head \o r.body)) :
            IsRequestComplete(SubSeq(r.head \o r.body, 1, k)) <=> RequestComplete(n)]

(* A connection's request is taken for complete when all of it has come    *)
(* and never before, however its bytes are spread over the segments: in    *)
(* the middle of the blank line, of a number, of the body                  *)
(* (server_epoll.cpp:392-429).                                             *)
FramedAsCounted == \A fd \in clients : FramedRight[conn[fd].got]

MalformedRight ==
    [n \in 0..ReqLen |->
        \A rest \in {[i \in 1..m |-> "x"] : m \in 0..2} :
            /\ \A head \in HeadsOf(Unparsable) : \A k \in CutAfter(n, Len(head \o rest)) :
                   IsRequestComplete(SubSeq(head \o rest, 1, k)) <=> k >= Len(head)
            /\ \A head \in HeadsOf(Negative) : \A k \in CutAfter(n, Len(head \o rest)) :
                   ~IsRequestComplete(SubSeq(head \o rest, 1, k))]

(* "Invalid Content-Length, assume the request complete" (server_epoll.cpp *)
(* :421) holds of a value that is no int: the request ends with its head,  *)
(* and what follows is not waited for. After a negative value it never     *)
(* ends, and only the idle cleanup frees the connection.                   *)
MalformedEnds == \A fd \in clients : MalformedRight[conn[fd].got]

BodyRight == \A r \in Requests : BodyOf(r.head \o r.body) = WithoutLastNewline(r.body)

(* From a request that is complete the handler takes the body that was     *)
(* sent: all of it, blank lines in it included, but for one newline at its *)
(* end (request_handler.cpp:342-353).                                      *)
BodyIntact == \A fd \in clients : RequestComplete(conn[fd].got) => BodyRight

===============================================================================
