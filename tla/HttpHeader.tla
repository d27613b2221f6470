----------------------------- MODULE HttpHeader -----------------------------
(***************************************************************************)
(* Framing: HttpRequestHeader and HttpReponseHeader (http/rpc_http_header  *)
(* .cpp) and the OnRecived loops of MessageStream and ConnectStream that   *)
(* drive them (mio/mio_message_stream.cpp, mio/mio_connect_stream.cpp).    *)
(* One side sends messages made by SerializeHeader, the next one after the *)
(* other side has handled the one before; readv cuts them anywhere.        *)
(*                                                                         *)
(* A character is a string of length 1.  "CL" and "CT" stand for           *)
(* Content-Length and Content-Type, "P " for "POST ", a number is a digit. *)
(***************************************************************************)
EXTENDS Integers, Sequences, SequencesExt

CONSTANTS MAX_KEY_LEN, MAX_METHOD_LEN,
          Scripts        \* what is sent: [dir |-> ..., msgs |-> sequence of messages]

(* A message is [junk, path, cl, seq, bad]: characters in front of it, the *)
(* path (of a request), the values of the two numeric fields, and whether  *)
(* it is malformed (a '\r' that no '\n' follows).                          *)

ASSUME HttpAssumption == MAX_KEY_LEN \in Nat /\ MAX_METHOD_LEN \in 2 .. MAX_KEY_LEN - 1

VARIABLES script,
          wire,          \* characters of the message under way, not yet read
          readbuf,       \* characters read and not yet taken
          buffer_size,   \* OnRecived's argument, counted down
          active,        \* OnRecived is running
          state, buf, stale, path, headers,   \* HttpHeader; stale: see MoveBufTo
          key,           \* the local variable of ParserHeader
          handed,        \* what the message handler was given
          failed,        \* HTTP_PARSER_FAIL was reported
          lost           \* a read ended inside the value of a header field

hvars == <<script, wire, readbuf, buffer_size, active, state, buf, stale, path, headers, key,
           handed, failed, lost>>
parsed == <<path, headers>>
outside == <<script, wire, handed>>

Request == script.dir = "request"
Message == script.msgs[Len(handed) + 1]
ContentLengthKey == <<"C", "L">>
SeqKey == <<"S", "e", "q">>
Digits == <<"0", "1", "2", "3", "4">>
Digit(n) == Digits[n + 1]
-----------------------------------------------------------------------------
(* The sender.                                                             *)

Field(k, v) == k \o <<":", " ">> \o v \o <<" ", "\r", "\n">>

\* The fields in the order of their keys, each as "%s: %s \r\n"; SendMessage's
\* Content-Type has a space of its own in front.
Fields(m) ==
  Field(ContentLengthKey, <<Digit(m.cl)>>)
    \o (IF Request THEN <<>> ELSE Field(<<"C", "T">>, <<" ", "t">>))
    \o Field(SeqKey, <<Digit(m.seq)>>)

StartLine(m) ==
  IF Request THEN <<"P", " ">> \o m.path \o <<" ", "V", "\r", "\n">>
             ELSE <<"V", " ", "2", " ", "K", "\r", "\n">>

SerializeHeader(m) ==
  m.junk \o StartLine(m) \o Fields(m) \o <<"\r">> \o (IF m.bad THEN <<"x">> ELSE <<"\n">>)

Body(m) == [k \in 1 .. m.cl |-> "b"]
-----------------------------------------------------------------------------
HInit ==
  /\ script \in Scripts
  /\ wire = SerializeHeader(script.msgs[1]) \o Body(script.msgs[1])
  /\ readbuf = <<>> /\ buffer_size = 0 /\ active = FALSE
  /\ state = "START" /\ buf = <<>> /\ stale = 0 /\ path = <<>> /\ headers = {} /\ key = <<>>
  /\ handed = <<>> /\ failed = FALSE /\ lost = FALSE

\* OnReadable: n characters arrive and OnRecived calls ParserHeader, whose key
\* and value start empty.
Readable(n) ==
  /\ ~active /\ ~failed
  /\ n <= Len(wire)
  /\ readbuf' = readbuf \o SubSeq(wire, 1, n)
  /\ wire' = SubSeq(wire, n + 1, Len(wire))
  /\ buffer_size' = n /\ active' = TRUE /\ key' = <<>>
  /\ UNCHANGED <<script, state, buf, stale, parsed, handed, failed, lost>>
-----------------------------------------------------------------------------
(* ParserHeader, a step per character.                                     *)

\* The test at the top of the request parser's loop; the response's has none.
PendFull == Request /\ Len(buf) >= MAX_KEY_LEN

\* The character the parser looks at, in one of the states s.
Char == Head(readbuf)
Looks(s) == active /\ ~failed /\ state \in s /\ readbuf # <<>> /\ ~PendFull

Advance ==
  /\ readbuf' = Tail(readbuf) /\ buffer_size' = buffer_size - 1
  /\ UNCHANGED <<active, outside, failed, lost>>

\* return HTTP_PARSER_FAIL, before ++begin.
Fail ==
  /\ failed' = TRUE /\ active' = FALSE
  /\ UNCHANGED <<outside, readbuf, buffer_size, state, buf, stale, parsed, key, lost>>

Spaces(n) == IF n > 0 THEN [k \in 1 .. n |-> " "] ELSE <<>>
LeadingSpaces(s) == IF \E k \in DOMAIN s : s[k] # " "
                    THEN (CHOOSE k \in DOMAIN s : s[k] # " " /\ \A j \in 1 .. k - 1 : s[j] = " ") - 1
                    ELSE Len(s)

\* What is in buf: the pending characters, and behind them the spaces of an
\* earlier token that MoveBufTo skipped and did not erase.
Pend == buf \o Spaces(stale - Len(buf))
Token == SubSeq(Pend, LeadingSpaces(Pend) + 1, Len(Pend))

MoveBufTo_Unerased == UNCHANGED <<buf, stale>>

\* MoveBufTo(std::string&) takes the token and erases all but the spaces in
\* front of it.
MoveBufTo == buf' = <<>> /\ stale' = LeadingSpaces(Pend)

Keep == buf' = Append(buf, Char) /\ UNCHANGED <<state, stale, parsed, key>>

\* isMethodFound: the characters so far end with a method; when buf is full
\* only its tail is kept.
EndsWithMethod(s) == Len(s) >= 2 /\ SubSeq(s, Len(s) - 1, Len(s)) = <<"P", " ">>

StartRequest ==
  /\ Request /\ Looks({"START"}) /\ Advance
  /\ LET s == Append(buf, Char)
         kept == IF Len(s) >= MAX_KEY_LEN THEN SubSeq(s, Len(s) - MAX_METHOD_LEN + 1, Len(s)) ELSE s
     IN IF EndsWithMethod(s)
        THEN state' = "PATH" /\ buf' = <<>> /\ stale' = LeadingSpaces(kept)
        ELSE buf' = kept /\ UNCHANGED <<state, stale>>
  /\ UNCHANGED <<parsed, key>>

\* Version and status of a response: up to a space each; the status is parsed
\* as a number and buf erased from its beginning.
StartResponse ==
  /\ ~Request /\ Looks({"START"}) /\ Advance
  /\ IF Char = " " THEN state' = "STATUS" /\ MoveBufTo /\ UNCHANGED <<parsed, key>> ELSE Keep

Status ==
  /\ Looks({"STATUS"}) /\ Advance
  /\ IF Char = " " THEN state' = "LINE_R" /\ buf' = <<>> /\ stale' = 0 /\ UNCHANGED <<parsed, key>>
     ELSE Keep

Path ==
  /\ Looks({"PATH"}) /\ ~(Char = " " /\ Token = <<>>) /\ Advance
  /\ IF Char = " "
     THEN path' = path \o Token /\ MoveBufTo /\ state' = "LINE_R" /\ UNCHANGED <<headers, key>>
     ELSE Keep

\* The version of a request, the status message of a response.
LineR ==
  /\ Looks({"LINE_R"}) /\ Advance
  /\ IF Char = "\r" THEN state' = "LINE_N" /\ MoveBufTo /\ UNCHANGED <<parsed, key>> ELSE Keep

Key ==
  /\ Looks({"KEY"}) /\ ~(Request /\ Char = ":" /\ Token = <<>>) /\ Advance
  /\ \/ Char = ":" /\ state' = "VALUE_R" /\ key' = key \o Token /\ MoveBufTo /\ UNCHANGED parsed
     \/ Char = "\r" /\ state' = "END_R" /\ UNCHANGED <<buf, stale, parsed, key>>
     \/ Char \notin {":", "\r"} /\ Keep

ValueR ==
  /\ Looks({"VALUE_R"}) /\ Advance
  /\ IF Char = "\r"
     THEN /\ headers' = {f \in headers : f[1] # key} \cup {<<key, Token>>}
          /\ key' = <<>> /\ MoveBufTo /\ state' = "VALUE_N" /\ UNCHANGED path
     ELSE Keep

AfterLineFeed_Key(s) == "KEY"

AfterLineFeed(s) == IF s = "END_R" THEN "END" ELSE "KEY"

LineFeed ==
  /\ Looks({"LINE_N", "VALUE_N", "END_R"})
  /\ Char = "\n" /\ Advance
  /\ state' = AfterLineFeed(state)
  /\ UNCHANGED <<buf, stale, parsed, key>>

\* An over-long token, an empty path or key, or no '\n' after a '\r'.
ParserFails ==
  /\ active /\ ~failed /\ readbuf # <<>> /\ state # "END"
  /\ \/ PendFull
     \/ state = "PATH" /\ Char = " " /\ Token = <<>>
     \/ Request /\ state = "KEY" /\ Char = ":" /\ Token = <<>>
     \/ state \in {"LINE_N", "VALUE_N", "END_R"} /\ Char # "\n"
  /\ Fail

\* HTTP_PASER_HALF: OnRecived returns, and with it goes ParserHeader's key.
Half ==
  /\ active /\ state # "END" /\ readbuf = <<>>
  /\ active' = FALSE /\ key' = <<>>
  /\ lost' = (lost \/ state = "VALUE_R")
  /\ UNCHANGED <<outside, readbuf, buffer_size, state, buf, stale, parsed, failed>>
-----------------------------------------------------------------------------
(* OnRecived once the header is complete.                                  *)

Lookup(k, none) ==
  IF \E f \in headers : f[1] = k
  THEN LET v == (CHOOSE f \in headers : f[1] = k)[2]
       IN IF v # <<>> /\ Head(v) \in Range(Digits) THEN (CHOOSE n \in 0 .. 4 : Digit(n) = Head(v)) ELSE 0
  ELSE none

GetContentLength == Lookup(ContentLengthKey, 0)
GetSeq == Lookup(SeqKey, -1)

\* body_size: what lies between bodyStart and writepos.
BodyComplete == GetContentLength <= Len(readbuf)

NeedMore ==
  /\ active /\ state = "END" /\ ~BodyComplete
  /\ active' = FALSE
  /\ UNCHANGED <<outside, readbuf, buffer_size, state, buf, stale, parsed, key, failed, lost>>

\* A server's handler reads the body unless the list of services was asked
\* for, a client's unless it is empty; protobuf then takes all there is.
Consumes == IF Request THEN Len(path) > 1 ELSE GetContentLength > 0

Taken == IF Consumes THEN Len(readbuf) ELSE 0

\* The handler runs and both Resets follow; the loop goes on while characters
\* of this read are left.  The peer then sends its next message.
HandleMessage ==
  /\ active /\ state = "END" /\ BodyComplete
  /\ handed' = Append(handed, [cl |-> GetContentLength, seq |-> GetSeq, path |-> path,
                               body |-> SubSeq(readbuf, 1, Taken)])
  /\ readbuf' = SubSeq(readbuf, Taken + 1, Len(readbuf))
  /\ state' = "START" /\ buf' = <<>> /\ stale' = 0 /\ path' = <<>> /\ headers' = {} /\ key' = <<>>
  /\ buffer_size' = buffer_size - Taken
  /\ active' = (buffer_size - Taken > 0)
  /\ wire' = IF Len(handed) + 1 < Len(script.msgs)
             THEN wire \o SerializeHeader(script.msgs[Len(handed) + 2]) \o Body(script.msgs[Len(handed) + 2])
             ELSE wire
  /\ UNCHANGED <<script, failed, lost>>
-----------------------------------------------------------------------------
HNext == \/ \E n \in 1 .. Len(wire) : Readable(n)
         \/ StartRequest \/ StartResponse \/ Status \/ Path \/ LineR
         \/ Key \/ ValueR \/ LineFeed \/ ParserFails \/ Half
         \/ NeedMore \/ HandleMessage

HSpec == HInit /\ [][HNext]_hvars

\* OnRecived runs to its end, and what was sent is received.
HFairness == WF_hvars(HNext)
-----------------------------------------------------------------------------
(* Properties.                                                             *)

\* The types of the parser's state; the request parser keeps at most MAX_KEY_LEN
\* characters.
HTypeOK ==
  /\ state \in {"START", "STATUS", "PATH", "LINE_R", "LINE_N", "KEY", "VALUE_R", "VALUE_N", "END_R", "END"}
  /\ Request => Len(buf) <= MAX_KEY_LEN
  /\ stale \in Nat
  /\ active \in BOOLEAN /\ failed \in BOOLEAN /\ lost \in BOOLEAN

\* A message the project's own SerializeHeader made reaches the handler whole
\* and as it was sent, in whatever pieces it arrived, behind whatever the
\* parser has to skip, and after messages whose body no handler read: same
\* Content-Length and Seq, same path, all of the body and nothing else.  The
\* exception is a read that ended inside a field's value, because the field's
\* key is a local variable of ParserHeader.
HandedIsSent ==
  lost \/ \A i \in DOMAIN handed :
            LET m == script.msgs[i]
            IN /\ handed[i].cl = m.cl /\ handed[i].seq = m.seq
               /\ handed[i].path = (IF Request THEN m.path ELSE <<>>)
               /\ handed[i].body \in {<<>>, Body(m)}
               /\ handed[i].body = <<>> => (m.cl = 0 \/ (Request /\ Len(m.path) <= 1))

\* The parser gives up only on a malformed message.
FailsOnlyOnBad == failed /\ ~lost => Message.bad \/ Len(Message.path) >= MAX_KEY_LEN

\* The parser never takes a message for another, nor a good one for a bad one.
ParsedIsSent == HTypeOK /\ HandedIsSent /\ FailsOnlyOnBad

\* Once bytes arrive, every message is handled in the end; a malformed one, or
\* one in which a key was lost, may end the conversation.
AllHanded == active ~> (failed \/ lost \/ Len(handed) = Len(script.msgs))
=============================================================================
