----------------------------- MODULE HttpParser -----------------------------
(***************************************************************************)
(* http_parser.c and the callbacks of http_process.c that keep what it     *)
(* finds.  TCP hands a message to http_parser_execute in segments that end *)
(* anywhere: the parser carries its state, and a token that is cut is      *)
(* reported in pieces.                                                     *)
(*                                                                         *)
(* Bytes are symbols.  A word the parser compares letter by letter (a      *)
(* method, a header's name, a value it knows) is two symbols, so that it   *)
(* can be cut, and can go wrong in the middle.                             *)
(***************************************************************************)
EXTENDS Integers, Sequences, FiniteSets, SequencesExt

CONSTANTS
    Streams,      \* sequences of messages that a peer may send
    SavedKeys,    \* the header names that rules ask for, in order
    MAX_HEADERS   \* how many conn->headers holds

VARIABLES
    parser,       \* struct http_parser
    stream,       \* what the peer sends ...
    unread,       \* ... and the symbols of it that have not come yet
    conn,         \* url, saved headers and body of the http_connection
    announced,        \* the callbacks so far, symbol by symbol
    cuts,         \* bound: segments that may still end before the stream does
    torn          \* a segment has ended in a url, a header's name or its value

parserVars == <<parser, stream, unread, conn, announced, cuts, torn>>

NULL_STRING == <<"NULL">>

Methods == {<<"G", "ET">>, <<"P", "OST">>, <<"P", "UT">>}
Digits == <<"0", "1", "2", "3", "4">>
IS_NUM(ch) == Contains(Digits, ch)
Digit(ch) == (CHOOSE k \in DOMAIN Digits : Digits[k] = ch) - 1
Blank(ch) == ch = "SP"
IS_ALPHA(ch) == ch \in {"a", "h"}
IS_HOST_CHAR(ch) == IS_ALPHA(ch) \/ IS_NUM(ch) \/ ch = "."
IS_USERINFO_CHAR(ch) == IS_HOST_CHAR(ch) \/ ch = ":"
IS_URL_CHAR(ch) == IS_USERINFO_CHAR(ch) \/ ch \in {"/", "*", "@", "[", "]"}
TOKEN(ch) == ch \notin {"CR", "LF", ":", ";", "/", "?", "@", "[", "]", ","}

ULLONG_MAX == -1

http_parser_init(type) ==
    [type |-> type, state |-> IF type = "REQUEST" THEN "s_start_req" ELSE "s_start_res",
     header_state |-> "h_general", flags |-> {}, index |-> 0, method |-> "NULL",
     content_length |-> 0, status_code |-> 0, upgrade |-> FALSE, http_errno |-> FALSE]

-----------------------------------------------------------------------------
(* A call of http_parser_execute is a record: the parser, the data, the    *)
(* position in it, the mark (at most one is set), the callbacks made.      *)

NoMark == [for |-> "none", at |-> 0]

UPDATE_STATE(x, s) == [x EXCEPT !.parser.state = s]
SET_ERRNO(x) == [x EXCEPT !.parser.http_errno = TRUE]
MARK(x, for) == IF x.mark = NoMark THEN [x EXCEPT !.mark = [for |-> for, at |-> x.p]] ELSE x

CALLBACK_NOTIFY(x, for) == [x EXCEPT !.calls = Append(@, [on |-> for, data |-> <<>>])]

\* With the bytes from the mark up to, not including, p.
CALLBACK_DATA(x, for, p) ==
    IF x.mark.for # for THEN x
    ELSE [x EXCEPT !.calls = Append(@, [on |-> for, data |-> SubSeq(x.data, x.mark.at, p - 1)]),
                   !.mark = NoMark]

start_state(x) == IF x.parser.type = "REQUEST" THEN "s_start_req" ELSE "s_start_res"
Complete(x) == CALLBACK_NOTIFY(UPDATE_STATE(x, start_state(x)), "message_complete")

-----------------------------------------------------------------------------
(* The first line.                                                         *)

Reset(x) == [x EXCEPT !.parser.flags = {}, !.parser.content_length = ULLONG_MAX]

\* The first letter chooses a method, the next ones may change it.
OnStartReq(x, ch) ==
    CASE ch \in {"CR", "LF"} -> x
      [] \E m \in Methods : m[1] = ch ->
           CALLBACK_NOTIFY(UPDATE_STATE([Reset(x) EXCEPT !.parser.method = ch, !.parser.index = 1],
                                        "s_req_method"), "message_begin")
      [] OTHER -> SET_ERRNO(Reset(x))

OnMethod(x, ch) ==
    CASE x.parser.index = 2 /\ ch = "SP" -> UPDATE_STATE(x, "s_req_spaces_before_url")
      [] x.parser.index = 1 /\ <<x.parser.method, ch>> \in Methods -> [x EXCEPT !.parser.index = 2]
      [] OTHER -> SET_ERRNO(x)

Server == {"s_req_server_start", "s_req_server", "s_req_server_with_at"}
Query == {"s_req_query_string_start", "s_req_query_string"}
Fragment == {"s_req_fragment_start", "s_req_fragment"}

\* Spaces and line ends never get here.
parse_url_char(s, ch) ==
    CASE s = "s_req_spaces_before_url" /\ ch \in {"/", "*"} -> "s_req_path"
      [] s \in {"s_req_spaces_before_url", "s_req_schema"} /\ IS_ALPHA(ch) -> "s_req_schema"
      [] s = "s_req_schema" /\ ch = ":" -> "s_req_schema_slash"
      [] s = "s_req_schema_slash" /\ ch = "/" -> "s_req_schema_slash_slash"
      [] s = "s_req_schema_slash_slash" /\ ch = "/" -> "s_req_server_start"
      [] s \in Server /\ ch = "/" -> "s_req_path"
      [] s \in Server \cup {"s_req_path"} /\ ch = "?" -> "s_req_query_string_start"
      [] s \in Server \ {"s_req_server_with_at"} /\ ch = "@" -> "s_req_server_with_at"
      [] s \in Server /\ (IS_USERINFO_CHAR(ch) \/ ch \in {"[", "]"}) -> "s_req_server"
      [] s = "s_req_path" /\ IS_URL_CHAR(ch) -> "s_req_path"
      [] s \in Query /\ (IS_URL_CHAR(ch) \/ ch = "?") -> "s_req_query_string"
      [] s \in Query \cup {"s_req_path", "s_req_fragment_start"} /\ ch = "#" -> "s_req_fragment_start"
      [] s \in Fragment /\ (IS_URL_CHAR(ch) \/ ch = "?") -> "s_req_fragment"
      [] s = "s_req_fragment" /\ ch = "#" -> "s_req_fragment"
      [] OTHER -> "s_dead"

InUrl == {"s_req_schema", "s_req_schema_slash", "s_req_schema_slash_slash", "s_req_path"}
           \cup Server \cup Query \cup Fragment

UrlChar(x, ch) ==
    LET y == UPDATE_STATE(x, parse_url_char(x.parser.state, ch))
    IN  IF y.parser.state = "s_dead" THEN SET_ERRNO(y) ELSE y

OnSpacesBeforeUrl(x, ch) == IF ch = "SP" THEN x ELSE UrlChar(MARK(x, "url"), ch)

\* A line end behind the url is HTTP/0.9.
OnUrl(x, ch) ==
    IF ch \notin {"SP", "CR", "LF"} THEN UrlChar(x, ch)
    ELSE IF x.parser.state \in {"s_req_schema", "s_req_schema_slash", "s_req_schema_slash_slash",
                                "s_req_server_start"} THEN SET_ERRNO(x)
    ELSE CALLBACK_DATA(UPDATE_STATE(x, CASE ch = "SP" -> "s_req_http_start"
                                         [] ch = "CR" -> "s_req_line_almost_done"
                                         [] ch = "LF" -> "s_header_field_start"), "url", x.p)

\* "HTTP/" is one symbol, and a version is digits, the first one not 0 in a request, a
\* dot and digits.  (A part beyond 999 is refused.)
OnVersion(x, ch) ==
    LET s == x.parser.state
    IN  CASE s = "s_req_http_start" /\ ch = "SP" -> x
          [] s \in {"s_req_http_start", "s_res_H"} /\ ch = "HTTP/" -> UPDATE_STATE(x, "s_first_http_major")
          [] s = "s_first_http_major" /\ IS_NUM(ch) /\ (ch = "0" => x.parser.type = "RESPONSE") ->
               UPDATE_STATE(x, "s_http_major")
          [] s = "s_http_major" /\ IS_NUM(ch) -> x
          [] s = "s_http_major" /\ ch = "." -> UPDATE_STATE(x, "s_first_http_minor")
          [] s \in {"s_first_http_minor", "s_http_minor"} /\ IS_NUM(ch) -> UPDATE_STATE(x, "s_http_minor")
          [] s = "s_http_minor" /\ ch = "CR" /\ x.parser.type = "REQUEST" ->
               UPDATE_STATE(x, "s_req_line_almost_done")
          [] s = "s_http_minor" /\ ch = "LF" /\ x.parser.type = "REQUEST" ->
               UPDATE_STATE(x, "s_header_field_start")
          [] s = "s_http_minor" /\ ch = "SP" /\ x.parser.type = "RESPONSE" ->
               UPDATE_STATE(x, "s_res_first_status_code")
          [] OTHER -> SET_ERRNO(x)

Version == {"s_req_http_start", "s_first_http_major", "s_http_major", "s_first_http_minor", "s_http_minor"}

OnLineAlmostDone(x, ch) ==
    IF x.parser.type = "REQUEST" /\ ch # "LF" THEN SET_ERRNO(x) ELSE UPDATE_STATE(x, "s_header_field_start")

\* Even an empty line before the status is the beginning of a message.
OnStartRes(x, ch) ==
    CASE ch = "HTTP/" -> CALLBACK_NOTIFY(OnVersion(UPDATE_STATE(Reset(x), "s_res_H"), ch), "message_begin")
      [] ch \in {"CR", "LF"} -> CALLBACK_NOTIFY(Reset(x), "message_begin")
      [] OTHER -> SET_ERRNO(Reset(x))

StatusEnd(x, ch) ==
    UPDATE_STATE(x, IF ch = "CR" THEN "s_req_line_almost_done" ELSE "s_header_field_start")

OnStatus(x, ch) ==
    LET s == x.parser.state
    IN  CASE s = "s_res_first_status_code" /\ ch = "SP" -> x
          [] s = "s_res_first_status_code" /\ IS_NUM(ch) ->
               UPDATE_STATE([x EXCEPT !.parser.status_code = Digit(ch)], "s_res_status_code")
          [] s = "s_res_status_code" /\ IS_NUM(ch) ->
               LET code == 10 * x.parser.status_code + Digit(ch)
               IN  IF code > 999 THEN SET_ERRNO(x) ELSE [x EXCEPT !.parser.status_code = code]
          [] s = "s_res_status_code" /\ ch = "SP" -> UPDATE_STATE(x, "s_res_status_start")
          [] s \in {"s_res_status_code", "s_res_status_start"} /\ ch \in {"CR", "LF"} -> StatusEnd(x, ch)
          [] s = "s_res_status_start" /\ ch \notin {"CR", "LF"} -> UPDATE_STATE(MARK(x, "status"), "s_res_status")
          [] s = "s_res_status" -> IF ch \in {"CR", "LF"} THEN CALLBACK_DATA(StatusEnd(x, ch), "status", x.p) ELSE x
          [] OTHER -> SET_ERRNO(x)
-----------------------------------------------------------------------------
(* The headers.  A name or a value that the parser knows is matched half   *)
(* by half.                                                                *)

KnownNames ==
    {[word |-> <<"content-", "length">>,    matching |-> "h_matching_content_length",    found |-> "h_content_length"],
     [word |-> <<"transfer-", "encoding">>, matching |-> "h_matching_transfer_encoding", found |-> "h_transfer_encoding"],
     [word |-> <<"connec", "tion">>,        matching |-> "h_matching_connection",        found |-> "h_connection"],
     [word |-> <<"proxy-", "connection">>,  matching |-> "h_matching_proxy_connection",  found |-> "h_connection"],
     [word |-> <<"up", "grade">>,           matching |-> "h_matching_upgrade",           found |-> "h_upgrade"]}

KnownTokens ==
    {[word |-> <<"keep-", "alive">>, matching |-> "h_matching_connection_keep_alive", found |-> "h_connection_keep_alive"],
     [word |-> <<"clo", "se">>,      matching |-> "h_matching_connection_close",      found |-> "h_connection_close"],
     [word |-> <<"up", "grade">>,    matching |-> "h_matching_connection_upgrade",    found |-> "h_connection_upgrade"]}

\* The state after the first half of a word, and after the second.
Begins(known, ch, other) ==
    IF \E w \in known : w.word[1] = ch THEN (CHOOSE w \in known : w.word[1] = ch).matching ELSE other
Ends(known, h, ch, other) ==
    LET w == CHOOSE v \in known : v.matching = h
    IN  IF ch = w.word[2] THEN w.found ELSE other

IsMatching(known, h) == \E w \in known : w.matching = h
IsFound(known, h) == \E w \in known : w.found = h

SetHeaderState(x, h) == [x EXCEPT !.parser.header_state = h]

NameGoesOn(h, ch) ==
    CASE IsMatching(KnownNames, h) -> Ends(KnownNames, h, ch, "h_general")
      [] IsFound(KnownNames, h) /\ ch = "SP" -> h
      [] OTHER -> "h_general"

OnHeaderField(x, ch) ==
    CASE TOKEN(ch) -> SetHeaderState(x, NameGoesOn(x.parser.header_state, ch))
      [] ch = ":" -> CALLBACK_DATA(UPDATE_STATE(x, "s_header_value_discard_ws"), "header_field", x.p)
      [] OTHER -> SET_ERRNO(x)

OnHeaderValueStart(x0, ch) ==
    LET x == UPDATE_STATE(MARK(x0, "header_value"), "s_header_value")
        h == x.parser.header_state
    IN  CASE h = "h_upgrade" -> SetHeaderState([x EXCEPT !.parser.flags = @ \cup {"F_UPGRADE"}], "h_general")
          [] h = "h_transfer_encoding" ->
               SetHeaderState(x, IF ch = "chun" THEN "h_matching_transfer_encoding_chunked" ELSE "h_general")
          [] h = "h_content_length" ->
               IF IS_NUM(ch) THEN [x EXCEPT !.parser.content_length = Digit(ch)] ELSE SET_ERRNO(x)
          [] h = "h_connection" -> SetHeaderState(x, Begins(KnownTokens, ch, "h_matching_connection_token"))
          [] h = "h_matching_connection_token_start" -> x
          [] OTHER -> SetHeaderState(x, "h_general")

\* The flag that a value found stands for.
ValueFlag(h) ==
    CASE h = "h_connection_keep_alive" -> {"F_CONNECTION_KEEP_ALIVE"}
      [] h = "h_connection_close" -> {"F_CONNECTION_CLOSE"}
      [] h = "h_connection_upgrade" -> {"F_CONNECTION_UPGRADE"}
      [] h = "h_transfer_encoding_chunked" -> {"F_CHUNKED"}
      [] OTHER -> {}
AddFlag(x) == [x EXCEPT !.parser.flags = @ \cup ValueFlag(x.parser.header_state)]

ValueGoesOn(x, ch) ==
    LET h == x.parser.header_state
        token == "h_matching_connection_token"
    IN  CASE h = "h_content_length" ->
               CASE ch = "SP" -> x
                 [] IS_NUM(ch) -> [x EXCEPT !.parser.content_length = 10 * @ + Digit(ch)]
                 [] OTHER -> SET_ERRNO(x)
          [] h = "h_matching_transfer_encoding_chunked" ->
               SetHeaderState(x, IF ch = "ked" THEN "h_transfer_encoding_chunked" ELSE "h_general")
          [] h = "h_transfer_encoding_chunked" -> IF ch = "SP" THEN x ELSE SetHeaderState(x, "h_general")
          [] h = "h_matching_connection_token_start" ->
               CASE ch = "SP" -> x
                 [] ch # "SP" /\ TOKEN(ch) -> SetHeaderState(x, Begins(KnownTokens, ch, token))
                 [] OTHER -> SetHeaderState(x, "h_general")
          [] IsMatching(KnownTokens, h) -> SetHeaderState(x, Ends(KnownTokens, h, ch, token))
          [] h = token \/ IsFound(KnownTokens, h) ->
               CASE ch = "," -> SetHeaderState(AddFlag(x), "h_matching_connection_token_start")
                 [] h = token \/ ch = "SP" -> x
                 [] OTHER -> SetHeaderState(x, token)
          [] OTHER -> SetHeaderState(x, "h_general")

-----------------------------------------------------------------------------
(* Behind the headers.                                                     *)

http_message_needs_eof(q) ==
    /\ q.type = "RESPONSE"
    /\ q.status_code \div 100 # 1 /\ q.status_code \notin {204, 304}
    /\ "F_CHUNKED" \notin q.flags /\ q.content_length = ULLONG_MAX

\* What comes before the line end behind the headers has been looked at.
OnHeadersDone(x) ==
    LET q == x.parser
    IN  CASE q.upgrade -> [Complete(x) EXCEPT !.over = TRUE]
          [] ~q.upgrade /\ "F_CHUNKED" \in q.flags -> UPDATE_STATE(x, "s_chunk_size_start")
          [] OTHER -> CASE q.content_length = 0 -> Complete(x)
                        [] q.content_length > 0 -> UPDATE_STATE(x, "s_body_identity")
                        [] q.content_length = ULLONG_MAX ->
                             IF http_message_needs_eof(q) THEN UPDATE_STATE(x, "s_body_identity_eof") ELSE Complete(x)

\* on_headers_complete of http_process.c ends without a return; what its
\* last call leaves in the register is 0.
OnHeadersAlmostDone(x) ==
    IF "F_TRAILING" \in x.parser.flags THEN Complete(x)
    ELSE LET up == {"F_UPGRADE", "F_CONNECTION_UPGRADE"} \subseteq x.parser.flags
         IN  OnHeadersDone(CALLBACK_NOTIFY([UPDATE_STATE(x, "s_headers_done") EXCEPT !.parser.upgrade = up],
                                           "headers_complete"))

OnHeaderFieldStart(x, ch) ==
    CASE ch = "CR" -> UPDATE_STATE(x, "s_headers_almost_done")
      [] ch = "LF" -> OnHeadersAlmostDone(x)
      [] ch # "CR" /\ ch # "LF" /\ TOKEN(ch) ->
           SetHeaderState(UPDATE_STATE(MARK(x, "header_field"), "s_header_field"), Begins(KnownNames, ch, "h_general"))
      [] OTHER -> SET_ERRNO(x)

OnHeaderValue(x, ch) ==
    CASE ch = "CR" -> CALLBACK_DATA(UPDATE_STATE(x, "s_header_almost_done"), "header_value", x.p)
      [] ch = "LF" -> CALLBACK_DATA(UPDATE_STATE(x, "s_header_value_lws"), "header_value", x.p)
      [] OTHER -> ValueGoesOn(x, ch)

\* A line that begins with a space goes on with the value before it.
OnValueLws(x, ch) ==
    IF ch = "SP" THEN OnHeaderValueStart(x, ch)
    ELSE OnHeaderFieldStart(UPDATE_STATE(AddFlag(x), "s_header_field_start"), ch)

OnDiscardWs(x, ch) ==
    CASE ch = "SP" -> x
      [] ch = "CR" -> UPDATE_STATE(x, "s_header_value_discard_ws_almost_done")
      [] ch = "LF" -> UPDATE_STATE(x, "s_header_value_discard_lws")
      [] OTHER -> OnHeaderValueStart(x, ch)

\* The value is empty: a callback with no bytes.
OnDiscardLws(x, ch) ==
    IF ch = "SP" THEN UPDATE_STATE(x, "s_header_value_discard_ws")
    ELSE OnHeaderFieldStart(CALLBACK_DATA(UPDATE_STATE(MARK(AddFlag(x), "header_value"), "s_header_field_start"),
                                          "header_value", x.p), ch)

\* One byte of a body; the code takes all that are there at once.
OnBodyIdentity(x0) ==
    LET x == [MARK(x0, "body") EXCEPT !.parser.content_length = @ - 1]
    IN  IF x.parser.content_length > 0 THEN x ELSE Complete(CALLBACK_DATA(x, "body", x.p + 1))

OnChunkData(x0) ==
    LET x == [MARK(x0, "body") EXCEPT !.parser.content_length = @ - 1]
    IN  IF x.parser.content_length > 0 THEN x ELSE UPDATE_STATE(x, "s_chunk_data_almost_done")

OnChunkSize(x, ch) ==
    LET s == x.parser.state
    IN  CASE s = "s_chunk_size_start" /\ IS_NUM(ch) ->
               UPDATE_STATE([x EXCEPT !.parser.content_length = Digit(ch)], "s_chunk_size")
          [] s = "s_chunk_size" /\ IS_NUM(ch) -> [x EXCEPT !.parser.content_length = 16 * @ + Digit(ch)]
          [] s \in {"s_chunk_size", "s_chunk_parameters"} /\ ch = "CR" -> UPDATE_STATE(x, "s_chunk_size_almost_done")
          [] s = "s_chunk_size" /\ ch \in {";", "SP"} -> UPDATE_STATE(x, "s_chunk_parameters")
          [] s = "s_chunk_parameters" /\ ch # "CR" -> x
          [] OTHER -> SET_ERRNO(x)

OnChunkSizeAlmostDone(x) ==
    IF x.parser.content_length = 0
      THEN UPDATE_STATE([x EXCEPT !.parser.flags = @ \cup {"F_TRAILING"}], "s_header_field_start")
      ELSE UPDATE_STATE(x, "s_chunk_data")
-----------------------------------------------------------------------------
(* http_parser_execute.                                                    *)

\* The loop's body.  The line end that ends the headers is not looked at.
OnByte(x, ch) ==
    LET s == x.parser.state
    IN  CASE s = "s_start_req" -> OnStartReq(x, ch)
          [] s = "s_req_method" -> OnMethod(x, ch)
          [] s = "s_req_spaces_before_url" -> OnSpacesBeforeUrl(x, ch)
          [] s \in InUrl -> OnUrl(x, ch)
          [] s \in Version -> OnVersion(x, ch)
          [] s = "s_req_line_almost_done" -> OnLineAlmostDone(x, ch)
          [] s = "s_start_res" -> OnStartRes(x, ch)
          [] s \in {"s_res_first_status_code", "s_res_status_code", "s_res_status_start", "s_res_status"} ->
               OnStatus(x, ch)
          [] s = "s_header_field_start" -> OnHeaderFieldStart(x, ch)
          [] s = "s_header_field" -> OnHeaderField(x, ch)
          [] s = "s_header_value_discard_ws" -> OnDiscardWs(x, ch)
          [] s = "s_header_value_discard_ws_almost_done" -> UPDATE_STATE(x, "s_header_value_discard_lws")
          [] s = "s_header_value_discard_lws" -> OnDiscardLws(x, ch)
          [] s = "s_header_value" -> OnHeaderValue(x, ch)
          [] s = "s_header_almost_done" -> UPDATE_STATE(x, "s_header_value_lws")
          [] s = "s_header_value_lws" -> OnValueLws(x, ch)
          [] s = "s_headers_almost_done" -> OnHeadersAlmostDone(x)
          [] s = "s_body_identity" -> OnBodyIdentity(x)
          [] s = "s_body_identity_eof" -> MARK(x, "body")
          [] s \in {"s_chunk_size_start", "s_chunk_size", "s_chunk_parameters"} -> OnChunkSize(x, ch)
          [] s = "s_chunk_size_almost_done" -> OnChunkSizeAlmostDone(x)
          [] s = "s_chunk_data" -> OnChunkData(x)
          [] s = "s_chunk_data_almost_done" -> CALLBACK_DATA(UPDATE_STATE(x, "s_chunk_data_done"), "body", x.p)
          [] s = "s_chunk_data_done" -> UPDATE_STATE(x, "s_chunk_size_start")

\* A token that began in an earlier segment goes on at this one's first byte.
MarkAtStart(s) ==
    CASE s = "s_header_field" -> [for |-> "header_field", at |-> 1]
      [] s = "s_header_value" -> [for |-> "header_value", at |-> 1]
      [] s \in InUrl -> [for |-> "url", at |-> 1]
      [] s = "s_res_status" -> [for |-> "status", at |-> 1]
      [] OTHER -> NoMark

Stopped(x) == x.parser.http_errno \/ x.over

\* Mutant: a token cut by the segment's end is forgotten.
Mut_Leftover(x) == x

\* What is marked when the bytes run out is reported.
Leftover(x) == IF Stopped(x) \/ x.mark = NoMark THEN x ELSE CALLBACK_DATA(x, x.mark.for, x.p)

http_parser_execute(q, data) ==
    LET start == [parser |-> q, data |-> data, p |-> 1, mark |-> MarkAtStart(q.state), calls |-> << >>, over |-> FALSE]
        Take(x, ch) == IF Stopped(x) THEN x ELSE [OnByte(x, ch) EXCEPT !.p = @ + 1]
        after[n \in 0 .. Len(data)] == IF n = 0 THEN start ELSE Take(after[n - 1], data[n])
    IN  IF q.http_errno THEN start ELSE Leftover(after[Len(data)])

\* The call with no bytes, when a server has hung up.
ExecuteEof(q) ==
    LET start == [parser |-> q, data |-> << >>, p |-> 1, mark |-> NoMark, calls |-> << >>, over |-> FALSE]
    IN  CASE q.http_errno \/ q.state = start_state(start) -> start
          [] ~q.http_errno /\ q.state = "s_body_identity_eof" -> CALLBACK_NOTIFY(start, "message_complete")
          [] OTHER -> SET_ERRNO(start)

-----------------------------------------------------------------------------
(* The callbacks of http_process.c.  What they keep is read by the rules:  *)
(* "seen" is what the connection holds when a message is complete.         *)

NewConn(type) ==
    [url |-> NULL_STRING, headers |-> << >>, saveBody |-> type = "RESPONSE", data |-> NULL_STRING, len |-> 0,
     freed |-> FALSE, freedTwice |-> FALSE, seen |-> << >>, open |-> TRUE]

\* os_free(conn->body.data)
FreeBody(c) == [c EXCEPT !.freedTwice = @ \/ c.freed, !.freed = TRUE]

http_set_save_header(c, key) ==
    IF Len(c.headers) = MAX_HEADERS THEN c
    ELSE [c EXCEPT !.headers = Append(@, [key |-> key, save |-> FALSE, value |-> NULL_STRING])]

http_set_save_body(c) ==
    LET d == IF c.data = NULL_STRING THEN c ELSE [FreeBody(c) EXCEPT !.data = NULL_STRING, !.freed = FALSE]
    IN  [d EXCEPT !.saveBody = TRUE]

\* Rules ask for headers and body as they see the url, the first request's:
\* after an answer http_server_cgi_execute runs none.
on_url(c, data) ==
    LET d == [c EXCEPT !.url = data]
    IN  IF c.seen # << >> THEN d ELSE http_set_save_body(FoldLeft(http_set_save_header, d, SavedKeys))

\* os_strncmp over the bytes received: a name's beginning matches too.
on_header_field(c, data) ==
    LET k == SelectInSeq(c.headers, LAMBDA h : IsPrefix(data, h.key))
    IN  IF k = 0 THEN c ELSE [c EXCEPT !.headers[k].save = TRUE]

on_header_value(c, data) ==
    LET k == SelectInSeq(c.headers, LAMBDA h : h.save)
    IN  IF k = 0 THEN c ELSE [c EXCEPT !.headers[k] = [@ EXCEPT !.value = data, !.save = FALSE]]

on_body(c, data) ==
    CASE ~c.saveBody -> c
      [] c.saveBody /\ c.data = NULL_STRING -> [c EXCEPT !.data = data, !.len = Len(data)]
      [] OTHER -> [FreeBody(c) EXCEPT !.data = SubSeq(c.data, 1, c.len) \o data, !.len = c.len + Len(data),
                                      !.freed = FALSE]

\* The body is freed, and not forgotten.
on_message_complete(c) ==
    LET d == [c EXCEPT !.seen = Append(@, [url |-> c.url, headers |-> c.headers, body |-> SubSeq(c.data, 1, c.len)])]
    IN  IF d.saveBody /\ d.data # NULL_STRING THEN [FreeBody(d) EXCEPT !.len = 0] ELSE d

Callback(c, call) ==
    CASE call.on = "url" -> on_url(c, call.data)
      [] call.on = "header_field" -> on_header_field(c, call.data)
      [] call.on = "header_value" -> on_header_value(c, call.data)
      [] call.on = "body" -> on_body(c, call.data)
      [] call.on = "message_complete" -> on_message_complete(c)
      [] OTHER -> c
-----------------------------------------------------------------------------
(* The url's fields, as offsets into it, and their strings.                *)

UrlFields == {"UF_SCHEMA", "UF_HOST", "UF_PORT", "UF_PATH", "UF_QUERY", "UF_FRAGMENT", "UF_USERINFO"}
NoField == [off |-> 0, len |-> 0]

FieldOf(s) ==
    CASE s = "s_req_schema" -> "UF_SCHEMA"
      [] s \in {"s_req_server", "s_req_server_with_at"} -> "UF_HOST"
      [] s = "s_req_path" -> "UF_PATH"
      [] s = "s_req_query_string" -> "UF_QUERY"
      [] s = "s_req_fragment" -> "UF_FRAGMENT"
      [] OTHER -> "delimiter"

\* The byte at p belongs to field uf: the field's first, or one more of it.
Extend(fields, uf, first, p) ==
    [fields EXCEPT ![uf] = IF first THEN [off |-> p, len |-> 1] ELSE [@ EXCEPT !.len = @ + 1]]

HostChar(s, ch) ==
    CASE s \in {"userinfo_start", "userinfo"} /\ ch = "@" -> "host_start"
      [] s \in {"userinfo_start", "userinfo"} /\ IS_USERINFO_CHAR(ch) -> "userinfo"
      [] s = "host_start" /\ ch = "[" -> "host_v6_start"
      [] s \in {"host_start", "host"} /\ IS_HOST_CHAR(ch) -> "host"
      [] s \in {"host", "host_v6_end"} /\ ch = ":" -> "port_start"
      [] s = "host_v6" /\ ch = "]" -> "host_v6_end"
      [] s \in {"host_v6_start", "host_v6"} /\ (IS_NUM(ch) \/ ch \in {"a", ":", "."}) -> "host_v6"
      [] s \in {"port_start", "port"} /\ IS_NUM(ch) -> "port"
      [] OTHER -> "dead"

\* Splits what the url's parser took for the host.  Not ok where it dies or
\* ends in the middle of something.
http_parse_host(buf, fields, found_at) ==
    LET host == fields["UF_HOST"]
        start == [s |-> IF found_at THEN "userinfo_start" ELSE "host_start",
                  fields |-> [fields EXCEPT !["UF_HOST"].len = 0]]
        Step(a, p) ==
            LET t == IF a.s = "dead" THEN "dead" ELSE HostChar(a.s, buf[p])
                uf == CASE t \in {"host", "host_v6"} -> "UF_HOST" [] t = "port" -> "UF_PORT"
                        [] t = "userinfo" -> "UF_USERINFO" [] OTHER -> "none"
            IN  [s |-> t, fields |-> IF uf = "none" THEN a.fields ELSE Extend(a.fields, uf, t # a.s, p)]
        end == FoldLeft(Step, start, [k \in 1 .. host.len |-> host.off + k - 1])
    IN  [ok |-> end.s \in {"host", "host_v6_end", "port"}, fields |-> end.fields]

PortOf(buf, field) ==
    FoldLeft(LAMBDA v, k : 10 * v + Digit(buf[k]), 0, [k \in 1 .. field.len |-> field.off + k - 1])

http_parser_parse_url(buf) ==
    LET start == [s |-> "s_req_spaces_before_url", uf |-> "none", at |-> FALSE,
                  fields |-> [f \in UrlFields |-> NoField]]
        Step(a, p) ==
            LET t == IF a.s = "s_dead" THEN "s_dead" ELSE parse_url_char(a.s, buf[p])
                uf == FieldOf(t)
            IN  IF uf = "delimiter" THEN [a EXCEPT !.s = t]
                ELSE [s |-> t, uf |-> uf, at |-> a.at \/ t = "s_req_server_with_at",
                      fields |-> Extend(a.fields, uf, uf # a.uf, p)]
        end == FoldLeft(Step, start, [k \in DOMAIN buf |-> k])
        isSet(f) == end.fields[f].off > 0
        split == IF isSet("UF_SCHEMA") \/ isSet("UF_HOST") THEN http_parse_host(buf, end.fields, end.at)
                 ELSE [ok |-> TRUE, fields |-> end.fields]
    IN  IF end.s = "s_dead" THEN [ok |-> FALSE, fields |-> end.fields]
        ELSE [split EXCEPT !.ok = @ /\ PortOf(buf, split.fields["UF_PORT"]) <= 65535]

NUL == "NUL"

\* The string is ended in place, over the first byte of what follows; a path
\* whose own first byte was lost so gets it back.
http_url_get_field(buf, fields, f) ==
    LET off == fields[f].off
        end == off + fields[f].len
        cut == [k \in DOMAIN buf |->
                  CASE k = end -> NUL
                    [] k # end /\ k = off /\ f = "UF_PATH" /\ buf[k] = NUL -> "/"
                    [] OTHER -> buf[k]]
        nul == SelectInSubSeq(cut, off, Len(cut), LAMBDA ch : ch = NUL)
    IN  IF off = 0 THEN [buf |-> buf, string |-> NULL_STRING]
        ELSE [buf |-> cut, string |-> SubSeq(cut, off, IF nul = 0 THEN Len(cut) ELSE nul - 1)]

-----------------------------------------------------------------------------
(* The connection.                                                         *)

\* A data callback, byte by byte.
EventsOf(call) ==
    IF call.on \in {"url", "status", "header_field", "header_value", "body"}
      THEN [k \in DOMAIN call.data |-> <<call.on, call.data[k]>>]
      ELSE <<<<call.on>>>>
Heard(calls) == FlattenSeq([k \in DOMAIN calls |-> EventsOf(calls[k])])

Apply(x) ==
    /\ parser' = x.parser
    /\ announced' = announced \o Heard(x.calls)
    /\ conn' = [FoldLeft(Callback, conn, x.calls) EXCEPT !.open = ~Stopped(x) /\ x.data # << >>]

ParserInit ==
    /\ stream \in Streams /\ unread = stream.text
    /\ parser = http_parser_init(stream.type) /\ conn = NewConn(stream.type)
    /\ announced = << >> /\ cuts = stream.cuts /\ torn = FALSE

\* A segment, of any length.  After an error the connection is closed, after
\* an upgrade the bytes are WebSocket's.
http_process_received_cb ==
    /\ conn.open
    /\ \E n \in 1 .. Len(unread) :
          /\ n < Len(unread) => cuts > 0
          /\ cuts' = IF n < Len(unread) THEN cuts - 1 ELSE cuts
          /\ LET x == http_parser_execute(parser, SubSeq(unread, 1, n))
             IN  /\ Apply(x)
                 /\ torn' = (torn \/ MarkAtStart(x.parser.state).for \in {"url", "header_field", "header_value"})
                 /\ unread' = SubSeq(unread, n + 1, Len(unread))
    /\ UNCHANGED stream

\* Only a server's end of the connection means something to the parser.
http_process_disconnect_cb ==
    /\ conn.open
    /\ IF stream.type = "RESPONSE" THEN Apply(ExecuteEof(parser))
       ELSE conn' = [conn EXCEPT !.open = FALSE] /\ UNCHANGED <<parser, announced>>
    /\ UNCHANGED <<stream, unread, cuts, torn>>

ParserNext == http_process_received_cb \/ http_process_disconnect_cb
-----------------------------------------------------------------------------
(* What should be announced, from the grammar of messages.                     *)

CRLF == <<"CR", "LF">>
Behind(part, mark) == IF part = << >> THEN << >> ELSE part \o mark
Optional(mark, part) == IF part = << >> THEN << >> ELSE mark \o part

UrlText(u) ==
    Behind(u.schema, <<":", "/", "/">>) \o Behind(u.userinfo, <<"@">>)
      \o (IF Contains(u.host, ":") THEN <<"[">> \o u.host \o <<"]">> ELSE u.host)
      \o Optional(<<":">>, u.port) \o u.path \o Optional(<<"?">>, u.query) \o Optional(<<"#">>, u.fragment)

FramingHeaders(m) ==
    CASE m.framing = "length" -> <<[name |-> <<"content-", "length">>, value |-> m.length]>>
      [] m.framing = "chunked" -> <<[name |-> <<"transfer-", "encoding">>, value |-> <<"chun", "ked">>]>>
      [] m.framing = "upgrade" -> <<[name |-> <<"up", "grade">>, value |-> <<"a">>],
                                    [name |-> <<"connec", "tion">>, value |-> <<"keep-", "alive", ",", "SP", "up", "grade">>]>>
      [] OTHER -> << >>
AllHeaders(m) == m.headers \o FramingHeaders(m)

HeaderText(h, eol) == h.name \o <<":", "SP">> \o h.value \o eol
ChunkText(data) == <<Digits[Len(data) + 1]>> \o CRLF \o data \o CRLF

BodyText(m) ==
    IF m.framing # "chunked" THEN FlattenSeq(m.body)
    ELSE FlattenSeq([k \in DOMAIN m.body |-> ChunkText(m.body[k])]) \o <<"0">> \o CRLF
           \o FlattenSeq([k \in DOMAIN m.trailers |-> HeaderText(m.trailers[k], CRLF)]) \o CRLF

MessageText(type, m) ==
    (IF type = "REQUEST" THEN m.method \o <<"SP">> \o UrlText(m.url) \o <<"SP", "HTTP/", "1", ".", "1">>
     ELSE <<"HTTP/", "1", ".", "1", "SP">> \o m.status \o <<"SP", "a", "h">>)
      \o m.eol \o FlattenSeq([k \in DOMAIN AllHeaders(m) |-> HeaderText(AllHeaders(m)[k], m.eol)]) \o m.eol \o BodyText(m)

Stream(type, messages, n) ==
    [type |-> type, messages |-> messages, cuts |-> n,
     text |-> FlattenSeq([k \in DOMAIN messages |-> MessageText(type, messages[k])])]

Data(on, part) == [k \in DOMAIN part |-> <<on, part[k]>>]
HeaderEvents(hs) ==
    FlattenSeq([k \in DOMAIN hs |-> Data("header_field", hs[k].name) \o Data("header_value", hs[k].value)])

MessageEvents(type, m) ==
    <<<<"message_begin">>>>
      \o (IF type = "REQUEST" THEN Data("url", UrlText(m.url)) ELSE Data("status", <<"a", "h">>))
      \o HeaderEvents(AllHeaders(m)) \o <<<<"headers_complete">>>> \o Data("body", FlattenSeq(m.body))
      \o HeaderEvents(m.trailers) \o <<<<"message_complete">>>>

Expected(s) == FlattenSeq([k \in DOMAIN s.messages |-> MessageEvents(s.type, s.messages[k])])

IsMessages(s) == s.messages # << >>
SoFar == SubSeq(stream.text, 1, Len(stream.text) - Len(unread))

\* http_parser_execute: however TCP cuts what a peer sends, well-formed or
\* not, the parser is where it would be, and its callbacks have been given the
\* bytes they would have been given, had all come in one segment.
CutsDoNotMatter ==
    LET x == http_parser_execute(http_parser_init(stream.type), SoFar)
    IN  conn.open => (parser = x.parser /\ announced = Heard(x.calls))

\* http_parser_execute: of a well-formed stream nothing is refused; what the
\* callbacks have been told is a beginning of what it says, and all of it once
\* all has come, a request to change the protocol too.  A message cut short is
\* an error and never reported complete, unless its length is where the
\* connection ends.
HeardRight ==
    IsMessages(stream) =>
        LET m == stream.messages[Len(stream.messages)]
            atEof == m.framing = "eof" /\ ~conn.open /\ announced # << >> /\ Last(announced) = <<"message_complete">>
        IN  /\ parser.http_errno => stream.type = "RESPONSE" /\ unread # << >>
            /\ IsPrefix(IF atEof THEN Front(announced) ELSE announced, Expected(stream))
            /\ unread = << >> /\ (conn.open => m.framing # "eof") =>
                 announced = Expected(stream) /\ parser.upgrade = (m.framing = "upgrade")

ValueOf(m, key) ==
    LET k == SelectLastInSeq(m.headers, LAMBDA h : h.name = key)
    IN  IF k = 0 THEN NULL_STRING ELSE m.headers[k].value

\* on_url, on_header_field, on_header_value, on_body: when a message is
\* complete the connection holds its whole body, however it was cut; and its
\* url and the value of each header asked for, unless a segment ended inside
\* one of these (on_url and on_header_value keep one piece of what is cut).
KeptRight ==
    IsMessages(stream) =>
        \A k \in DOMAIN conn.seen :
            LET m == stream.messages[k]
                s == conn.seen[k]
            IN  /\ unread = << >> \/ m.framing # "eof" => s.body = FlattenSeq(m.body)
                /\ ~torn /\ stream.type = "REQUEST" =>
                     /\ s.url = UrlText(m.url)
                     /\ \A h \in Range(s.headers) :
                          k = 1 => h.value = ValueOf(m, h.key)

\* on_message_complete keeps the pointer to the body it has freed, and the
\* next message on the connection, its body or its end, frees it again; up to
\* then a body is freed once.
FreedOnce == conn.freedTwice => conn.seen # << >>

\* http_parser_parse_url, http_url_get_field: the fields are the url's, and
\* the strings that the client takes, host, path, query and host again, are
\* right as it takes them although each one is ended over the next one's
\* first byte.
FieldsRight ==
    \A k \in DOMAIN stream.messages :
        LET u == stream.messages[k].url
            parsed == http_parser_parse_url(UrlText(u))
            fields == [UF_SCHEMA |-> u.schema, UF_USERINFO |-> u.userinfo, UF_HOST |-> u.host, UF_PORT |-> u.port,
                       UF_PATH |-> u.path, UF_QUERY |-> u.query, UF_FRAGMENT |-> u.fragment]
            Get(a, f) == LET r == http_url_get_field(a.buf, parsed.fields, f)
                         IN  [buf |-> r.buf, strings |-> Append(a.strings, r.string)]
            asked == <<"UF_HOST", "UF_PATH", "UF_QUERY", "UF_HOST">>
            got == FoldLeft(Get, [buf |-> UrlText(u), strings |-> << >>], asked).strings
        IN  stream.type = "REQUEST" =>
                /\ parsed.ok
                /\ \A f \in UrlFields :
                     LET r == parsed.fields[f]
                     IN  fields[f] = SubSeq(UrlText(u), r.off, r.off + r.len - 1)
                /\ \A j \in DOMAIN asked : got[j] = IF fields[asked[j]] = << >> THEN NULL_STRING ELSE fields[asked[j]]

ParserInv == CutsDoNotMatter /\ HeardRight /\ KeptRight /\ FreedOnce /\ FieldsRight
=============================================================================
