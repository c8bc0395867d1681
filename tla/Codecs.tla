------------------------------- MODULE Codecs -------------------------------
(***************************************************************************)
(* The stateless conversions of the firmware, over samples that grow byte  *)
(* by byte: Base64 (util/base64.c), the WebSocket frame (http/websocket.c),*)
(* the dotted address of the broker (mqtt/utils.c) and the captive         *)
(* portal's DNS answer (dns/dns.c).  Each is compared with what it should  *)
(* compute, defined without its loops and offsets.                         *)
(***************************************************************************)
EXTENDS Integers, Sequences, Bitwise, FiniteSetsExt, SequencesExt

CONSTANTS
    SampleBytes,    \* the bytes samples are made of
    MaxSample,      \* bound: length of a sample
    FrameSizes,     \* payload sizes of WebSocket frames
    HostParts,      \* what may be between the dots of a host name, as digits
    MaxParts,       \* bound: parts of a host name
    LabelLens,      \* lengths of the labels of a DNS name
    localDomains    \* the names the captive portal answers for

VARIABLES
    sample,     \* bytes
    address,    \* the characters of a host name
    labels      \* the lengths of a DNS name's labels

codecVars == <<sample, address, labels>>

-----------------------------------------------------------------------------
(* Base64.  basis_64 and pr2six are inverse to each other, so a digit is   *)
(* its value; 64 is the padding.                                           *)

Pad == 64

\* The digits of three bytes, of the last two or of the last one.
Digits3(a, b, c) == <<a \div 4, (a % 4) * 16 + b \div 16, (b % 16) * 4 + c \div 64, c % 64>>
Digits2(a, b) == <<a \div 4, (a % 4) * 16 + b \div 16, (b % 16) * 4, Pad>>
Digits1(a) == <<a \div 4, (a % 4) * 16, Pad, Pad>>

Base64encode(s) ==
    LET n == Len(s)
        groups == [g \in 1 .. n \div 3 |-> Digits3(s[3 * g - 2], s[3 * g - 1], s[3 * g])]
        rest == CASE n % 3 = 0 -> << >>
                  [] n % 3 = 1 -> Digits1(s[n])
                  [] n % 3 = 2 -> Digits2(s[n - 1], s[n])
    IN  FlattenSeq(groups) \o rest

Base64encode_len(n) == ((n + 2) \div 3) * 4 + 1

\* nprbytes digits come before the first character that is none.  The bytes
\* written, and the count returned.
Base64decode(code) ==
    LET stops == {k \in DOMAIN code : code[k] > 63}
        nprbytes == IF stops = {} THEN Len(code) ELSE Min(stops) - 1
        whole == IF nprbytes > 4 THEN (nprbytes - 1) \div 4 ELSE 0
        left == nprbytes - 4 * whole
        at(k) == IF k <= Len(code) THEN code[k] ELSE 0
        byte(g, j) == CASE j = 1 -> (at(4 * g + 1) * 4 + at(4 * g + 2) \div 16) % 256
                        [] j = 2 -> (at(4 * g + 2) * 16 + at(4 * g + 3) \div 4) % 256
                        [] j = 3 -> (at(4 * g + 3) * 64 + at(4 * g + 4)) % 256
        full == [k \in 1 .. 3 * whole |-> byte((k - 1) \div 3, ((k - 1) % 3) + 1)]
        tail == [j \in 1 .. (IF left > 1 THEN left - 1 ELSE 0) |-> byte(whole, j)]
    IN  [bytes |-> full \o tail,
         count |-> ((nprbytes + 3) \div 4) * 3 - ((4 - left) % 4)]

-----------------------------------------------------------------------------
(* WebSocket frames.                                                       *)

WS_BINARY == 2

\* ws_write_frame's size field.  The long form, which no buffer of the
\* server can hold, sends the bytes of the size as they are in memory.
SizeField(n) == IF n < 126 THEN <<n>> ELSE <<126, (n \div 256) % 256, n % 256>>

ws_write_frame(type, data) == <<128 + type>> \o SizeField(Len(data)) \o data

\* The byte of the mask for byte i.
MaskIndex(i) == i % 4

\* ws_parse_frame: the offset of the payload behind the size and the mask,
\* and the payload unmasked.  The eight byte size is left out.
ws_parse_frame(d) ==
    LET short == d[2] % 128
        size == IF short = 126 THEN d[4] + 256 * d[3] ELSE short
        masked == d[2] >= 128
        start == IF short = 126 THEN 4 ELSE 2
        offset == IF masked THEN start + 4 ELSE start
        mask(i) == IF masked THEN d[start + 1 + MaskIndex(i)] ELSE 0
    IN  [type |-> d[1] % 16, size |-> size,
         data |-> [i \in 1 .. size |-> d[offset + i] ^^ mask(i - 1)]]

\* A client's frame: masked, its size in the shortest form.
ClientFrame(type, data, key) ==
    LET n == Len(data)
    IN  <<128 + type>> \o (IF n <= 125 THEN <<128 + n>> ELSE <<128 + 126, n \div 256, n % 256>>)
        \o key \o [i \in 1 .. n |-> data[i] ^^ key[((i - 1) % 4) + 1]]

-----------------------------------------------------------------------------
(* UTILS_StrToIP.  A character is its digit, Dot, or End for the 0 at the  *)
(* end and any other character.                                            *)

Dot == 10
End == 11

\* The value of the digits and the place behind the character that ends them.
Number(s, from) ==
    LET stop == Min({k \in from .. Len(s) : s[k] \notin 0 .. 9})
    IN  [n |-> FoldLeft(LAMBDA v, d : 10 * v + d, 0, SubSeq(s, from, stop - 1)),
         by |-> s[stop], next |-> stop + 1]

TooBig(n) == n >= 256

\* The bytes, or << >> where it returns 0.  The fourth number may end anyhow.
UTILS_StrToIP(str) ==
    LET s == Append(str, End)
        step[i \in 0 .. 4] ==
            IF i = 0 THEN [ok |-> TRUE, at |-> 1, ip |-> << >>]
            ELSE LET r == step[i - 1]
                     num == Number(s, r.at)
                 IN  IF ~r.ok \/ TooBig(num.n) \/ (i < 4 /\ num.by # Dot) THEN [r EXCEPT !.ok = FALSE]
                     ELSE [ok |-> TRUE, at |-> num.next, ip |-> Append(r.ip, num.n)]
    IN  IF step[4].ok THEN step[4].ip ELSE << >>

\* The strings that are four numbers of one to three digits, and their bytes.
Value(d) == CASE Len(d) = 1 -> d[1]
              [] Len(d) = 2 -> 10 * d[1] + d[2]
              [] Len(d) = 3 -> 100 * d[1] + 10 * d[2] + d[3]
Parts(str) ==
    LET dots == {k \in DOMAIN str : str[k] = Dot}
        bound == SetToSortSeq(dots \cup {0, Len(str) + 1}, <)
    IN  [i \in 1 .. Len(bound) - 1 |-> SubSeq(str, bound[i] + 1, bound[i + 1] - 1)]
IsAddress(str) ==
    LET p == Parts(str)
    IN  Len(p) = 4 /\ \A i \in 1 .. 4 : /\ Len(p[i]) \in 1 .. 3
                                        /\ \A k \in DOMAIN p[i] : p[i][k] \in 0 .. 9

-----------------------------------------------------------------------------
(* The DNS server.  A query has a header of 12 bytes and one question: the *)
(* labels, each behind its length, a 0, the type and the class.            *)

Header == <<18, 52, 1, 0, 0, 1, 0, 0, 0, 0, 0, 0>>
Question(ls) == FlattenSeq([k \in DOMAIN ls |-> <<ls[k]>> \o [j \in 1 .. ls[k] |-> 97]]) \o <<0, 0, 1, 0, 1>>
PortalAddress == <<192, 168, 4, 1>>

\* The buffers on the stack of dnsQueryReceived.  What does not fit is written
\* all the same, over what is behind them: there is no answer to speak of.
DomainSize == 30
ResponseSize == 100
Overrun == <<-1>>

\* The name dnsQueryReceived compares: labels with a '.' (46) between them, and
\* the 0 that memset has left behind them.
Domain(data) ==
    LET labelAt[k \in 0 .. Len(data)] ==      \* offset of the k-th length byte
            IF k = 0 THEN 12
            ELSE LET o == labelAt[k - 1]
                 IN  IF o < Len(data) /\ data[o + 1] # 0 THEN o + 1 + data[o + 1] ELSE o
        last == Min({k \in 0 .. Len(data) : labelAt[k] >= Len(data) \/ data[labelAt[k] + 1] = 0})
        label(k) == SubSeq(data, labelAt[k] + 2, labelAt[k] + 1 + data[labelAt[k] + 1])
    IN  FlattenSeq([k \in 1 .. last |-> IF k = 1 THEN label(0) ELSE <<46>> \o label(k - 1)])

\* The answer: the header, with as many answers as questions, the question,
\* and a record that points to the name at offset 12.
AnswerCount(data) == SubSeq(data, 5, 6)
\* strstr: a known name anywhere in the one that is asked for.
isKnownDNS(name) ==
    \E cmp \in localDomains : \E k \in 0 .. Len(name) - Len(cmp) : SubSeq(name, k + 1, k + Len(cmp)) = cmp

dnsQueryReceived(data) ==
    IF Len(Domain(data)) >= DomainSize THEN Overrun
    ELSE IF ~isKnownDNS(Domain(data)) THEN << >>
    ELSE IF Len(data) + 16 > ResponseSize THEN Overrun
    ELSE SubSeq(data, 1, 2) \o <<132 + (data[3] % 2), 0>> \o SubSeq(data, 5, 6) \o AnswerCount(data)
         \o <<0, 0, 0, 0>> \o SubSeq(data, 13, Len(data))
         \o <<192, 12, 0, 1, 0, 1, 0, 0, 0, 0, 0, 4>> \o PortalAddress

-----------------------------------------------------------------------------

CodecInit == sample = << >> /\ address = << >> /\ labels = << >>

GrowSample ==
    /\ Len(sample) < MaxSample
    /\ \E b \in SampleBytes : sample' = Append(sample, b)
    /\ UNCHANGED <<address, labels>>
GrowAddress ==
    /\ Len(Parts(address)) < MaxParts
    /\ \E part \in HostParts : address' = IF address = << >> THEN part ELSE address \o <<Dot>> \o part
    /\ UNCHANGED <<sample, labels>>
GrowName ==
    /\ Len(labels) < 4
    /\ \E n \in LabelLens : labels' = Append(labels, n)
    /\ UNCHANGED <<sample, address>>

CodecNext == \/ address = << >> /\ labels = << >> /\ GrowSample
             \/ sample = << >> /\ labels = << >> /\ GrowAddress
             \/ sample = << >> /\ address = << >> /\ GrowName

-----------------------------------------------------------------------------
(* Properties                                                              *)

\* Every string of bytes, of whatever length modulo 3, comes back from Base64
\* unchanged, the count says how many bytes were written, and the encoder
\* stays inside what Base64encode_len promises.
Base64RoundTrip ==
    LET d == Base64decode(Base64encode(sample))
    IN  /\ d.bytes = sample
        /\ d.count = Len(sample)
        /\ Len(Base64encode(sample)) + 1 = Base64encode_len(Len(sample))

\* A client's masked frame is read to its payload, and what the server writes
\* reads back the same, on both sides of the size where the field grows.
FramesRead ==
    Len(sample) = 4 => \A n \in FrameSizes :
        LET data == [i \in 1 .. n |-> (i + sample[1]) % 256]
            frame == [type |-> WS_BINARY, size |-> n, data |-> data]
        IN  /\ ws_parse_frame(ClientFrame(WS_BINARY, data, sample)) = frame
            /\ ws_parse_frame(ws_write_frame(WS_BINARY, data)) = frame

\* A dotted address is parsed to its four bytes, one with a number above 255
\* is refused.  (Longer forms, empty numbers and a tail after the fourth
\* number are let through.)
AddressesParsed ==
    address # << >> /\ IsAddress(address) =>
        LET values == [i \in 1 .. 4 |-> Value(Parts(address)[i])]
        IN  UTILS_StrToIP(address) = IF \E i \in 1 .. 4 : values[i] > 255 THEN << >> ELSE values

\* A query for a name of less than 30 bytes is answered if a known name is part
\* of the name in its question, and only then: the labels and the dots between
\* them.  The answer has the query's id, its question, and a record with the
\* portal's address, and fits its buffer.  From 30 bytes on, labels and dots, and
\* not before, the name runs over the end of domain.
PortalAnswers ==
    labels # << >> =>
    LET query == Header \o Question(labels)
        answer == dnsQueryReceived(query)
        name == [k \in 1 .. Len(Question(labels)) - 6 |->
                   IF \E n \in 1 .. Len(labels) - 1 :
                        k = n + FoldLeft(LAMBDA a, b : a + b, 0, SubSeq(labels, 1, n)) THEN 46 ELSE 97]
    IN  /\ (answer = Overrun) = (Len(name) >= 30)
        /\ answer # Overrun => (answer # << >>) = isKnownDNS(name)
        /\ answer \notin {<< >>, Overrun} =>
             /\ SubSeq(answer, 13, 12 + Len(Question(labels))) = Question(labels)
             /\ SubSeq(answer, 1, 2) = SubSeq(query, 1, 2) /\ answer[3] >= 128
             /\ SubSeq(answer, 7, 8) = <<0, 1>>
             /\ SubSeq(answer, Len(answer) - 3, Len(answer)) = PortalAddress

\* Each conversion does what its reference says of every sample.
ConversionsRight == Base64RoundTrip /\ FramesRead /\ AddressesParsed /\ PortalAnswers
==============================================================================
