----------------------------- MODULE MC_Library -----------------------------
(***************************************************************************)
(* The libraries: the ring buffer, the queue of packets in it, the MQTT    *)
(* codec, the other conversions, the HTTP parser and the linked list; and  *)
(* the drivers: the relays, the keys and the UART.  They share no state,   *)
(* so a behaviour exercises one, and the run covers their state spaces     *)
(* side by side rather than their product.                                 *)
(***************************************************************************)
EXTENDS RingBuf, MqttQueue, MqttMessages, Codecs, HttpParser,
        RelayConfig, Key, LinkedList, Uart

VARIABLE unit   \* the part that this behaviour exercises

\* Bytes in a row: b + 1, b + 2, ...
Run(n, b) == [k \in 1 .. n |-> (b + k) % 256]

MCByte == 0 .. 1
\* Packets of one to three bytes, markers among them.
MCPayload == {<<127>>, <<1, 2, 3>>, <<126, 1>>, <<125, 93>>}
\* Messages just below and above a remaining length of 127, an empty one and
\* one that does not fit.
MCTopics == {Run(2, 110)}
MCPayloads == {<< >>, Run(1, 48), Run(123, 130), Run(124, 130), Run(134, 1)}
MCFrameSizes == {0, 1, 125, 126, 127, 256}
MCHostParts == {<<0>>, <<9, 9>>, <<2, 5, 5>>, <<2, 5, 6>>, << >>}

\* "aaaaa.a", as bytes, and a name too long for most samples.
MCLocalDomains == {<<97, 97, 97, 97, 97, 46, 97>>, [k \in 1 .. 12 |-> 97]}

\* The parser: urls with few and with all of their parts, the ways a body is
\* delimited, pipelined requests, bare line feeds.
HOST == <<"ho", "st">>
MCSavedKeys == <<HOST, <<"ori", "gin">>>>
Path == [schema |-> << >>, userinfo |-> << >>, host |-> << >>, port |-> << >>, path |-> <<"/", "a">>,
         query |-> << >>, fragment |-> << >>]
WholeUrl == [schema |-> <<"h">>, userinfo |-> <<"a", ":", "h">>, host |-> <<"a", ".", "h">>, port |-> <<"1", "2">>,
             path |-> <<"/", "a">>, query |-> <<"a", "?">>, fragment |-> <<"h">>]
V6Url == [Path EXCEPT !.schema = <<"h">>, !.host = <<"a", ":", "1">>]

Get == [method |-> <<"G", "ET">>, url |-> Path, status |-> <<"2", "0", "0">>, eol |-> CRLF, trailers |-> << >>,
        headers |-> <<[name |-> HOST, value |-> <<"a", "SP", "h">>]>>, framing |-> "none", body |-> << >>]
Post == [Get EXCEPT !.method = <<"P", "OST">>, !.framing = "length", !.body = <<<<"b", "CR", "c">>>>] @@ [length |-> <<"3">>]
Long == [Post EXCEPT !.body = <<<<"a", "b", "c", "d", "e", "f", "g", "h", "i", "j">>>>, !.length = <<"1", "0">>]
Chunked == [Post EXCEPT !.method = <<"P", "UT">>, !.url = [Path EXCEPT !.schema = <<"h">>, !.host = <<"a">>],
                        !.framing = "chunked", !.body = <<<<"a", "LF", "b">>, <<"c">>>>,
                        !.headers = << >>, !.trailers = <<[name |-> <<"tra", "iler">>, value |-> <<"a">>]>>]
Upgrade == [Get EXCEPT !.framing = "upgrade"]
Headers == [Get EXCEPT !.url = WholeUrl, !.eol = <<"LF">>,
                       !.headers = <<[name |-> <<"x">>, value |-> << >>], [name |-> HOST, value |-> << >>],
                                     [name |-> <<"connec", "tion">>, value |-> <<"a", ",", "clo", "se">>],
                                     [name |-> <<"ori", "gin">>, value |-> <<":", ",">>]>>]
UntilEof == [Get EXCEPT !.framing = "eof", !.body = <<<<"a", "b", "c">>>>]
NoContent == [Get EXCEPT !.status = <<"3", "0", "4">>]

Short(m) == [m EXCEPT !.headers = << >>]

Good == {Stream("REQUEST", <<m>>, 2) : m \in {Get, Long, Upgrade, Headers, [Get EXCEPT !.url = V6Url]}}
          \cup {Stream("REQUEST", <<Short(Post), Short(Get)>>, 2), Stream("REQUEST", <<Short(Get), Short(Post)>>, 2),
                Stream("REQUEST", <<Short(Post), Short(Post)>>, 2)}
          \cup {Stream("RESPONSE", <<m>>, 2) : m \in {UntilEof, NoContent, Chunked}}
          \cup {Stream("RESPONSE", <<Short(Post), Short(UntilEof)>>, 2)}

\* The same with one byte replaced, in at most two segments: the parser's
\* next step depends on its state alone.
Spoiled(s) == {[s EXCEPT !.messages = << >>, !.text[k] = b] : k \in DOMAIN s.text, b \in {"SP", "CR", ",", "grade"}}
MCStreams == Good \cup UNION {Spoiled(Stream("REQUEST", <<m>>, 1)) : m \in {Post, Chunked, Headers}}

MCMaxWritten == [u \in UART |-> IF u = 0 THEN 4 ELSE 3]
MCNode == 1 .. 3

Init ==
    /\ RINGBUF_Init /\ QUEUE_Init /\ MessageInit /\ CodecInit
    /\ RelayInit /\ KeyInit /\ ListInit /\ UartInit
    /\ unit \in {"ring", "queue", "build", "receive", "codec", "parser",
                 "relays", "key", "list", "uart"}
    /\ unit # "ring" => c = 0
    /\ ParserInit /\ (unit # "parser" => stream = Stream("REQUEST", <<Get>>, 2))

libraryVars == <<ringVars, queueVars, messageVars, codecVars, parserVars>>
driverVars == <<relayVars, keyVars, listVars, uartVars>>

LibraryNext ==
    \/ unit = "ring"    /\ RingNext       /\ UNCHANGED <<queueVars, messageVars, codecVars, parserVars>>
    \/ unit = "queue"   /\ QueueNext      /\ UNCHANGED <<ringVars, messageVars, codecVars, parserVars>>
    \/ unit = "build"   /\ BuildNext      /\ UNCHANGED <<ringVars, queueVars, codecVars, parserVars>>
    \/ unit = "receive" /\ ReceiveSegment /\ UNCHANGED <<ringVars, queueVars, codecVars, parserVars>>
    \/ unit = "codec"   /\ CodecNext      /\ UNCHANGED <<ringVars, queueVars, messageVars, parserVars>>
    \/ unit = "parser"  /\ ParserNext     /\ UNCHANGED <<ringVars, queueVars, messageVars, codecVars>>

DriversNext ==
    \/ unit = "relays" /\ RelayNext /\ UNCHANGED <<keyVars, listVars, uartVars>>
    \/ unit = "key"    /\ KeyNext   /\ UNCHANGED <<relayVars, listVars, uartVars>>
    \/ unit = "list"   /\ ListNext  /\ UNCHANGED <<relayVars, keyVars, uartVars>>
    \/ unit = "uart"   /\ UartNext  /\ UNCHANGED <<relayVars, keyVars, listVars>>

Next ==
    \/ LibraryNext /\ UNCHANGED <<unit, driverVars>>
    \/ DriversNext /\ UNCHANGED <<unit, libraryVars>>

vars == <<unit, libraryVars, driverVars>>

\* A call that the firmware has begun goes on while there is power; the UART
\* shifts, its interrupt is served and a timer that is armed fires.
Fairness ==
    /\ WF_relayVars(unit = "relays" /\ RelayStep)
    /\ WF_uartVars(unit = "uart" /\ ~tx_torn /\ TaskStep)
    /\ WF_uartVars(unit = "uart" /\ ~tx_torn /\ Interrupt)
    /\ \A u \in UART : /\ WF_uartVars(unit = "uart" /\ ~tx_torn /\ Shift(u))
                       /\ WF_uartVars(unit = "uart" /\ ~tx_torn /\ tx_timer_timeout(u))

Spec == Init /\ [][Next]_vars
LiveSpec == Spec /\ Fairness

\* What the libraries make of bytes: the queue's ring holds whole frames (queue.c,
\* proto.c), MQTT messages are built as the protocol says and delivered with their
\* own topic and payload (mqtt_msg.c, mqtt.c), and Base64, WebSocket frames, dotted
\* addresses and portal answers are what their references say.
FormatsRight == QueueInv /\ BuiltRight /\ Delivers /\ ConversionsRight

\* The buffers of the drivers: the list's head, tail and size agree after every mix
\* of operations (linked_list.c), and no byte of a UART is out of order, doubled or
\* left waiting, wherever the handler interrupts a driver call, as long as it does
\* not come inside an operation on a list (uart_interrupt.c).
BuffersInv == WellLinked /\ UartInv

==============================================================================
