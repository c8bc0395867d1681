-------------------------------- MODULE Uart --------------------------------
(***************************************************************************)
(* The UART driver (driver/uart_interrupt.c).  uart_write puts bytes into  *)
(* the transmit FIFO or, when it will not, into a list of items; a timer,  *)
(* running in the task, and the FIFO-empty interrupt both move items from  *)
(* the list into the FIFO with uart_transmit.  Received bytes stay in the  *)
(* receive FIFO until a callback takes them in the interrupt handler.      *)
(*                                                                         *)
(* The list is the sequence of items that LinkedList implements: the first *)
(* item is the newest, the last the next to go out.  Bytes are numbered in *)
(* the order in which they are written.                                    *)
(*                                                                         *)
(* The handler runs to completion but may preempt the task anywhere in a   *)
(* driver call, which is therefore cut into stages: list_get_first and     *)
(* list_add_first, the copy into the item, list_remove_last, the writes to *)
(* the FIFO, list_add_last.  Nothing masks the interrupt.  A handler that  *)
(* takes items off the list while the task is inside one of the operations *)
(* on it, or takes the item the task is copying to, leaves dangling        *)
(* pointers and a node or an item that is freed twice: tx_torn, after      *)
(* which nothing more is said.                                             *)
(***************************************************************************)
EXTENDS Integers, Sequences, SequencesExt

CONSTANTS
    UART_FIFO_LEN,              \* slots of a hardware FIFO
    TX_ITEM_LEN,                \* bytes of a list item
    UART_TX_EMPTY_THRESH_VAL,   \* the FIFO counts as empty at this length
    RxFull,                     \* UART_RXFIFO_FULL_THRHD
    MaxWritten,                 \* bound: bytes written, by UART
    MaxReceived                 \* bound: bytes received

UART == {0, 1}

ASSUME UartAssumption ==
    /\ UART_FIFO_LEN \in Nat \ {0} /\ TX_ITEM_LEN \in Nat \ {0}
    /\ UART_TX_EMPTY_THRESH_VAL \in 0 .. UART_FIFO_LEN - 1
    /\ RxFull \in 1 .. UART_FIFO_LEN
    /\ MaxWritten \in [UART -> Nat] /\ MaxReceived \in Nat

VARIABLES
    fifo,       \* the transmit FIFOs
    tx_list,    \* the lists of items
    tx_timer,   \* the timers are armed
    tx_ena,     \* UART_TXFIFO_EMPTY_INT_ENA
    task,       \* the driver call the task is in
    rx,         \* bytes in the receive FIFO of UART 0
    rx_tout,    \* UART_RXFIFO_TOUT_INT_ST
    callback,   \* uart0_data_received_callback is set
    received,   \* bound on received bytes
    wire,       \* history: what has left each UART
    written,    \* history: bytes given to uart_write
    overflow,   \* history: uart_write has put more into a FIFO than it holds
    raced,      \* history: the handler has transmitted while the task was transmitting
    tx_torn     \* history: the handler came inside an operation on a list

txVars == <<fifo, tx_list, tx_timer, tx_ena, task, wire, written, overflow, raced, tx_torn>>
rxVars == <<rx, rx_tout, callback, received>>
uartVars == <<fifo, tx_list, tx_timer, tx_ena, task, rx, rx_tout, callback, received,
              wire, written, overflow, raced, tx_torn>>

Idle == [at |-> "none", uart |-> 0, data |-> << >>, item |-> << >>, remain |-> 0]

\* uart_init.
UartInit ==
    /\ fifo = [u \in UART |-> << >>]
    /\ tx_list = [u \in UART |-> << >>]
    /\ tx_timer = [u \in UART |-> FALSE]
    /\ tx_ena = [u \in UART |-> FALSE]
    /\ task = Idle
    /\ rx = 0 /\ rx_tout = FALSE /\ callback = FALSE /\ received = 0
    /\ wire = [u \in UART |-> << >>]
    /\ written = [u \in UART |-> 0]
    /\ overflow = [u \in UART |-> FALSE]
    /\ raced = [u \in UART |-> FALSE]
    /\ tx_torn = FALSE

SetAt(f, u, v) == [f EXCEPT ![u] = v]

\* UART_WRITE_CHAR for each byte; what a full FIFO cannot take is dropped.
Put(f, s) == LET room == UART_FIFO_LEN - Len(f) IN f \o SubSeq(s, 1, IF Len(s) < room THEN Len(s) ELSE room)

-----------------------------------------------------------------------------
(* uart_write                                                              *)

\* The test for the direct way compares the bytes in the FIFO, not the room.
DirectWay(u, len) == Len(fifo[u]) > len /\ tx_list[u] = << >>

WriteDirect(u, len) ==
    /\ task = Idle
    /\ written[u] + len <= MaxWritten[u]
    /\ DirectWay(u, len)
    /\ LET data == [k \in 1 .. len |-> written[u] + k]
       IN  fifo' = SetAt(fifo, u, Put(fifo[u], data))
    /\ written' = [written EXCEPT ![u] = @ + len]
    /\ overflow' = [overflow EXCEPT ![u] = @ \/ Len(fifo[u]) + len > UART_FIFO_LEN]
    /\ UNCHANGED <<tx_list, tx_timer, tx_ena, task, wire, raced, tx_torn, rxVars>>

WriteBuffered(u, len) ==
    /\ task = Idle
    /\ written[u] + len <= MaxWritten[u]
    /\ ~DirectWay(u, len)
    /\ task' = [Idle EXCEPT !.at = "list", !.uart = u, !.data = [k \in 1 .. len |-> written[u] + k]]
    /\ written' = [written EXCEPT ![u] = @ + len]
    /\ UNCHANGED <<fifo, tx_list, tx_timer, tx_ena, wire, overflow, raced, tx_torn, rxVars>>

\* The item the next bytes go to: list_get_first, or a new one if there is
\* none or it is full, which list_add_first makes the first.
WriteLinks ==
    LET u == task.uart
    IN  /\ task.at = "list"
        /\ tx_list' = IF tx_list[u] = << >> \/ Len(tx_list[u][1]) >= TX_ITEM_LEN
                      THEN SetAt(tx_list, u, << << >> >> \o tx_list[u])
                      ELSE tx_list
        /\ task' = [task EXCEPT !.at = "copy"]
        /\ UNCHANGED <<fifo, tx_timer, tx_ena, wire, written, overflow, raced, tx_torn, rxVars>>

\* Room in the item that is being filled.
RemLen(u) == TX_ITEM_LEN - Len(tx_list[u][1])

\* The copy; with bytes left the loop goes on with another item, else the
\* timer is armed.
ArmTimer(u) == tx_timer' = SetAt(tx_timer, u, TRUE)

WriteCopies ==
    LET u == task.uart
        rest == SubSeq(task.data, RemLen(u) + 1, Len(task.data))
        copied == SubSeq(task.data, 1, Len(task.data) - Len(rest))
    IN  /\ task.at = "copy"
        /\ tx_list' = [tx_list EXCEPT ![u][1] = @ \o copied]
        /\ \/ rest = << >> /\ task' = Idle /\ ArmTimer(u)
           \/ rest # << >> /\ task' = [task EXCEPT !.at = "list", !.data = rest] /\ tx_timer' = tx_timer
        /\ UNCHANGED <<fifo, tx_ena, wire, written, overflow, raced, tx_torn, rxVars>>

-----------------------------------------------------------------------------
(* uart_transmit                                                           *)

\* The rest of an item that did not fit goes back to where it came from.
\* Mutant: to the other end of the list.
Mut_PutBack(l, rest) == <<rest>> \o l
PutBack(l, rest) == Append(l, rest)

Enables(lists, u) == Len(lists[0]) > 0

\* What os_memmove leaves of an item.
Rest(item, sent) == SubSeq(item, sent + 1, Len(item))

\* fifo_remain, read before an item is taken off the list.
Remain(f, u) == UART_FIFO_LEN - Len(f[u])

\* The bytes of an item that go to the FIFO: all of them or as many as fit.
Whole(item, remain) == remain >= Len(item)
Written(f, u, item, remain) ==
    SetAt(f, u, Put(f[u], IF Whole(item, remain) THEN item ELSE SubSeq(item, 1, remain)))

\* One round: item is written and freed or put back.
Round(f, l, u, item, remain) ==
    [fifo  |-> Written(f, u, item, remain),
     list  |-> IF Whole(item, remain) THEN l ELSE SetAt(l, u, PutBack(l[u], Rest(item, remain))),
     again |-> Whole(item, remain)]

\* All rounds, as the interrupt handler runs them: items go out from the end
\* of the list until one does not fit.
Transmit(f, l, u) ==
    LET rounds[k \in 0 .. Len(l[u])] ==
            IF k = 0 THEN [fifo |-> f, list |-> l, again |-> TRUE]
            ELSE LET r == rounds[k - 1]
                 IN  IF ~r.again \/ r.list[u] = << >> THEN [r EXCEPT !.again = r.again /\ r.list[u] # << >>]
                     ELSE Round(r.fifo, SetAt(r.list, u, Front(r.list[u])), u, Last(r.list[u]), Remain(r.fifo, u))
    IN  rounds[Len(l[u])]

\* The timer: the task reads fifo_remain, ...
tx_timer_timeout(u) ==
    /\ tx_timer[u]
    /\ task = Idle
    /\ tx_timer' = SetAt(tx_timer, u, FALSE)
    /\ task' = [Idle EXCEPT !.at = "remove", !.uart = u, !.remain = Remain(fifo, u)]
    /\ UNCHANGED <<fifo, tx_list, tx_ena, wire, written, overflow, raced, tx_torn, rxVars>>

\* ... takes the last item off the list, if there is one, ...
TaskRemoves ==
    LET u == task.uart
    IN  /\ task.at = "remove"
        /\ \/ tx_list[u] = << >> /\ task' = Idle /\ tx_list' = tx_list
           \/ /\ tx_list[u] # << >>
              /\ tx_list' = SetAt(tx_list, u, Front(tx_list[u]))
              /\ task' = [task EXCEPT !.at = "transmit", !.item = Last(tx_list[u])]
        /\ UNCHANGED <<fifo, tx_timer, tx_ena, wire, written, overflow, raced, tx_torn, rxVars>>

\* ... writes it, as far as it fits, and goes on with the next ...
TaskTransmits ==
    LET u == task.uart
        whole == Whole(task.item, task.remain)
    IN  /\ task.at = "transmit"
        /\ fifo' = Written(fifo, u, task.item, task.remain)
        /\ task' = IF whole
                   THEN [task EXCEPT !.at = "remove", !.item = << >>, !.remain = Remain(fifo', u)]
                   ELSE [task EXCEPT !.at = "putback", !.item = Rest(task.item, task.remain)]
        /\ UNCHANGED <<tx_list, tx_timer, tx_ena, wire, written, overflow, raced, tx_torn, rxVars>>

\* ... or puts the rest back on the list and enables the interrupt.
TaskPutsBack ==
    LET u == task.uart
        lists == SetAt(tx_list, u, PutBack(tx_list[u], task.item))
    IN  /\ task.at = "putback"
        /\ tx_list' = lists
        /\ task' = Idle
        /\ tx_ena' = IF Enables(lists, u) THEN SetAt(tx_ena, u, TRUE) ELSE tx_ena
        /\ UNCHANGED <<fifo, tx_timer, wire, written, overflow, raced, tx_torn, rxVars>>

-----------------------------------------------------------------------------
(* The interrupt handler: one cause per call, in this order.               *)

FullInterrupt == rx >= RxFull
EmptyInterrupt(u) == tx_ena[u] /\ Len(fifo[u]) <= UART_TX_EMPTY_THRESH_VAL

\* uart0_data_received: without a callback the bytes stay in the FIFO.
Drained == IF callback THEN 0 ELSE rx

ReceiveInterrupt ==
    /\ FullInterrupt \/ rx_tout
    /\ rx' = Drained
    /\ rx_tout' = (rx_tout /\ FullInterrupt)
    /\ UNCHANGED <<callback, received, txVars>>

\* The handler has a share in what the task is at: it finds items in the list
\* while the task transmits, and with the task inside an operation on the list,
\* or the handler at the item the task copies to, it may be in the middle of it.
Meets(u, stages) == task.uart = u /\ task.at \in stages /\ tx_list[u] # << >>
TakesFirst(u, lists) == IF lists[u] = << >> THEN TRUE ELSE Head(lists[u]) # Head(tx_list[u])
MayTear(u, lists) ==
    Meets(u, {"list", "remove", "putback"}) \/ (Meets(u, {"copy"}) /\ TakesFirst(u, lists))
MustTear(u, lists) == Meets(u, {"copy"}) /\ lists[u] = << >>

\* FIFO empty.  UART 0 goes before UART 1, both after reception.
EmptyServed(u) ==
    /\ ~FullInterrupt /\ ~rx_tout
    /\ EmptyInterrupt(u)
    /\ u = 1 => ~EmptyInterrupt(0)
    /\ LET r == Transmit(fifo, tx_list, u)
       IN  \/ /\ MayTear(u, r.list)
              /\ tx_torn' = TRUE
              /\ UNCHANGED <<fifo, tx_list, tx_ena, raced>>
           \/ /\ ~MustTear(u, r.list)
              /\ fifo' = r.fifo
              /\ tx_list' = r.list
              /\ tx_ena' = SetAt(tx_ena, u, tx_list[u] # << >> /\ ~r.again /\ r.list[u] # << >>
                                            /\ Enables(r.list, u))
              /\ raced' = [raced EXCEPT ![u] = @ \/ Meets(u, {"remove", "transmit", "putback"})]
              /\ tx_torn' = tx_torn
    /\ UNCHANGED <<task, tx_timer, wire, written, overflow, rxVars>>

-----------------------------------------------------------------------------
(* The hardware, and the users of the callback.                            *)

Shift(u) ==
    /\ fifo[u] # << >>
    /\ fifo' = SetAt(fifo, u, Tail(fifo[u]))
    /\ wire' = SetAt(wire, u, Append(wire[u], Head(fifo[u])))
    /\ UNCHANGED <<tx_list, tx_timer, tx_ena, task, written, overflow, raced, tx_torn, rxVars>>

Receive ==
    /\ received < MaxReceived
    /\ received' = received + 1
    /\ rx' = IF rx < UART_FIFO_LEN THEN rx + 1 ELSE rx
    /\ rx_tout' \in {rx_tout, TRUE}
    /\ UNCHANGED <<callback, txVars>>

uart_register_data_callback ==
    /\ task = Idle
    /\ ~callback
    /\ callback' = TRUE
    /\ UNCHANGED <<rx, rx_tout, received, txVars>>

uart_clear_data_callback ==
    /\ task = Idle
    /\ callback
    /\ received < MaxReceived
    /\ callback' = FALSE
    /\ UNCHANGED <<rx, rx_tout, received, txVars>>

-----------------------------------------------------------------------------

TaskStep == WriteLinks \/ WriteCopies \/ TaskRemoves \/ TaskTransmits \/ TaskPutsBack
Interrupt == ReceiveInterrupt \/ \E u \in UART : EmptyServed(u)

UartNext ==
    /\ ~tx_torn
    /\ \/ TaskStep
       \/ Interrupt
       \/ \E u \in UART : Shift(u) \/ tx_timer_timeout(u)
       \/ \E u \in UART, len \in 1 .. TX_ITEM_LEN + 1 : WriteDirect(u, len) \/ WriteBuffered(u, len)
       \/ Receive \/ uart_register_data_callback \/ uart_clear_data_callback

UartSpec == UartInit /\ [][UartNext]_uartVars

-----------------------------------------------------------------------------
(* Properties                                                              *)

UartBytes(u) == 1 .. MaxWritten[u]

UartTypeOK ==
    /\ \A u \in UART :
         /\ fifo[u] \in Seq(UartBytes(u)) /\ Len(fifo[u]) <= UART_FIFO_LEN
         /\ tx_list[u] \in Seq(Seq(UartBytes(u)))
         /\ \A k \in DOMAIN tx_list[u] : Len(tx_list[u][k]) <= TX_ITEM_LEN
         /\ wire[u] \in Seq(UartBytes(u))
         /\ written[u] \in 0 .. MaxWritten[u]
    /\ tx_timer \in [UART -> BOOLEAN] /\ tx_ena \in [UART -> BOOLEAN]
    /\ overflow \in [UART -> BOOLEAN] /\ raced \in [UART -> BOOLEAN]
    /\ tx_torn \in BOOLEAN
    /\ task.at \in {"none", "list", "copy", "remove", "transmit", "putback"} /\ task.uart \in UART
    /\ rx \in 0 .. UART_FIFO_LEN /\ received \in 0 .. MaxReceived
    /\ rx_tout \in BOOLEAN /\ callback \in BOOLEAN

\* Every byte of u that the driver still has, and those that left, in the order
\* in which they leave or have left.
Held(u) == IF task.uart = u THEN task.item ELSE << >>
Unwritten(u) == IF task.uart = u /\ task.at \in {"list", "copy"} THEN task.data ELSE << >>
UartStream(u) == wire[u] \o fifo[u] \o Held(u) \o FlattenSeq(Reverse(tx_list[u])) \o Unwritten(u)

\* Unless uart_write filled a FIFO beyond its end or the handler transmitted
\* while the task did, every byte leaves once and in the order of writing,
\* through whichever of the FIFO, the items and the two transmitters, also when
\* the handler comes between two stages of uart_write.
InOrder ==
    \A u \in UART : ~tx_torn /\ ~overflow[u] /\ ~raced[u] => UartStream(u) = [k \in 1 .. written[u] |-> k]

\* Even with the two transmitters racing, or a FIFO overrun, no byte leaves
\* twice: an item the task has taken off the list is not the handler's.  It
\* holds until the handler comes inside an operation on the list (tx_torn).
NoByteTwice == ~tx_torn => \A u \in UART : IsInjective(UartStream(u))

\* Bytes of UART 0 that wait in the list have a timer, an interrupt or a call
\* under way that will move them.
Stuck(u) == tx_list[u] # << >> /\ ~tx_timer[u] /\ ~tx_ena[u] /\ ~(task.uart = u /\ task # Idle)
NotStuck == ~Stuck(0)

\* The transmitter: no byte out of order, twice, or waiting for nothing, while
\* no operation on a list has been torn.
UartInv == UartTypeOK /\ InOrder /\ NoByteTwice /\ NotStuck

\* What the comment in uart_transmit says for every UART: the interrupt is
\* enabled "so we may send data again".
NeverStuck == \A u \in UART : ~Stuck(u)

\* Every byte written to either UART goes out on its wire, unless it was lost to
\* a FIFO that was too full or to the race of the two transmitters, an operation
\* on a list was torn, the receive interrupt, which without a callback comes back
\* for ever, keeps the transmitters out, or UART 1 is stuck because uart_transmit
\* looked at the list of UART 0.
Storm == ~callback /\ rx >= RxFull
AllOut(u) == \A n \in 1 .. written[u] : Contains(wire[u], n)
Leaves ==
    \A u \in UART :
        []<>(AllOut(u) \/ tx_torn \/ overflow[u] \/ raced[u] \/ Storm \/ (u = 1 /\ Stuck(1)))
==============================================================================
