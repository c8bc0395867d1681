----------------------------- MODULE RelayConfig -----------------------------
(***************************************************************************)
(* The relays (driver/relay.c) and the configuration sector that keeps     *)
(* their state over a power cycle (platform/config.c), from the first boot *)
(* of a blank device on.                                                   *)
(*                                                                         *)
(* config_data is a sequence of words: the magic, one word per relay and   *)
(* relay_state.init_ok.  config_save erases the sector and then programs   *)
(* the words in order; the power may fail between any two of these steps.  *)
(* Nothing else interrupts a save: the firmware is single threaded, so a   *)
(* call of this module that saves is under way (pc # "idle") until every   *)
(* word is on flash.                                                       *)
(***************************************************************************)
EXTENDS Integers, Sequences

CONSTANTS
    RELAY_COUNT,            \* relays on the board
    Listeners,              \* the functions that may be registered
    MAX_RELAY_LISTENERS,    \* slots of the listener table
    MaxLosses               \* bound: power failures in a behaviour

ASSUME RelayAssumption ==
    /\ RELAY_COUNT \in 1 .. 254    \* an erased byte names no pin (GPIO_PIN_NUM is 13)
    /\ MAX_RELAY_LISTENERS \in Nat \ {0}
    /\ MaxLosses \in Nat
    /\ "NULL" \notin Listeners

VARIABLES
    flash,      \* the words of the configuration sector
    temp_data,  \* config.c's copy of it in RAM
    gpio,       \* what each relay pin drives: Float, 0 or 1
    listeners,  \* the listener table of relay.c
    pc,         \* "off", "boot", "idle", or config_save's "erase", "write", "written"
    word,       \* the word that config_save programs next
    save,       \* the save under way: is data given, and what the caller does next
    told,       \* history: the state each listener was last told, by relay
    last,       \* history: the relay words when the last call returned
    cut,        \* history: the last power failure hit a save
    halfSaved,       \* history: a failure left the magic but not all that follows it
    losses      \* bound on PowerLoss

relayVars == <<flash, temp_data, gpio, listeners, pc, word, save, told, last, cut, halfSaved, losses>>

Relay == 0 .. RELAY_COUNT - 1
Pins == 1 .. RELAY_COUNT
InitWord == RELAY_COUNT + 1     \* index of relay_state.init_ok; 0 is the magic
Words == 0 .. InitWord

FF == 255                       \* what an erased byte reads as
CONFIG_MAGIC == 1               \* stands for 0x1FAF15FB
Float == -1                     \* a pin that is not driven
Unknown == -1                   \* a state not told yet
Erased == [w \in Words |-> IF w \in 1 .. RELAY_COUNT THEN [gpioPin |-> FF, state |-> FF] ELSE FF]

\* config_init: a zeroed image that has the magic.
BlankConfig == [w \in Words |-> CASE w = 0 -> CONFIG_MAGIC
                            [] w = InitWord -> 0
                            [] OTHER -> [gpioPin |-> 0, state |-> 0]]

\* relay_init: relay i is on pin i + 1 and open, and the image says so.
Defaults(image) ==
    [w \in Words |-> CASE w = 0 -> image[0]
                       [] w = InitWord -> 1
                       [] OTHER -> [gpioPin |-> w, state |-> 0]]

RelayOf(image, r) == image[r + 1]
Unheard == [l \in Listeners |-> [r \in Relay |-> Unknown]]

\* The ESP8266 starts with its relay pins as inputs.
PowerOff == gpio' = [p \in Pins |-> Float]

RelayInit ==
    /\ flash = Erased
    /\ temp_data = BlankConfig
    /\ gpio = [p \in Pins |-> Float]
    /\ listeners = [i \in 1 .. MAX_RELAY_LISTENERS |-> "NULL"]
    /\ pc = "off"
    /\ word = 0
    /\ save = [given |-> FALSE, then |-> "return", relay |-> 0]
    /\ told = Unheard
    /\ last = [r \in Relay |-> RelayOf(Defaults(BlankConfig), r)]
    /\ cut = FALSE
    /\ halfSaved = FALSE
    /\ losses = 0

-----------------------------------------------------------------------------
(* config.c                                                                *)

\* config_save is called: the sector is erased first.
CallSave(given, then, r) ==
    /\ save' = [given |-> given, then |-> then, relay |-> r]
    /\ pc' = "erase"

\* platform_flash_erase_sector.
EraseSector ==
    /\ pc = "erase"
    /\ flash' = Erased
    /\ pc' = "write"
    /\ word' = 0
    /\ UNCHANGED <<temp_data, gpio, listeners, save, told, last, cut, halfSaved, losses>>

\* The last word of platform_flash_write.
\* Mutant: the length is short by two, by init_ok and the last relay.
Mut_LastWord == InitWord - 2
LastWord == InitWord

\* platform_flash_write programs a word of data or of temp_data (every caller's
\* data is temp_data).
WriteWord ==
    /\ pc = "write"
    /\ flash' = [flash EXCEPT ![word] = temp_data[word]]
    /\ \/ word < LastWord /\ word' = word + 1 /\ pc' = pc
       \/ word = LastWord /\ word' = 0 /\ pc' = "written"
    /\ UNCHANGED <<temp_data, gpio, listeners, save, told, last, cut, halfSaved, losses>>

\* os_memcpy(temp_data, data, ...) is handed the struct itself, so its words
\* become the arguments: relay 1's word is the length.  With a length of zero
\* nothing happens; otherwise the copy goes to the address that the magic
\* happens to be, which faults and restarts the chip or does no harm.
\* Mutant: the copy comes before the sector is written.
MayFault == save.given /\ RelayOf(temp_data, RELAY_COUNT - 1) # [gpioPin |-> 0, state |-> 0]
Mut_CopyStep == pc \in {"erase", "written"}
CopyStep == pc = "written"

CopyFaults ==
    /\ CopyStep
    /\ MayFault
    /\ pc' = "off"
    /\ PowerOff
    /\ UNCHANGED <<flash, temp_data, listeners, save, told, last, cut, halfSaved, losses, word>>

-----------------------------------------------------------------------------
(* relay.c                                                                 *)

\* platform_gpio_write: a pin the board does not have is refused.
Drive(g, image, r) ==
    LET w == RelayOf(image, r)
    IN  IF w.gpioPin \in Pins THEN [g EXCEPT ![w.gpioPin] = w.state] ELSE g

DriveAll(image) ==
    [p \in Pins |-> IF \E r \in Relay : RelayOf(image, r).gpioPin = p
                    THEN RelayOf(image, CHOOSE r \in Relay : RelayOf(image, r).gpioPin = p).state
                    ELSE Float]

Returned(image) ==
    /\ pc' = "idle"
    /\ last' = [r \in Relay |-> RelayOf(image, r)]
    /\ cut' = FALSE

\* user_init calls relay_init, which clears the listeners and calls
\* config_read; the first config_read calls config_init, which reads the
\* sector and, unless it finds the magic, saves a blank image.
Boot ==
    /\ pc = "off"
    /\ listeners' = [i \in 1 .. MAX_RELAY_LISTENERS |-> "NULL"]
    /\ told' = Unheard
    /\ \/ /\ flash[0] = CONFIG_MAGIC
          /\ temp_data' = flash
          /\ pc' = "boot"
          /\ save' = save
       \/ /\ flash[0] # CONFIG_MAGIC
          /\ temp_data' = BlankConfig
          /\ CallSave(TRUE, "boot", 0)
    /\ UNCHANGED <<flash, gpio, last, cut, halfSaved, losses, word>>

\* The rest of relay_init.  An initialised image drives the pins (init_ok is
\* a truth value: an erased word counts as set), any other is replaced by the
\* defaults, which are saved but not driven.
RelayStart ==
    /\ pc = "boot"
    /\ \/ /\ temp_data[InitWord] # 0
          /\ gpio' = DriveAll(temp_data)
          /\ Returned(temp_data)
          /\ UNCHANGED <<temp_data, save>>
       \/ /\ temp_data[InitWord] = 0
          /\ temp_data' = Defaults(temp_data)
          /\ CallSave(TRUE, "return", 0)
          /\ UNCHANGED <<gpio, last, cut>>
    /\ UNCHANGED <<flash, listeners, told, halfSaved, losses, word>>

\* relay_set_state: the state, the pin and then the sector change.
SetRelay(r, s) ==
    /\ temp_data' = [temp_data EXCEPT ![r + 1].state = s]
    /\ gpio' = Drive(gpio, temp_data', r)
    /\ CallSave(FALSE, "notify", r)

relay_set_state(r, s) ==
    /\ pc = "idle"
    /\ SetRelay(r, s)
    /\ UNCHANGED <<flash, listeners, told, last, cut, halfSaved, losses, word>>

relay_toggle_state(r) ==
    /\ pc = "idle"
    /\ SetRelay(r, IF RelayOf(temp_data, r).state = 0 THEN 1 ELSE 0)
    /\ UNCHANGED <<flash, listeners, told, last, cut, halfSaved, losses, word>>

\* relay_notify_listeners, in the order of the table.
Registered == {listeners[i] : i \in DOMAIN listeners} \ {"NULL"}
Notified == Registered
relay_notify_listeners(r) ==
    told' = [l \in Listeners |->
                IF l \in Notified THEN [told[l] EXCEPT ![r] = RelayOf(temp_data, r).state]
                                  ELSE told[l]]

\* The save returns to its caller.
SaveReturns ==
    /\ pc = "written"
    /\ \/ /\ save.then = "boot"
          /\ pc' = "boot"
          /\ UNCHANGED <<told, last, cut>>
       \/ /\ save.then = "return"
          /\ Returned(temp_data)
          /\ told' = told
       \/ /\ save.then = "notify"
          /\ relay_notify_listeners(save.relay)
          /\ Returned(temp_data)
    /\ UNCHANGED <<flash, temp_data, gpio, listeners, save, halfSaved, losses, word>>

\* The first free slot takes the listener.  The loop does not stop at the end
\* of a full table, but nothing is stored behind it.
relay_register_listener(l) ==
    /\ pc = "idle"
    /\ \E i \in DOMAIN listeners :
         /\ listeners[i] = "NULL"
         /\ \A j \in 1 .. i - 1 : listeners[j] # "NULL"
         /\ listeners' = [listeners EXCEPT ![i] = l]
    /\ UNCHANGED <<flash, temp_data, gpio, pc, save, told, last, cut, halfSaved, losses, word>>

relay_unregister_listener(l) ==
    /\ pc = "idle"
    /\ \E i \in DOMAIN listeners :
         /\ listeners[i] = l
         /\ \A j \in 1 .. i - 1 : listeners[j] # l
         /\ listeners' = [listeners EXCEPT ![i] = "NULL"]
         /\ told' = IF \E j \in DOMAIN listeners : listeners'[j] = l THEN told
                    ELSE [told EXCEPT ![l] = Unheard[l]]
    /\ UNCHANGED <<flash, temp_data, gpio, pc, save, last, cut, halfSaved, losses, word>>

-----------------------------------------------------------------------------
(* The power fails.  RAM and the pins are lost, the sector stays as it is.  *)

PowerLoss ==
    /\ pc # "off"
    /\ losses < MaxLosses
    /\ losses' = losses + 1
    /\ pc' = "off"
    /\ PowerOff
    /\ cut' = (cut \/ pc \in {"erase", "write", "written"})
    /\ halfSaved' = (halfSaved \/ (pc = "write" /\ word # 0))
    /\ UNCHANGED <<flash, temp_data, listeners, save, told, last, word>>

RelayStep == EraseSector \/ WriteWord \/ CopyFaults \/ Boot \/ RelayStart \/ SaveReturns

RelayCall ==
    \/ \E r \in Relay : relay_toggle_state(r) \/ \E s \in {0, 1} : relay_set_state(r, s)
    \/ \E l \in Listeners : relay_register_listener(l) \/ relay_unregister_listener(l)

RelayNext == RelayStep \/ RelayCall \/ PowerLoss

RelaySpec == RelayInit /\ [][RelayNext]_relayVars

-----------------------------------------------------------------------------
(* Properties                                                              *)

RelayWord == [gpioPin : {0, FF} \cup Pins, state : {0, 1, FF}]
ImageOK(image) ==
    /\ DOMAIN image = Words
    /\ image[0] \in {CONFIG_MAGIC, FF}
    /\ image[InitWord] \in {0, 1, FF}
    /\ \A r \in Relay : RelayOf(image, r) \in RelayWord

RelayTypeOK ==
    /\ ImageOK(flash) /\ ImageOK(temp_data)
    /\ gpio \in [Pins -> {Float, 0, 1, FF}]
    /\ listeners \in [1 .. MAX_RELAY_LISTENERS -> Listeners \cup {"NULL"}]
    /\ pc \in {"off", "boot", "idle", "erase", "write", "written"}
    /\ word \in Words
    /\ save \in [given : BOOLEAN, then : {"boot", "return", "notify"}, relay : Relay]
    /\ told \in [Listeners -> [Relay -> {Unknown, 0, 1, FF}]]
    /\ last \in [Relay -> RelayWord]
    /\ cut \in BOOLEAN /\ halfSaved \in BOOLEAN
    /\ losses \in 0 .. MaxLosses

\* When a call has returned, what RAM says is on flash, to the last word: the
\* next power cycle finds the states that callers were told of.
Durable == pc = "idle" => flash = temp_data

\* A relay's pin drives its state once it was driven at all; relay_init
\* leaves the pins of a fresh configuration floating, and only of that one.
DrivesState ==
    pc = "idle" =>
        \A r \in Relay : LET w == RelayOf(temp_data, r)
                         IN  w.gpioPin \in Pins => \/ gpio[w.gpioPin] = w.state
                                                   \/ gpio[w.gpioPin] = Float /\ w.state = 0

\* A save cut short costs at most the states: every relay keeps its pin,
\* unless the cut came after the magic and before init_ok, the one case in
\* which config_init and relay_init take a torn sector for a whole one.
PinsKept == pc = "idle" /\ ~halfSaved => \A r \in Relay : RelayOf(temp_data, r).gpioPin = r + 1

\* A listener that stays registered knows the state of every relay that has
\* changed since: told and the relay's word never disagree.
ListenersAgree ==
    pc = "idle" => \A l \in Registered, r \in Relay :
                       told[l][r] \in {Unknown, RelayOf(temp_data, r).state}

\* The relays between two calls: saved, driven as saved, with their pins, and
\* known to the listeners.
RelayInv == RelayTypeOK /\ Durable /\ DrivesState /\ PinsKept /\ ListenersAgree

\* A power cycle between calls changes nothing: the relays come back as the
\* last call left them.
BootRestores ==
    [][pc = "boot" /\ pc' = "idle" /\ ~cut => last' = last]_relayVars

\* Whenever the power comes back the device gets through its start-up, also
\* where config_save's copy faults: the fault comes after the sector was
\* written, so the next start finds it initialised and does not save.
StartsUp == pc = "off" ~> pc = "idle"
==============================================================================
