---------------------------- MODULE DriverProofs ----------------------------
(***************************************************************************)
(* Proofs about the drivers: the keys (Key), for every number of presses,  *)
(* and the relays with the configuration sector (RelayConfig), for every   *)
(* number of relays, listeners and power failures.                         *)
(***************************************************************************)
EXTENDS Key, RelayConfig, TLAPS

-----------------------------------------------------------------------------
(* The keys                                                                *)

KeyRanges ==
    /\ pin \in {0, 1} /\ key_level \in {0, 1} /\ cb \in {-1, 0, 1}
    /\ intr \in {"NEGEDGE", "POSEDGE", "DISABLE"}
    /\ presses \in Nat /\ shorts \in Nat /\ longs \in Nat

\* Nothing interrupts a debounced release: from the handler's first access to
\* the interrupt type until the 50 ms callback has set it again the interrupt
\* is off and no edge is latched.
Masked ==
    /\ status => intr # "DISABLE"
    /\ handler => intr = "DISABLE"
    /\ key_50ms \/ cb # -1 => intr = "DISABLE" /\ ~handler
    /\ ~(key_50ms /\ cb # -1)

\* A falling edge that was latched, or a press that is under way, has not been
\* counted yet; nor has one whose 5 s are not over.
Uncounted ==
    /\ key_level = 0 \/ status \/ handler => shorts < presses
    /\ key_5s \/ (key_level = 1 /\ (status \/ handler)) => longs < presses

KeyIndInv == KeyRanges /\ KeyInv /\ Masked /\ Uncounted

\* The invariant holds after key_init.
LEMMA KeyStarts == KeyInit => KeyIndInv
  BY DEF KeyInit, KeyIndInv, KeyRanges, KeyInv, KeyAlive, PressesCounted, LevelsAgree, Masked, Uncounted

\* Interrupts and timers keep the invariant.
LEMMA KeyKept == KeyIndInv /\ [KeyNext]_keyVars => KeyIndInv'
<1> SUFFICES ASSUME KeyIndInv, [KeyNext]_keyVars PROVE KeyIndInv'
  OBVIOUS
<1> USE DEF KeyIndInv, KeyRanges, KeyInv, KeyAlive, PressesCounted, LevelsAgree, Masked, Uncounted
<1>1. CASE PinFalls
  <2>1. /\ presses' = presses + 1 /\ presses' > presses
        /\ UNCHANGED <<intr, key_level, handler, key_5s, key_50ms, cb, shorts, longs>>
    BY <1>1 DEF PinFalls
  <2>2. status' => status \/ intr = "NEGEDGE"
    BY <1>1 DEF PinFalls
  <2>3. QED
    BY <1>1, <2>1, <2>2 DEF PinFalls
<1>2. CASE PinRises
  BY <1>2 DEF PinRises
<1>3. CASE InterruptBegins
  BY <1>3 DEF InterruptBegins
<1>4. CASE HandlePress
  BY <1>4 DEF HandlePress, AwaitRelease
<1>5. CASE HandleRelease
  BY <1>5 DEF HandleRelease
<1>6. CASE key_5s_cb
  BY <1>6 DEF key_5s_cb, OneShot
<1>7. CASE DebounceReads
  BY <1>7 DEF DebounceReads
<1>8. CASE DebounceUp
  BY <1>8 DEF DebounceUp, StopTiming
<1>9. CASE DebounceDown
  BY <1>9 DEF DebounceDown
<1>10. CASE UNCHANGED keyVars
  BY <1>10 DEF keyVars
<1>11. QED
  BY <1>1, <1>2, <1>3, <1>4, <1>5, <1>6, <1>7, <1>8, <1>9, <1>10 DEF KeyNext, KeyStep

\* However the pin bounces between the accesses of the handler and the timers
\* (key.c), the button stays alive, presses and not edges are counted, and the
\* edge that comes next is the one waited for.
THEOREM KeyCorrect == KeySpec => []KeyInv
<1>1. KeyIndInv => KeyInv
  BY DEF KeyIndInv
<1>2. QED
  BY <1>1, KeyStarts, KeyKept, PTL DEF KeySpec
-----------------------------------------------------------------------------
(* The relays                                                              *)

Saving == pc \in {"erase", "write", "written"}
Starting == pc = "boot" \/ (Saving /\ save.then = "boot")
Running == pc = "idle" \/ (Saving /\ save.then # "boot")
DefaultRelay(r) == [gpioPin |-> r + 1, state |-> 0]

\* An image is a function on the words, and a relay that has a pin has its own.
IsImage(image) ==
    /\ image = [w \in Words |-> image[w]]
    /\ \A r \in Relay : RelayOf(image, r).gpioPin \in {0, FF, r + 1}

\* The sector against RAM: its first words while a save writes, all of them after.
OnFlash ==
    /\ pc = "write" => \A w \in Words : flash[w] = IF w < word THEN temp_data[w] ELSE Erased[w]
    /\ pc \in {"written", "boot", "idle"} => flash = temp_data

\* What RAM holds, by the caller of the save.
InRam ==
    /\ pc # "off" => temp_data[0] = CONFIG_MAGIC
    /\ Saving /\ save.given => save.then # "notify"
    /\ Saving /\ save.then = "boot" => temp_data = BlankConfig
    /\ Saving /\ save.then = "return" => \A r \in Relay : RelayOf(temp_data, r) = DefaultRelay(r)
    /\ Running => temp_data[InitWord] # 0

\* An image that relay_init would take as it is has every relay on its pin.
Whole(image) ==
    image[0] = CONFIG_MAGIC /\ image[InitWord] # 0 => \A r \in Relay : RelayOf(image, r).gpioPin = r + 1
WholeImages ==
    ~halfSaved => /\ pc # "write" => Whole(flash)
                  /\ pc # "off" => Whole(temp_data)

\* The pins float until the relays are initialised and follow RAM from then on.
Driven(r) ==
    LET w == RelayOf(temp_data, r)
    IN  w.gpioPin \in Pins => \/ gpio[w.gpioPin] = w.state
                              \/ gpio[w.gpioPin] = Float /\ w.state = 0
PinsFollow ==
    /\ pc = "off" \/ Starting => gpio = [p \in Pins |-> Float]
    /\ Running => \A r \in Relay : Driven(r)

\* No listener is registered before relay_init returns, one that is not
\* registered was told nothing, and only the relay that a save will be notified
\* of may differ from what was told.
NotToldYet(r) == Saving /\ save.relay = r
Told ==
    /\ Starting \/ (Saving /\ save.then = "return") => Registered = {}
    /\ pc # "off" => \A l \in Listeners \ Registered : told[l] = Unheard[l]
    /\ Running => \A l \in Listeners, r \in Relay :
                      NotToldYet(r) \/ told[l][r] \in {Unknown, RelayOf(temp_data, r).state}

\* Unless a save was cut short, the relays were last left as the sector, or the
\* defaults that replace it, will have them.
LeftAs(image) ==
    last = [r \in Relay |-> IF image[0] = CONFIG_MAGIC /\ image[InitWord] # 0
                            THEN RelayOf(image, r) ELSE DefaultRelay(r)]
Restored ==
    /\ ~cut /\ pc \in {"off", "boot", "idle"} => LeftAs(flash)
    /\ ~cut /\ Saving /\ save.then # "notify" => LeftAs(temp_data)

RelayIndInv ==
    /\ RelayTypeOK /\ IsImage(flash) /\ IsImage(temp_data)
    /\ OnFlash /\ InRam /\ WholeImages /\ PinsFollow /\ Told /\ Restored

\* The words of the flash sector: the magic number, one per relay, and the mark of an initialised table.
LEMMA WordFacts ==
  /\ 0 \in Words /\ InitWord \in Words /\ InitWord # 0
  /\ FF \notin Pins /\ 0 \notin Pins /\ CONFIG_MAGIC # FF /\ Relay # {} /\ RELAY_COUNT - 1 \in Relay
  /\ \A r \in Relay : r + 1 \in Words /\ r + 1 \in Pins /\ r + 1 # 0 /\ r + 1 # InitWord
  /\ \A w \in Words : w = 0 \/ w = InitWord \/ (\E r \in Relay : w = r + 1)
<1>1. \A w \in Words : w # 0 /\ w # InitWord => w - 1 \in Relay /\ w = (w - 1) + 1
  BY RelayAssumption DEF Words, InitWord, Relay
<1>2. QED
  BY <1>1, RelayAssumption DEF Words, InitWord, Relay, Pins, FF, CONFIG_MAGIC

\* The three images that the code makes.
LEMMA ErasedImage ==
  /\ ImageOK(Erased) /\ IsImage(Erased) /\ Erased[0] = FF
<1> USE WordFacts
<1>1. Erased[0] = FF /\ Erased[InitWord] = FF /\ DOMAIN Erased = Words
  BY RelayAssumption DEF Erased, InitWord
<1>2. ASSUME NEW r \in Relay PROVE RelayOf(Erased, r) = [gpioPin |-> FF, state |-> FF]
  BY DEF Erased, RelayOf, Pins
<1>3. QED
  BY <1>1, <1>2 DEF ImageOK, IsImage, RelayWord, Erased

\* config_init's blank configuration is an image.
LEMMA BlankImage ==
  /\ ImageOK(BlankConfig) /\ IsImage(BlankConfig)
  /\ BlankConfig[0] = CONFIG_MAGIC /\ BlankConfig[InitWord] = 0
  /\ \A r \in Relay : RelayOf(BlankConfig, r) = [gpioPin |-> 0, state |-> 0]
<1> USE WordFacts
<1>1. BlankConfig[0] = CONFIG_MAGIC /\ BlankConfig[InitWord] = 0 /\ DOMAIN BlankConfig = Words
  BY DEF BlankConfig
<1>2. ASSUME NEW r \in Relay PROVE RelayOf(BlankConfig, r) = [gpioPin |-> 0, state |-> 0]
  BY DEF BlankConfig, RelayOf
<1>3. QED
  BY <1>1, <1>2 DEF ImageOK, IsImage, RelayWord, BlankConfig

\* relay_init's defaults are an image.
LEMMA DefaultsImage ==
  ASSUME NEW image, ImageOK(image)
  PROVE  /\ ImageOK(Defaults(image)) /\ IsImage(Defaults(image))
         /\ Defaults(image)[0] = image[0] /\ Defaults(image)[InitWord] = 1
         /\ \A r \in Relay : RelayOf(Defaults(image), r) = DefaultRelay(r)
<1> USE WordFacts
<1>1. Defaults(image)[0] = image[0] /\ Defaults(image)[InitWord] = 1 /\ DOMAIN Defaults(image) = Words
  BY DEF Defaults
<1>2. ASSUME NEW r \in Relay PROVE RelayOf(Defaults(image), r) = DefaultRelay(r)
  BY DEF Defaults, RelayOf, DefaultRelay
<1>3. Defaults(image) = [w \in Words |-> Defaults(image)[w]]
  BY DEF Defaults
<1>4. \A r \in Relay : DefaultRelay(r) \in RelayWord /\ DefaultRelay(r).gpioPin = r + 1
  BY DEF RelayWord, DefaultRelay
<1>5. QED
  BY <1>1, <1>2, <1>3, <1>4 DEF ImageOK, IsImage

\* What relay_set_state makes of an image.
OneStateSet(image, new, r, s) ==
    /\ ImageOK(new) /\ IsImage(new) /\ new[0] = image[0] /\ new[InitWord] = image[InitWord]
    /\ \A q \in Relay : /\ RelayOf(new, q).gpioPin = RelayOf(image, q).gpioPin
                        /\ q # r => RelayOf(new, q) = RelayOf(image, q)
    /\ RelayOf(new, r).state = s

\* relay_set_state writes the state of one relay in the image.
LEMMA SetImage ==
  ASSUME NEW image, ImageOK(image), IsImage(image), NEW r \in Relay, NEW s \in {0, 1}
  PROVE  OneStateSet(image, [image EXCEPT ![r + 1].state = s], r, s)
<1> DEFINE new == [image EXCEPT ![r + 1].state = s]
<1> USE WordFacts
<1>1. DOMAIN image = Words /\ RelayOf(image, r) \in RelayWord
  BY DEF ImageOK
<1>2. new[0] = image[0] /\ new[InitWord] = image[InitWord] /\ DOMAIN new = Words
  BY <1>1
<1>3. PICK p \in {0, FF} \cup Pins, t \in {0, 1, FF} : image[r + 1] = [gpioPin |-> p, state |-> t]
  BY <1>1 DEF RelayOf, RelayWord
<1>4. new[r + 1] = [gpioPin |-> p, state |-> s]
  BY <1>1, <1>3
<1>5. /\ RelayOf(new, r).gpioPin = RelayOf(image, r).gpioPin /\ RelayOf(new, r).state = s
      /\ RelayOf(new, r) \in RelayWord
  BY <1>3, <1>4 DEF RelayOf, RelayWord
<1>6. ASSUME NEW q \in Relay, q # r PROVE RelayOf(new, q) = RelayOf(image, q)
  <2>1. q + 1 # r + 1 /\ q + 1 \in Words
    BY <1>6, RelayAssumption DEF Relay
  <2>2. QED
    BY <1>1, <2>1 DEF RelayOf
<1>7. \A q \in Relay : RelayOf(new, q) \in RelayWord
  BY <1>5, <1>6 DEF ImageOK
<1>8. new = [w \in Words |-> new[w]]
  BY <1>1
<1>9. QED
  BY <1>2, <1>5, <1>6, <1>7, <1>8 DEF ImageOK, IsImage, OneStateSet

\* A programmed word.
LEMMA WrittenImage ==
  ASSUME RelayTypeOK, IsImage(flash), IsImage(temp_data), NEW new,
         new = [flash EXCEPT ![word] = temp_data[word]]
  PROVE  /\ ImageOK(new) /\ IsImage(new)
         /\ \A w \in Words : new[w] = IF w = word THEN temp_data[w] ELSE flash[w]
<1> USE WordFacts DEF RelayTypeOK
<1>1. DOMAIN flash = Words /\ word \in Words
  BY DEF ImageOK
<1>2. \A w \in Words : new[w] = IF w = word THEN temp_data[w] ELSE flash[w]
  BY <1>1
<1>3. \A r \in Relay : RelayOf(new, r) \in {RelayOf(temp_data, r), RelayOf(flash, r)}
  BY <1>2 DEF RelayOf
<1>4. new[0] \in {temp_data[0], flash[0]} /\ new[InitWord] \in {temp_data[InitWord], flash[InitWord]}
  BY <1>2
<1>5. DOMAIN new = Words /\ new = [w \in Words |-> new[w]]
  BY <1>1
<1>6. ImageOK(new)
  BY <1>3, <1>4, <1>5 DEF ImageOK
<1>7. QED
  BY <1>2, <1>3, <1>5, <1>6 DEF IsImage
\* The steps of the relays; toggling a relay sets it to one of the states.
LEMMA RelayCases ==
  ASSUME [RelayNext]_relayVars
  PROVE  \/ EraseSector \/ WriteWord \/ CopyFaults \/ Boot \/ RelayStart \/ SaveReturns \/ PowerLoss
         \/ \E r \in Relay, s \in {0, 1} : relay_set_state(r, s)
         \/ \E l \in Listeners : relay_register_listener(l) \/ relay_unregister_listener(l)
         \/ UNCHANGED relayVars
<1>1. ASSUME NEW r \in Relay, relay_toggle_state(r)
      PROVE  relay_set_state(r, 0) \/ relay_set_state(r, 1)
  <2>1. CASE RelayOf(temp_data, r).state = 0
    BY <1>1, <2>1 DEF relay_toggle_state, relay_set_state
  <2>2. CASE RelayOf(temp_data, r).state # 0
    BY <1>1, <2>2 DEF relay_toggle_state, relay_set_state
  <2>3. QED
    BY <2>1, <2>2
<1>2. QED
  BY <1>1 DEF RelayNext, RelayStep, RelayCall

\* relay_set_state, up to its call of config_save.
LEMMA SetStep ==
  ASSUME RelayIndInv, NEW r \in Relay, NEW s \in {0, 1}, relay_set_state(r, s)
  PROVE  /\ OneStateSet(temp_data, temp_data', r, s) /\ gpio' = Drive(gpio, temp_data', r)
         /\ pc = "idle" /\ pc' = "erase"
         /\ ~save'.given /\ save'.then = "notify" /\ save'.relay = r
         /\ UNCHANGED <<flash, listeners, told, last, cut, halfSaved, losses, word>>
<1>1. ImageOK(temp_data) /\ IsImage(temp_data) /\ temp_data' = [temp_data EXCEPT ![r + 1].state = s]
  BY DEF RelayIndInv, RelayTypeOK, relay_set_state, SetRelay
<1>2. save' = [given |-> FALSE, then |-> "notify", relay |-> r]
  BY DEF relay_set_state, SetRelay, CallSave
<1>3. ~save'.given
  BY <1>2, Zenon
<1>4. /\ pc = "idle" /\ pc' = "erase" /\ gpio' = Drive(gpio, temp_data', r)
      /\ UNCHANGED <<flash, listeners, told, last, cut, halfSaved, losses, word>>
  BY DEF relay_set_state, SetRelay, CallSave
<1>5. OneStateSet(temp_data, temp_data', r, s)
  BY <1>1, SetImage
<1>6. QED
  BY <1>2, <1>3, <1>4, <1>5

Images == ImageOK(flash) /\ IsImage(flash) /\ ImageOK(temp_data) /\ IsImage(temp_data)

\* The images keep their shape.
LEMMA ImagesKept == RelayIndInv /\ [RelayNext]_relayVars => Images'
<1> SUFFICES ASSUME RelayIndInv, [RelayNext]_relayVars
             PROVE  ImageOK(flash') /\ IsImage(flash') /\ ImageOK(temp_data') /\ IsImage(temp_data')
  BY DEF Images
<1>0. ImageOK(flash) /\ IsImage(flash) /\ ImageOK(temp_data) /\ IsImage(temp_data) /\ RelayTypeOK
  BY DEF RelayIndInv, RelayTypeOK
<1>1. CASE EraseSector
  BY <1>0, <1>1, ErasedImage DEF EraseSector
<1>2. CASE WriteWord
  BY <1>0, <1>2, WrittenImage DEF WriteWord
<1>3. CASE Boot
  BY <1>0, <1>3, BlankImage DEF Boot
<1>4. CASE RelayStart
  BY <1>0, <1>4, DefaultsImage DEF RelayStart
<1>5. ASSUME NEW r \in Relay, NEW s \in {0, 1}, relay_set_state(r, s)
      PROVE  ImageOK(flash') /\ IsImage(flash') /\ ImageOK(temp_data') /\ IsImage(temp_data')
  BY <1>0, <1>5, SetStep DEF OneStateSet
<1>6. CASE UNCHANGED <<flash, temp_data>>
  BY <1>0, <1>6
<1>7. QED
  BY <1>1, <1>2, <1>3, <1>4, <1>5, <1>6, RelayCases
     DEF CopyFaults, SaveReturns, PowerLoss, relay_register_listener, relay_unregister_listener, relayVars

\* The pins are undriven or carry a state of a relay word.
LEMMA GpioKept == RelayIndInv /\ [RelayNext]_relayVars => gpio' \in [Pins -> {Float, 0, 1, FF}]
<1> SUFFICES ASSUME RelayIndInv, [RelayNext]_relayVars PROVE gpio' \in [Pins -> {Float, 0, 1, FF}]
  OBVIOUS
<1>0. gpio \in [Pins -> {Float, 0, 1, FF}] /\ ImageOK(temp_data) /\ IsImage(temp_data)
  BY DEF RelayIndInv, RelayTypeOK
<1>1. CASE PowerOff
  BY <1>1 DEF PowerOff
<1>2. CASE RelayStart
  <2>1. \A r \in Relay : RelayOf(temp_data, r).state \in {Float, 0, 1, FF}
    BY <1>0 DEF ImageOK, RelayWord
  <2>2. DriveAll(temp_data) \in [Pins -> {Float, 0, 1, FF}]
    BY <2>1 DEF DriveAll
  <2>3. QED
    BY <1>0, <1>2, <2>2 DEF RelayStart
<1>3. ASSUME NEW r \in Relay, NEW s \in {0, 1}, relay_set_state(r, s)
      PROVE  gpio' \in [Pins -> {Float, 0, 1, FF}]
  <2>1. ImageOK(temp_data') /\ gpio' = Drive(gpio, temp_data', r)
    BY <1>3, SetStep DEF OneStateSet
  <2>2. RelayOf(temp_data', r).state \in {Float, 0, 1, FF}
    BY <2>1 DEF ImageOK, RelayWord
  <2>3. QED
    BY <1>0, <2>1, <2>2 DEF Drive
<1>4. CASE UNCHANGED gpio
  BY <1>0, <1>4
<1>5. QED
  BY <1>1, <1>2, <1>3, <1>4, RelayCases
     DEF EraseSector, WriteWord, CopyFaults, Boot, SaveReturns, PowerLoss,
         relay_register_listener, relay_unregister_listener, relayVars

ControlOK ==
    /\ pc \in {"off", "boot", "idle", "erase", "write", "written"}
    /\ word \in Words
    /\ save \in [given : BOOLEAN, then : {"boot", "return", "notify"}, relay : Relay]
    /\ losses \in 0 .. MaxLosses

\* Where the driver is between two calls.
LEMMA ControlKept == RelayIndInv /\ [RelayNext]_relayVars => ControlOK'
<1> SUFFICES ASSUME ControlOK, [RelayNext]_relayVars PROVE ControlOK'
  BY DEF RelayIndInv, RelayTypeOK, ControlOK
<1> USE DEF ControlOK
<1>1. CASE EraseSector
  BY <1>1, WordFacts DEF EraseSector
<1>2. CASE WriteWord
  BY <1>2, RelayAssumption DEF WriteWord, LastWord, Words, InitWord
<1>3. ASSUME NEW g \in BOOLEAN, NEW t \in {"boot", "return", "notify"}, NEW r \in Relay,
             CallSave(g, t, r), UNCHANGED <<word, losses>>
      PROVE  ControlOK'
  BY <1>3 DEF CallSave
<1>4. CASE Boot
  <2>1. CASE CallSave(TRUE, "boot", 0)
    <3>1. 0 \in Relay /\ "boot" \in {"boot", "return", "notify"} /\ UNCHANGED <<word, losses>>
      BY <1>4, RelayAssumption DEF Boot, Relay
    <3>2. QED
      BY <1>3, <2>1, <3>1, Zenon
  <2>2. CASE pc' = "boot" /\ save' = save
    BY <1>4, <2>2 DEF Boot
  <2>3. QED
    BY <1>4, <2>1, <2>2 DEF Boot
<1>5. CASE RelayStart
  <2>1. CASE CallSave(TRUE, "return", 0)
    <3>1. 0 \in Relay /\ "return" \in {"boot", "return", "notify"} /\ UNCHANGED <<word, losses>>
      BY <1>5, RelayAssumption DEF RelayStart, Relay
    <3>2. QED
      BY <1>3, <2>1, <3>1, Zenon
  <2>2. CASE pc' = "idle" /\ save' = save
    BY <1>5, <2>2 DEF RelayStart
  <2>3. QED
    BY <1>5, <2>1, <2>2 DEF RelayStart, Returned
<1>6. ASSUME NEW r \in Relay, NEW s \in {0, 1}, relay_set_state(r, s) PROVE ControlOK'
  BY <1>3, <1>6 DEF relay_set_state, SetRelay
<1>7. CASE PowerLoss
  BY <1>7, RelayAssumption DEF PowerLoss
<1>8. CASE CopyFaults \/ SaveReturns
  BY <1>8 DEF CopyFaults, SaveReturns, Returned
<1>9. CASE UNCHANGED <<pc, word, save, losses>>
  BY <1>9
<1>10. QED
  BY <1>1, <1>2, <1>4, <1>5, <1>6, <1>7, <1>8, <1>9, RelayCases
     DEF relay_register_listener, relay_unregister_listener, relayVars
ListenersOK ==
    /\ listeners \in [1 .. MAX_RELAY_LISTENERS -> Listeners \cup {"NULL"}]
    /\ told \in [Listeners -> [Relay -> {Unknown, 0, 1, FF}]]

\* The types of the listeners and what they were told.
LEMMA ListenersKept == RelayIndInv /\ [RelayNext]_relayVars => ListenersOK'
<1> SUFFICES ASSUME RelayIndInv, [RelayNext]_relayVars PROVE ListenersOK'
  OBVIOUS
<1>0. ListenersOK /\ Unheard \in [Listeners -> [Relay -> {Unknown, 0, 1, FF}]]
  BY DEF RelayIndInv, RelayTypeOK, ListenersOK, Unheard
<1>1. CASE Boot
  BY <1>0, <1>1 DEF Boot, ListenersOK
<1>2. CASE SaveReturns
  <2>1. save.relay \in Relay /\ RelayOf(temp_data, save.relay).state \in {0, 1, FF}
    BY DEF RelayIndInv, RelayTypeOK, ImageOK, RelayWord
  <2>2. CASE relay_notify_listeners(save.relay)
    <3>1. \A l \in Listeners : told'[l] \in [Relay -> {Unknown, 0, 1, FF}]
      BY <1>0, <2>1, <2>2 DEF relay_notify_listeners, ListenersOK
    <3>2. told' \in [Listeners -> [Relay -> {Unknown, 0, 1, FF}]]
      BY <2>2, <3>1 DEF relay_notify_listeners
    <3>3. QED
      BY <1>0, <1>2, <3>2 DEF SaveReturns, ListenersOK
  <2>3. QED
    BY <1>0, <1>2, <2>2 DEF SaveReturns, ListenersOK
<1>3. ASSUME NEW l \in Listeners, relay_register_listener(l) PROVE ListenersOK'
  BY <1>0, <1>3 DEF relay_register_listener, ListenersOK
<1>4. ASSUME NEW l \in Listeners, relay_unregister_listener(l) PROVE ListenersOK'
  BY <1>0, <1>4 DEF relay_unregister_listener, ListenersOK
<1>5. CASE UNCHANGED <<listeners, told>>
  BY <1>0, <1>5 DEF ListenersOK
<1>6. QED
  BY <1>1, <1>2, <1>3, <1>4, <1>5, RelayCases
     DEF EraseSector, WriteWord, CopyFaults, RelayStart, PowerLoss, relay_set_state, relayVars

\* The types of what has been saved and cut short.
LEMMA HistoryKept ==
  RelayIndInv /\ [RelayNext]_relayVars => last' \in [Relay -> RelayWord] /\ cut' \in BOOLEAN /\ halfSaved' \in BOOLEAN
<1> SUFFICES ASSUME RelayIndInv, [RelayNext]_relayVars
             PROVE  last' \in [Relay -> RelayWord] /\ cut' \in BOOLEAN /\ halfSaved' \in BOOLEAN
  OBVIOUS
<1>0. last \in [Relay -> RelayWord] /\ cut \in BOOLEAN /\ halfSaved \in BOOLEAN /\ ImageOK(temp_data)
  BY Zenon DEF RelayIndInv, RelayTypeOK
<1>1. CASE Returned(temp_data) /\ UNCHANGED halfSaved
  <2>1. last' \in [Relay -> RelayWord]
    BY <1>0, <1>1 DEF Returned, ImageOK
  <2>2. QED
    BY <1>0, <1>1, <2>1, Zenon DEF Returned
<1>2. CASE PowerLoss
  <2>1. last' = last /\ cut' = (cut \/ pc \in {"erase", "write", "written"})
        /\ halfSaved' = (halfSaved \/ (pc = "write" /\ word # 0))
    BY <1>2 DEF PowerLoss
  <2>2. QED
    BY <1>0, <2>1, Zenon
<1>3. CASE UNCHANGED <<last, cut, halfSaved>>
  BY <1>0, <1>3, Zenon
<1>4. QED
  BY <1>1, <1>2, <1>3, RelayCases
     DEF EraseSector, WriteWord, CopyFaults, Boot, RelayStart, SaveReturns, relay_set_state,
         relay_register_listener, relay_unregister_listener, relayVars

\* Types, and images that are whole.
LEMMA RelayTypeKept == RelayIndInv /\ [RelayNext]_relayVars => RelayTypeOK' /\ Images'
<1> SUFFICES ASSUME RelayIndInv, [RelayNext]_relayVars PROVE RelayTypeOK' /\ Images'
  OBVIOUS
<1>1. Images' /\ ControlOK' /\ ListenersOK'
  BY ImagesKept, ControlKept, ListenersKept
<1>2. gpio' \in [Pins -> {Float, 0, 1, FF}]
  BY GpioKept
<1>3. last' \in [Relay -> RelayWord] /\ cut' \in BOOLEAN /\ halfSaved' \in BOOLEAN
  BY HistoryKept
<1>4. QED
  BY <1>1, <1>2, <1>3, Zenon DEF RelayTypeOK, Images, ControlOK, ListenersOK

-----------------------------------------------------------------------------

\* A save programs the sector word by word, and nothing else writes to it.
LEMMA OnFlashKept == RelayIndInv /\ [RelayNext]_relayVars => OnFlash'
<1> SUFFICES ASSUME RelayIndInv, [RelayNext]_relayVars PROVE OnFlash'
  OBVIOUS
<1>0. RelayTypeOK /\ OnFlash /\ IsImage(flash) /\ IsImage(temp_data)
  BY DEF RelayIndInv
<1>1. CASE EraseSector
  BY <1>1 DEF EraseSector, OnFlash, Words
<1>2. CASE WriteWord
  <2>1. \A w \in Words : flash'[w] = IF w = word THEN temp_data[w] ELSE flash[w]
    BY <1>0, <1>2, WrittenImage DEF WriteWord
  <2>2. /\ IsImage(flash') /\ temp_data' = temp_data /\ word \in Words /\ pc = "write"
        /\ \A w \in Words : flash[w] = IF w < word THEN temp_data[w] ELSE Erased[w]
    BY <1>0, <1>2, WrittenImage DEF WriteWord, OnFlash, RelayTypeOK
  <2>3. CASE word < LastWord /\ word' = word + 1 /\ pc' = pc
    <3>1. \A w \in Words : flash'[w] = IF w < word + 1 THEN temp_data[w] ELSE Erased[w]
      BY <2>1, <2>2, RelayAssumption DEF Words, InitWord
    <3>2. QED
      BY <2>2, <2>3, <3>1 DEF OnFlash
  <2>4. CASE word = LastWord /\ word' = 0 /\ pc' = "written"
    <3>1. \A w \in Words : flash'[w] = temp_data[w]
      BY <2>1, <2>2, <2>4, RelayAssumption DEF LastWord, Words, InitWord
    <3>2. flash' = temp_data
      BY <1>0, <2>2, <3>1 DEF IsImage
    <3>3. QED
      BY <2>2, <2>4, <3>2 DEF OnFlash
  <2>5. QED
    BY <1>2, <2>3, <2>4 DEF WriteWord
<1>3. CASE Boot \/ RelayStart \/ SaveReturns \/ CopyFaults \/ PowerLoss
  BY <1>0, <1>3 DEF Boot, RelayStart, SaveReturns, CopyFaults, PowerLoss, OnFlash, CallSave, Returned
<1>4. ASSUME NEW r \in Relay, NEW s \in {0, 1}, relay_set_state(r, s) PROVE OnFlash'
  BY <1>4 DEF relay_set_state, SetRelay, CallSave, OnFlash
<1>5. CASE UNCHANGED <<flash, temp_data, pc, word>>
  BY <1>0, <1>5 DEF OnFlash
<1>6. QED
  BY <1>1, <1>2, <1>3, <1>4, <1>5, RelayCases
     DEF relay_register_listener, relay_unregister_listener, relayVars

\* The copy in RAM.
LEMMA InRamKept == RelayIndInv /\ [RelayNext]_relayVars => InRam'
<1> SUFFICES ASSUME RelayIndInv, [RelayNext]_relayVars PROVE InRam'
  OBVIOUS
<1>0. RelayTypeOK /\ InRam /\ ImageOK(temp_data) /\ IsImage(temp_data) /\ OnFlash
  BY DEF RelayIndInv, RelayTypeOK
<1> USE DEF InRam, Saving, Running
<1>1. CASE Boot
  BY <1>0, <1>1, BlankImage DEF Boot, CallSave
<1>2. CASE RelayStart
  BY <1>0, <1>2, DefaultsImage DEF RelayStart, CallSave, Returned
<1>3. CASE SaveReturns \/ EraseSector \/ WriteWord \/ CopyFaults \/ PowerLoss
  BY <1>0, <1>3 DEF SaveReturns, EraseSector, WriteWord, CopyFaults, PowerLoss, Returned, RelayTypeOK
<1>4. ASSUME NEW r \in Relay, NEW s \in {0, 1}, relay_set_state(r, s) PROVE InRam'
  BY <1>0, <1>4, SetStep DEF OneStateSet
<1>5. CASE UNCHANGED <<temp_data, pc, save>>
  BY <1>0, <1>5
<1>6. QED
  BY <1>1, <1>2, <1>3, <1>4, <1>5, RelayCases
     DEF relay_register_listener, relay_unregister_listener, relayVars
\* Only a failure between the magic and the last word leaves an image on which
\* a relay may have lost its pin.
LEMMA WholeKept == RelayIndInv /\ [RelayNext]_relayVars => WholeImages'
<1> SUFFICES ASSUME RelayIndInv, [RelayNext]_relayVars, ~halfSaved'
             PROVE  (pc' # "write" => Whole(flash')) /\ (pc' # "off" => Whole(temp_data'))
  BY DEF WholeImages
<1>0. RelayTypeOK /\ WholeImages /\ OnFlash /\ InRam /\ ImageOK(temp_data)
  BY DEF RelayIndInv, RelayTypeOK
<1>1. CASE Boot
  <2>1. Whole(flash)
    BY <1>0, <1>1 DEF WholeImages, Boot
  <2>2. Whole(BlankConfig)
    BY BlankImage DEF Whole
  <2>3. QED
    BY <1>1, <2>1, <2>2 DEF Boot
<1>2. CASE RelayStart
  <2>1. Whole(flash) /\ Whole(temp_data)
    BY <1>0, <1>2 DEF WholeImages, RelayStart
  <2>2. Whole(Defaults(temp_data))
    BY <1>0, DefaultsImage DEF Whole, DefaultRelay
  <2>3. QED
    BY <1>2, <2>1, <2>2 DEF RelayStart
<1>3. CASE EraseSector \/ WriteWord
  <2>1. OnFlash' /\ UNCHANGED <<halfSaved, temp_data>> /\ pc' \in {"write", "written"} /\ pc # "off"
    BY <1>3, OnFlashKept DEF EraseSector, WriteWord
  <2>2. pc' # "write" => flash' = temp_data
    BY <2>1 DEF OnFlash
  <2>3. QED
    BY <1>0, <2>1, <2>2 DEF WholeImages
<1>4. CASE PowerLoss
  <2>1. pc' = "off" /\ ~halfSaved /\ (pc = "write" => word = 0) /\ flash' = flash
    BY <1>4 DEF PowerLoss
  <2>2. CASE pc = "write"
    <3>1. flash[0] = FF
      BY <1>0, <2>1, <2>2, WordFacts, ErasedImage DEF OnFlash
    <3>2. QED
      BY <2>1, <3>1, WordFacts DEF Whole
  <2>3. QED
    BY <1>0, <2>1, <2>2 DEF WholeImages
<1>5. CASE SaveReturns \/ CopyFaults
  <2>1. pc = "written" /\ UNCHANGED <<flash, temp_data, halfSaved>>
    BY <1>5 DEF SaveReturns, CopyFaults, CopyStep
  <2>2. QED
    BY <1>0, <2>1 DEF WholeImages
<1>6. ASSUME NEW r \in Relay, NEW s \in {0, 1}, relay_set_state(r, s)
      PROVE  Whole(flash') /\ Whole(temp_data')
  <2>1. Whole(flash) /\ Whole(temp_data) /\ flash' = flash
    BY <1>0, <1>6, SetStep DEF WholeImages
  <2>2. QED
    BY <1>6, <2>1, SetStep DEF Whole, OneStateSet
<1>7. CASE UNCHANGED <<flash, temp_data, pc, halfSaved>>
  BY <1>0, <1>7 DEF WholeImages
<1>8. QED
  BY <1>1, <1>2, <1>3, <1>4, <1>5, <1>6, <1>7, RelayCases
     DEF relay_register_listener, relay_unregister_listener, relayVars

\* A pin belongs to one relay, so driving a relay changes no other's pin.
LEMMA OwnPin ==
  ASSUME NEW image, IsImage(image), NEW r \in Relay, RelayOf(image, r).gpioPin \in Pins
  PROVE  RelayOf(image, r).gpioPin = r + 1
  BY WordFacts DEF IsImage

\* The pins follow the copy in RAM.
LEMMA PinsFollowKept == RelayIndInv /\ [RelayNext]_relayVars => PinsFollow'
<1> SUFFICES ASSUME RelayIndInv, [RelayNext]_relayVars PROVE PinsFollow'
  OBVIOUS
<1>0. /\ RelayTypeOK /\ PinsFollow /\ InRam /\ IsImage(temp_data) /\ ImageOK(temp_data)
      /\ gpio \in [Pins -> {Float, 0, 1, FF}]
  BY DEF RelayIndInv, RelayTypeOK
<1> USE DEF Saving, Starting, Running
<1>1. CASE PowerOff /\ pc' = "off"
  BY <1>1 DEF PowerOff, PinsFollow
<1>2. CASE Boot
  BY <1>0, <1>2 DEF Boot, CallSave, PinsFollow
<1>3. CASE RelayStart
  <2>1. CASE temp_data[InitWord] # 0
    <3>1. gpio' = DriveAll(temp_data) /\ temp_data' = temp_data /\ pc' = "idle"
      BY <1>3, <2>1 DEF RelayStart, Returned
    <3>2. ASSUME NEW r \in Relay, RelayOf(temp_data, r).gpioPin \in Pins
          PROVE  DriveAll(temp_data)[r + 1] = RelayOf(temp_data, r).state /\ RelayOf(temp_data, r).gpioPin = r + 1
      <4>1. RelayOf(temp_data, r).gpioPin = r + 1 /\ r + 1 \in Pins
        BY <1>0, <3>2, OwnPin
      <4>2. \A q \in Relay : RelayOf(temp_data, q).gpioPin = r + 1 => q = r
        BY <1>0, <4>1, OwnPin DEF Relay
      <4>3. (CHOOSE q \in Relay : RelayOf(temp_data, q).gpioPin = r + 1) = r
        BY <4>1, <4>2
      <4>4. QED
        BY <4>1, <4>3 DEF DriveAll
    <3>3. QED
      BY <3>1, <3>2 DEF PinsFollow, Driven
  <2>2. CASE temp_data[InitWord] = 0
    <3>1. /\ gpio' = gpio /\ gpio = [p \in Pins |-> Float] /\ pc' = "erase" /\ save'.then = "return"
          /\ temp_data' = Defaults(temp_data)
      BY <1>0, <1>3, <2>2 DEF RelayStart, PinsFollow, CallSave
    <3>2. \A r \in Relay : RelayOf(temp_data', r).state = 0
      BY <1>0, <3>1, DefaultsImage DEF DefaultRelay
    <3>3. QED
      BY <3>1, <3>2 DEF PinsFollow, Driven
  <2>3. QED
    BY <2>1, <2>2
<1>4. CASE EraseSector \/ WriteWord \/ SaveReturns
  BY <1>0, <1>4 DEF EraseSector, WriteWord, SaveReturns, Returned, PinsFollow, Driven
<1>5. ASSUME NEW r \in Relay, NEW s \in {0, 1}, relay_set_state(r, s) PROVE PinsFollow'
  <2>1. /\ OneStateSet(temp_data, temp_data', r, s) /\ gpio' = Drive(gpio, temp_data', r)
        /\ pc = "idle" /\ pc' = "erase" /\ save'.then = "notify"
    BY <1>5, SetStep
  <2>2. IsImage(temp_data')
    BY <2>1 DEF OneStateSet
  <2>3. \A p \in Pins : gpio'[p] = IF p = RelayOf(temp_data', r).gpioPin THEN s ELSE gpio[p]
    BY <1>0, <2>1 DEF Drive, OneStateSet
  <2>4. ASSUME NEW q \in Relay, RelayOf(temp_data', q).gpioPin \in Pins
        PROVE  \/ gpio'[RelayOf(temp_data', q).gpioPin] = RelayOf(temp_data', q).state
               \/ gpio'[RelayOf(temp_data', q).gpioPin] = Float /\ RelayOf(temp_data', q).state = 0
    <3>1. CASE q = r
      BY <2>1, <2>3, <2>4, <3>1 DEF OneStateSet
    <3>2. CASE q # r
      <4>1. RelayOf(temp_data', q) = RelayOf(temp_data, q)
        BY <2>1, <3>2 DEF OneStateSet
      <4>2. RelayOf(temp_data', q).gpioPin # RelayOf(temp_data', r).gpioPin
        BY <2>2, <2>4, <3>2, OwnPin DEF Relay
      <4>3. gpio'[RelayOf(temp_data', q).gpioPin] = gpio[RelayOf(temp_data, q).gpioPin]
        BY <2>3, <2>4, <4>1, <4>2
      <4>4. Driven(q)
        BY <1>0, <2>1 DEF PinsFollow
      <4>5. QED
        BY <2>4, <4>1, <4>3, <4>4 DEF Driven
    <3>3. QED
      BY <3>1, <3>2
  <2>5. QED
    BY <2>1, <2>4 DEF PinsFollow, Driven
<1>6. CASE UNCHANGED <<gpio, temp_data, pc, save>>
  BY <1>0, <1>6 DEF PinsFollow, Driven
<1>7. QED
  BY <1>1, <1>2, <1>3, <1>4, <1>5, <1>6, RelayCases
     DEF CopyFaults, PowerLoss, relay_register_listener, relay_unregister_listener, relayVars
\* What the listeners know, by the call that is under way.
LEMMA ToldKept == RelayIndInv /\ [RelayNext]_relayVars => Told'
<1> SUFFICES ASSUME RelayIndInv, [RelayNext]_relayVars PROVE Told'
  OBVIOUS
<1>0. RelayTypeOK /\ Told /\ ListenersOK
  BY DEF RelayIndInv, RelayTypeOK, ListenersOK
<1>1. \A l \in Listeners, r \in Relay : Unheard[l][r] = Unknown
  BY DEF Unheard
<1>2. Starting \/ (Saving /\ save.then = "return") =>
         Registered = {} /\ \A l \in Listeners : told[l] = Unheard[l] /\ \A r \in Relay : told[l][r] = Unknown
  BY <1>0, <1>1 DEF Told, Starting, Saving
<1>3. ASSUME UNCHANGED <<told, listeners>>, Starting \/ (Saving /\ save.then = "return") PROVE Told'
  <2>1. Registered' = {} /\ \A l \in Listeners : told'[l] = Unheard[l]
    BY <1>2, <1>3 DEF Registered
  <2>2. \A l \in Listeners, r \in Relay : told'[l][r] = Unknown
    BY <1>2, <1>3
  <2>3. QED
    BY <2>1, <2>2 DEF Told
<1> USE DEF Saving, Starting, Running, NotToldYet
<1>4. CASE Boot
  <2>1. Registered' = {} /\ told' = Unheard /\ pc' \in {"boot", "erase"} /\ (pc' = "erase" => save'.then = "boot")
    BY <1>4 DEF Boot, Registered, CallSave
  <2>2. QED
    BY <2>1 DEF Told
<1>5. CASE RelayStart
  BY <1>3, <1>5 DEF RelayStart
<1>6. CASE EraseSector \/ WriteWord
  <2>1. /\ UNCHANGED <<told, listeners, temp_data, save>> /\ pc \in {"erase", "write"}
        /\ pc' \in {"write", "written"} /\ Registered' = Registered
    BY <1>6 DEF EraseSector, WriteWord, Registered
  <2>2. QED
    BY <1>0, <2>1 DEF Told
<1>7. CASE SaveReturns
  <2>1. UNCHANGED <<listeners, temp_data, save>> /\ pc = "written" /\ Registered' = Registered
    BY <1>7 DEF SaveReturns, Registered
  <2>2. CASE save.then = "boot"
    BY <1>3, <1>7, <2>1, <2>2 DEF SaveReturns
  <2>3. CASE save.then = "return"
    BY <1>3, <1>7, <2>1, <2>3 DEF SaveReturns
  <2>4. CASE save.then = "notify"
    <3>1. pc' = "idle" /\ relay_notify_listeners(save.relay) /\ save.relay \in Relay
      BY <1>0, <1>7, <2>4 DEF SaveReturns, Returned, RelayTypeOK
    <3>2. ASSUME NEW l \in Listeners \ Registered PROVE told'[l] = Unheard[l]
      BY <1>0, <2>1, <3>1 DEF relay_notify_listeners, Notified, Told
    <3>3. ASSUME NEW l \in Registered \cap Listeners, NEW r \in Relay
          PROVE  told'[l][r] \in {Unknown, RelayOf(temp_data, r).state}
      <4>1. told'[l] = [told[l] EXCEPT ![save.relay] = RelayOf(temp_data, save.relay).state]
        BY <3>1 DEF relay_notify_listeners, Notified
      <4>2. told[l] \in [Relay -> {Unknown, 0, 1, FF}]
        BY <1>0 DEF ListenersOK
      <4>3. r = save.relay \/ told[l][r] \in {Unknown, RelayOf(temp_data, r).state}
        BY <1>0, <2>1, <2>4 DEF Told
      <4>4. QED
        BY <3>1, <4>1, <4>2, <4>3
    <3>4. QED
      BY <1>1, <2>1, <3>1, <3>2, <3>3 DEF Told
  <2>5. QED
    BY <1>7, <2>2, <2>3, <2>4 DEF SaveReturns
<1>8. CASE pc' = "off"
  BY <1>8 DEF Told
<1>9. ASSUME NEW r \in Relay, NEW s \in {0, 1}, relay_set_state(r, s) PROVE Told'
  <2>1. /\ OneStateSet(temp_data, temp_data', r, s) /\ pc = "idle" /\ pc' = "erase"
        /\ save'.then = "notify" /\ save'.relay = r /\ UNCHANGED <<listeners, told>>
    BY <1>9, SetStep
  <2>2. Registered' = Registered
    BY <2>1 DEF Registered
  <2>3. QED
    BY <1>0, <2>1, <2>2 DEF Told, OneStateSet
<1>10. ASSUME NEW l \in Listeners, relay_register_listener(l) PROVE Told'
  <2>1. Registered \subseteq Registered'
    BY <1>0, <1>10 DEF relay_register_listener, Registered, ListenersOK
  <2>2. UNCHANGED <<temp_data, pc, save, told>> /\ pc = "idle"
    BY <1>10 DEF relay_register_listener
  <2>3. QED
    BY <1>0, <2>1, <2>2 DEF Told
<1>11. ASSUME NEW l \in Listeners, relay_unregister_listener(l) PROVE Told'
  <2>1. UNCHANGED <<temp_data, pc, save>> /\ pc = "idle"
    BY <1>11 DEF relay_unregister_listener
  <2>2. PICK i \in DOMAIN listeners :
            /\ listeners[i] = l
            /\ listeners' = [listeners EXCEPT ![i] = "NULL"]
            /\ told' = IF \E j \in DOMAIN listeners : listeners'[j] = l THEN told
                       ELSE [told EXCEPT ![l] = Unheard[l]]
    BY <1>11 DEF relay_unregister_listener
  <2>3. \A k \in Listeners \ Registered' : k = l \/ k \notin Registered
    BY <1>0, <2>2 DEF Registered, ListenersOK
  <2>4. l \notin Registered' => ~\E j \in DOMAIN listeners : listeners'[j] = l
    BY <1>0, <2>2, RelayAssumption DEF Registered, ListenersOK
  <2>5. \A k \in Listeners : told'[k] = told[k] \/ (k = l /\ told'[k] = Unheard[k])
    BY <1>0, <2>2 DEF ListenersOK
  <2>6. l \notin Registered' => told'[l] = Unheard[l]
    BY <1>0, <2>2, <2>4 DEF ListenersOK
  <2>7. \A k \in Listeners \ Registered' : told'[k] = Unheard[k]
    BY <1>0, <2>1, <2>3, <2>5, <2>6 DEF Told
  <2>8. \A k \in Listeners, r \in Relay : told'[k][r] \in {Unknown, RelayOf(temp_data, r).state}
    BY <1>0, <1>1, <2>1, <2>5 DEF Told
  <2>9. QED
    BY <2>1, <2>7, <2>8 DEF Told
<1>12. CASE UNCHANGED relayVars
  BY <1>0, <1>12 DEF Told, Registered, relayVars
<1>13. QED
  BY <1>4, <1>5, <1>6, <1>7, <1>8, <1>9, <1>10, <1>11, <1>12, RelayCases
     DEF CopyFaults, PowerLoss

\* What the next start will find, unless a save is cut short.
LEMMA RestoredKept == RelayIndInv /\ [RelayNext]_relayVars => Restored'
<1> SUFFICES ASSUME RelayIndInv, [RelayNext]_relayVars PROVE Restored'
  OBVIOUS
<1>0. RelayTypeOK /\ Restored /\ OnFlash /\ InRam /\ ImageOK(temp_data)
  BY DEF RelayIndInv, RelayTypeOK
<1> USE DEF Saving, Running
<1>1. CASE Boot
  BY <1>0, <1>1, BlankImage DEF Boot, CallSave, Restored, LeftAs
<1>2. CASE Returned(temp_data) /\ temp_data[InitWord] # 0 /\ temp_data[0] = CONFIG_MAGIC /\ flash' = temp_data
  <2>1. last' = [r \in Relay |-> RelayOf(temp_data, r)] /\ pc' = "idle"
    BY <1>2 DEF Returned
  <2>2. QED
    BY <1>2, <2>1 DEF Restored, LeftAs
<1>3. CASE RelayStart
  <2>1. CASE temp_data[InitWord] # 0
    BY <1>0, <1>2, <1>3, <2>1 DEF RelayStart, InRam, OnFlash
  <2>2. CASE temp_data[InitWord] = 0
    <3>1. /\ temp_data' = Defaults(temp_data) /\ pc' = "erase" /\ UNCHANGED <<last, cut>>
          /\ pc = "boot" /\ flash = temp_data
      BY <1>0, <1>3, <2>2 DEF RelayStart, CallSave, OnFlash
    <3>2. ~cut => last = [r \in Relay |-> DefaultRelay(r)]
      BY <1>0, <2>2, <3>1 DEF Restored, LeftAs
    <3>3. \A r \in Relay : RelayOf(temp_data', r) = DefaultRelay(r)
      BY <1>0, <3>1, DefaultsImage
    <3>4. QED
      BY <3>1, <3>2, <3>3 DEF Restored, LeftAs
  <2>3. QED
    BY <2>1, <2>2
<1>4. CASE EraseSector \/ WriteWord
  BY <1>0, <1>4 DEF EraseSector, WriteWord, Restored, LeftAs
<1>5. CASE SaveReturns
  <2>1. CASE save.then = "boot"
    BY <1>0, <1>5, <2>1 DEF SaveReturns, Restored, LeftAs, OnFlash
  <2>2. CASE save.then # "boot"
    BY <1>0, <1>2, <1>5, <2>2 DEF SaveReturns, InRam, OnFlash
  <2>3. QED
    BY <2>1, <2>2
<1>6. CASE CopyFaults
  BY <1>0, <1>6 DEF CopyFaults, CopyStep, MayFault, Restored, LeftAs, OnFlash, InRam
<1>7. CASE PowerLoss
  <2>1. ~cut' => ~cut /\ pc \in {"boot", "idle"}
    BY <1>0, <1>7 DEF PowerLoss, RelayTypeOK
  <2>2. pc' = "off" /\ UNCHANGED <<flash, last>>
    BY <1>7 DEF PowerLoss
  <2>3. QED
    BY <1>0, <2>1, <2>2 DEF Restored, LeftAs
<1>8. ASSUME NEW r \in Relay, NEW s \in {0, 1}, relay_set_state(r, s) PROVE Restored'
  BY <1>8, SetStep DEF Restored
<1>9. CASE UNCHANGED <<flash, temp_data, pc, save, last, cut>>
  BY <1>0, <1>9 DEF Restored, LeftAs
<1>10. QED
  BY <1>1, <1>3, <1>4, <1>5, <1>6, <1>7, <1>8, <1>9, RelayCases
     DEF relay_register_listener, relay_unregister_listener, relayVars

\* The invariant holds at the start.
LEMMA RelayStarts == RelayInit => RelayIndInv
<1> SUFFICES ASSUME RelayInit PROVE RelayIndInv
  OBVIOUS
<1>1. /\ ImageOK(flash) /\ IsImage(flash) /\ ImageOK(temp_data) /\ IsImage(temp_data)
      /\ flash[0] # CONFIG_MAGIC /\ temp_data[0] = CONFIG_MAGIC
  BY ErasedImage, BlankImage, WordFacts DEF RelayInit
<1>2. ControlOK
  <2>1. 0 \in Relay /\ 0 \in 0 .. MaxLosses
    BY RelayAssumption DEF Relay
  <2>2. save \in [given : BOOLEAN, then : {"boot", "return", "notify"}, relay : Relay]
    BY <2>1, Zenon DEF RelayInit
  <2>3. QED
    BY <2>1, <2>2, WordFacts DEF RelayInit, ControlOK
<1>3. ListenersOK /\ gpio \in [Pins -> {Float, 0, 1, FF}]
  BY DEF RelayInit, ListenersOK, Unheard
<1>4. last = [r \in Relay |-> DefaultRelay(r)] /\ last \in [Relay -> RelayWord]
  BY BlankImage, DefaultsImage, WordFacts DEF RelayInit, DefaultRelay, RelayWord
<1>5. cut \in BOOLEAN /\ halfSaved \in BOOLEAN
  BY Zenon DEF RelayInit
<1>6. RelayTypeOK
  BY <1>1, <1>2, <1>3, <1>4, <1>5, Zenon DEF RelayTypeOK, ControlOK, ListenersOK
<1>7. OnFlash /\ InRam /\ PinsFollow /\ Told
  BY DEF RelayInit, OnFlash, InRam, PinsFollow, Told, Saving, Running, Starting
<1>8. WholeImages /\ Restored
  BY <1>1, <1>4 DEF RelayInit, WholeImages, Whole, Restored, LeftAs, Saving
<1>9. QED
  BY <1>1, <1>6, <1>7, <1>8 DEF RelayIndInv

\* Every step of the relays and their configuration keeps the invariant.
LEMMA RelayKept == RelayIndInv /\ [RelayNext]_relayVars => RelayIndInv'
<1> SUFFICES ASSUME RelayIndInv, [RelayNext]_relayVars PROVE RelayIndInv'
  OBVIOUS
<1>1. RelayTypeOK' /\ Images'
  BY RelayTypeKept
<1>2. OnFlash' /\ InRam' /\ WholeImages' /\ PinsFollow' /\ Told' /\ Restored'
  BY OnFlashKept, InRamKept, WholeKept, PinsFollowKept, ToldKept, RestoredKept
<1>3. QED
  BY <1>1, <1>2 DEF RelayIndInv, Images

\* Between two calls of relay.c, whatever power failures came before: RAM and
\* the sector agree, the pins drive what they say, every relay has its pin unless
\* a save was cut after the magic, and the listeners know the states.
THEOREM RelayCorrect == RelaySpec => []RelayInv
<1>1. RelayIndInv => RelayInv
  <2> SUFFICES ASSUME RelayIndInv PROVE RelayInv
    OBVIOUS
  <2>1. RelayTypeOK /\ Durable
    BY DEF RelayIndInv, OnFlash, Durable
  <2>2. DrivesState
    BY DEF RelayIndInv, PinsFollow, Running, Driven, DrivesState
  <2>3. PinsKept
    BY DEF RelayIndInv, InRam, Running, WholeImages, Whole, PinsKept
  <2>4. Registered \subseteq Listeners
    BY DEF RelayIndInv, RelayTypeOK, Registered
  <2>5. ListenersAgree
    BY <2>4 DEF RelayIndInv, Told, Running, Saving, NotToldYet, ListenersAgree
  <2>6. QED
    BY <2>1, <2>2, <2>3, <2>5 DEF RelayInv
<1>2. QED
  BY <1>1, RelayStarts, RelayKept, PTL DEF RelaySpec

\* Unless the power failed during a save, relay_init brings the relays back as
\* the last call left them.
THEOREM RelaysRestored == RelaySpec => BootRestores
<1>1. ASSUME RelayIndInv, [RelayNext]_relayVars
      PROVE  [pc = "boot" /\ pc' = "idle" /\ ~cut => last' = last]_relayVars
  <2> SUFFICES ASSUME pc = "boot", pc' = "idle", ~cut PROVE last' = last
    OBVIOUS
  <2>1. RelayStart
    BY <1>1, RelayCases, SetStep
       DEF EraseSector, WriteWord, CopyFaults, CopyStep, Boot, SaveReturns, PowerLoss,
           relay_register_listener, relay_unregister_listener, relayVars
  <2>2. /\ temp_data[InitWord] # 0 /\ temp_data[0] = CONFIG_MAGIC /\ flash = temp_data
        /\ last' = [r \in Relay |-> RelayOf(temp_data, r)]
    BY <1>1, <2>1 DEF RelayStart, Returned, CallSave, RelayIndInv, InRam, OnFlash
  <2>3. last = [r \in Relay |-> RelayOf(temp_data, r)]
    BY <1>1, <2>2 DEF RelayIndInv, Restored, LeftAs
  <2>4. QED
    BY <2>2, <2>3
<1>2. QED
  BY <1>1, RelayStarts, RelayKept, PTL DEF RelaySpec, BootRestores
==============================================================================
