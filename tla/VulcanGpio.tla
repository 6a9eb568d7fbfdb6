------------------------------ MODULE VulcanGpio ------------------------------
(***************************************************************************)
(* The registers of one GPIO port, include/vulcan_gpio.h and               *)
(* hal/vulcan_gpio.c, used by tasks and handlers, each for a pin of its    *)
(* own.  BSRR changes a pin with one store; every other change loads a     *)
(* register, and stores it with all its pins a step later.  No call blocks *)
(* or yields, so that a call is interrupted only as priorities allow.  The *)
(* port's clock is on.                                                     *)
(***************************************************************************)
EXTENDS Sequences, Naturals

CONSTANTS
  PinTask, PinHandler,   \* the tasks and handlers, which name their pins too
  Toggler,               \* those that use vk_gpio_toggle
  Configurer,            \* those that configure their pin, once more or late
  Level,                 \* how urgent a task or handler may be: more is higher
  Speed,                 \* the speeds given to vk_gpio_output
  Pull                   \* the pulls given to vk_gpio_input and for SPI pins

Pin == PinTask \cup PinHandler
Rewriter == Toggler \cup Configurer

ASSUME GpioAssumption ==
  /\ PinTask \cap PinHandler = {}
  /\ Rewriter \subseteq Pin
  /\ Level \subseteq Nat
  /\ Speed \subseteq SUBSET {0, 1}
  /\ Pull \subseteq SUBSET {0, 1}

(* A pin's field of a register is the set of its bits that are 1. *)
ConfigRegister == <<"MODER", "OTYPER", "OSPEEDR", "PUPDR">>

Register == {ConfigRegister[i] : i \in 1 .. 4} \cup {"ODR", "AFR"}

VARIABLES
  level,      \* how urgent each caller is: handlers more than any task
  port,       \* the registers, each with a field for every pin
  rewrites,   \* the read-modify-writes each caller has left in its call
  loaded,     \* the register it has loaded, or <<>>
  made        \* history: the fields of its pin as it last asked for them

gpioVars == <<level, port, rewrites, loaded, made>>

GpioInit ==
  /\ level \in {l \in [Pin -> Level] : \A t \in PinTask, h \in PinHandler : l[t] < l[h]}
  /\ port = [r \in Register |-> [p \in Pin |-> {}]]
  /\ rewrites = [p \in Pin |-> <<>>]
  /\ loaded = [p \in Pin |-> <<>>]
  /\ made = [p \in Pin |-> [r \in Register |-> {}]]

(* p may run while q is inside a call: it is more urgent, or both are tasks  *)
(* of one priority and something more urgent put q behind p in the queue.    *)
Preempts(p, q) ==
  \/ level[q] < level[p]
  \/ level[q] = level[p] /\ {p, q} \subseteq PinTask

Runs(p) == \A q \in Pin \ {p} : rewrites[q] # <<>> => Preempts(p, q)
Free(p) == Runs(p) /\ rewrites[p] = <<>>

-------------------------------------------------------------------------------
\* One store to BSRR; chip select is such a pin.

(* A mutation: vk_gpio_set goes through ODR. *)
vk_gpio_set_odr(p) ==
  /\ Free(p)
  /\ rewrites' = [rewrites EXCEPT ![p] = <<[reg |-> "ODR", op |-> "or", bits |-> {0}]>>]
  /\ made' = [made EXCEPT ![p]["ODR"] = {0}]
  /\ UNCHANGED <<level, port, loaded>>

vk_gpio_set(p) ==
  /\ Free(p)
  /\ port' = [port EXCEPT !["ODR"][p] = {0}]
  /\ made' = [made EXCEPT ![p]["ODR"] = {0}]
  /\ UNCHANGED <<level, rewrites, loaded>>

vk_gpio_clear(p) ==
  /\ Free(p)
  /\ port' = [port EXCEPT !["ODR"][p] = {}]
  /\ made' = [made EXCEPT ![p]["ODR"] = {}]
  /\ UNCHANGED <<level, rewrites, loaded>>

vk_spi_cs_assert(p) == vk_gpio_clear(p)
vk_spi_cs_release(p) == vk_gpio_set(p)

-------------------------------------------------------------------------------
\* The calls that rewrite registers.

(* &= to clear a field, |= to fill it. *)
Fill(r, bits) ==
  << [reg |-> r, op |-> "clear", bits |-> {}], [reg |-> r, op |-> "or", bits |-> bits] >>

Enter(p, list) ==
  /\ Free(p)
  /\ rewrites' = [rewrites EXCEPT ![p] = list]
  /\ UNCHANGED <<level, port, loaded>>

Flipped(field) == IF field = {} THEN {0} ELSE {}

vk_gpio_toggle(p) ==
  /\ p \in Toggler
  /\ Enter(p, <<[reg |-> "ODR", op |-> "flip", bits |-> {}]>>)
  /\ made' = [made EXCEPT ![p]["ODR"] = Flipped(@)]

(* The settings in the order of ConfigRegister. *)
vk_gpio_config(p, mode, otype, speed, pull) ==
  LET settings == <<mode, otype, speed, pull>>
      fill(i) == Fill(ConfigRegister[i], settings[i])
  IN  /\ p \in Configurer
      /\ Enter(p, fill(1) \o fill(2) \o fill(3) \o fill(4))
      /\ made' = [made EXCEPT ![p] = [r \in Register |->
                    IF \E i \in 1 .. 4 : ConfigRegister[i] = r
                    THEN settings[CHOOSE i \in 1 .. 4 : ConfigRegister[i] = r]
                    ELSE @[r]]]

vk_gpio_set_af(p, af) ==
  /\ p \in Configurer
  /\ Enter(p, Fill("AFR", af))
  /\ made' = [made EXCEPT ![p]["AFR"] = af]

(* VK_GPIO_OUTPUT is 1, VK_GPIO_INPUT 0. *)
vk_gpio_output(p, speed) == vk_gpio_config(p, {0}, {}, speed, {})
vk_gpio_input(p, pull) == vk_gpio_config(p, {}, {}, {}, pull)

(* vk_spi_init's SCK, MISO and MOSI: alternate function 5, very high speed. *)
SpiPin(p, pull) ==
  \/ vk_gpio_config(p, {1}, {}, {0, 1}, pull)
  \/ vk_gpio_set_af(p, {0, 2})

-------------------------------------------------------------------------------

Load(p) ==
  /\ Runs(p)
  /\ rewrites[p] # <<>> /\ loaded[p] = <<>>
  /\ loaded' = [loaded EXCEPT ![p] = port[Head(rewrites[p]).reg]]
  /\ UNCHANGED <<level, port, rewrites, made>>

Modified(field, change) ==
  CASE change.op = "clear" -> {}
    [] change.op = "or"    -> field \cup change.bits
    [] change.op = "flip"  -> Flipped(field)

(* The whole register is stored. *)
Store(p) ==
  /\ Runs(p)
  /\ loaded[p] # <<>>
  /\ LET change == Head(rewrites[p]) IN
       port' = [port EXCEPT ![change.reg] = [loaded[p] EXCEPT ![p] = Modified(@, change)]]
  /\ rewrites' = [rewrites EXCEPT ![p] = Tail(@)]
  /\ loaded' = [loaded EXCEPT ![p] = <<>>]
  /\ UNCHANGED <<level, made>>

GpioNext ==
  \E p \in Pin :
    \/ vk_gpio_set(p) \/ vk_gpio_clear(p)
    \/ vk_spi_cs_assert(p) \/ vk_spi_cs_release(p)
    \/ vk_gpio_toggle(p)
    \/ \E speed \in Speed : vk_gpio_output(p, speed)
    \/ \E pull \in Pull : vk_gpio_input(p, pull) \/ SpiPin(p, pull)
    \/ Load(p) \/ Store(p)

GpioSpec == GpioInit /\ [][GpioNext]_gpioVars

-------------------------------------------------------------------------------

AsLeft(p) == rewrites[p] = <<>> => \A r \in Register : port[r][p] = made[p][r]

(* What is left of the header's "atomic BSRR writes (IRQ-safe)" over set,     *)
(* clear and toggle: while a caller is in no call, its pin is as it last      *)
(* asked for, whatever the others did to theirs in the meantime, if it        *)
(* interrupts no rewriter of the port.  Those that only set and clear may be  *)
(* of any priority, and the caller may be interrupted anywhere in its call.   *)
PinsKept ==
  \A p \in Pin : (\A q \in Rewriter \ {p} : ~Preempts(p, q)) => AsLeft(p)

===============================================================================
