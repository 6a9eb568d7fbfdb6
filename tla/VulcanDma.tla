------------------------------ MODULE VulcanDma -------------------------------
(***************************************************************************)
(* The DMA driver, hal/vulcan_dma.c, over the stream of each channel: a    *)
(* task starts and stops it, the stream moves items and raises flags, and  *)
(* vk_dma_isr acts on the flags.  The handlers have one priority and do    *)
(* not nest; a task runs only between handlers; the streams run always.    *)
(***************************************************************************)
EXTENDS Integers

CONSTANTS
  Channel,    \* the vk_dma_ch_t
  Config,     \* the configurations given to vk_dma_init
  Count,      \* the counts given to vk_dma_start
  Bytes,      \* the lengths given to vk_dma_memcpy
  CountMod,   \* 2^16, the range of a count
  NULL

ASSUME DmaAssumption ==
  /\ Config \subseteq SUBSET {"circular", "half", "complete", "error"}
  /\ CountMod \in Nat \ {0}
  /\ Count \subseteq 0 .. CountMod - 1
  /\ Bytes \subseteq Nat
  /\ NULL \notin Channel

(* The bits of a stream in LISR and HISR. *)
TEIF == 3
HTIF == 4
TCIF == 5

VARIABLES
  cfg,        \* ch->cfg: circular, and which callbacks it has
  busy,
  en,         \* the EN bit of CR
  flags,      \* the flags of the stream that are up
  left,       \* NDTR
  total,      \* what NDTR was set to
  call,       \* "start" or "stop" once that call has cleared EN, until it returns
  count,      \* the argument of that vk_dma_start
  handler,    \* the channel whose vk_dma_isr runs
  seen        \* its local variable `flags'

streamVars == <<en, flags, left, total>>
dmaVars == <<cfg, busy, streamVars, call, count, handler, seen>>

(* After vk_dma_init. *)
Init ==
  /\ cfg \in [Channel -> Config]
  /\ busy = [c \in Channel |-> 0]
  /\ en = [c \in Channel |-> FALSE]
  /\ flags = [c \in Channel |-> {}]
  /\ left = [c \in Channel |-> 0]
  /\ total = [c \in Channel |-> 0]
  /\ call = [c \in Channel |-> "none"]
  /\ count = [c \in Channel |-> 0]
  /\ handler = NULL
  /\ seen = {}

-------------------------------------------------------------------------------
\* The stream.

(* EN is cleared: a stream that was at work ends its transfer, with TCIF. *)
Disable(c) ==
  /\ en' = [en EXCEPT ![c] = FALSE]
  /\ flags' = IF en[c] THEN [flags EXCEPT ![c] = @ \cup {TCIF}] ELSE flags

(* One item goes over; at the end the circular stream begins again. *)
Move(c) ==
  /\ en[c] /\ left[c] > 0
  /\ LET rest == left[c] - 1 IN
       /\ flags' = [flags EXCEPT ![c] =
            @ \cup {f \in {HTIF, TCIF} : rest = IF f = TCIF THEN 0 ELSE total[c] \div 2}]
       /\ left' = [left EXCEPT ![c] =
            IF rest = 0 /\ "circular" \in cfg[c] THEN total[c] ELSE rest]
       /\ en' = [en EXCEPT ![c] = rest > 0 \/ "circular" \in cfg[c]]
  /\ UNCHANGED <<cfg, busy, total, call, count, handler, seen>>

(* A transfer error ends the stream's work. *)
Fail(c) ==
  /\ en[c]
  /\ en' = [en EXCEPT ![c] = FALSE]
  /\ flags' = [flags EXCEPT ![c] = @ \cup {TEIF}]
  /\ UNCHANGED <<cfg, busy, left, total, call, count, handler, seen>>

(* TCIE, HTIE and TEIE are set for the callbacks there are. *)
Interrupts(c) ==
  \/ TCIF \in flags[c] /\ "complete" \in cfg[c]
  \/ HTIF \in flags[c] /\ "half" \in cfg[c]
  \/ TEIF \in flags[c] /\ "error" \in cfg[c]

-------------------------------------------------------------------------------
\* vk_dma_start and vk_dma_stop.  Once EN and the flags are clear no interrupt
\* of the stream can come, so the rest of the call is one step.

Ready(c) == handler = NULL /\ call[c] = "none"

vk_dma_start(c, n) ==
  /\ Ready(c)
  /\ Disable(c)
  /\ call' = [call EXCEPT ![c] = "start"]
  /\ count' = [count EXCEPT ![c] = n]
  /\ UNCHANGED <<cfg, busy, left, total, handler, seen>>

(* A mutation: the old flags stay up. *)
StartEnable_unclear(c) ==
  /\ handler = NULL /\ call[c] = "start"
  /\ left' = [left EXCEPT ![c] = count[c]]
  /\ total' = [total EXCEPT ![c] = count[c]]
  /\ busy' = [busy EXCEPT ![c] = 1]
  /\ en' = [en EXCEPT ![c] = TRUE]
  /\ call' = [call EXCEPT ![c] = "none"]
  /\ count' = [count EXCEPT ![c] = 0]
  /\ UNCHANGED <<cfg, flags, handler, seen>>

StartEnable(c) ==
  /\ handler = NULL /\ call[c] = "start"
  /\ flags' = [flags EXCEPT ![c] = {}]
  /\ left' = [left EXCEPT ![c] = count[c]]
  /\ total' = [total EXCEPT ![c] = count[c]]
  /\ busy' = [busy EXCEPT ![c] = 1]
  /\ en' = [en EXCEPT ![c] = TRUE]
  /\ call' = [call EXCEPT ![c] = "none"]
  /\ count' = [count EXCEPT ![c] = 0]
  /\ UNCHANGED <<cfg, handler, seen>>

vk_dma_stop(c) ==
  /\ Ready(c)
  /\ Disable(c)
  /\ call' = [call EXCEPT ![c] = "stop"]
  /\ UNCHANGED <<cfg, busy, left, total, count, handler, seen>>

(* A mutation: vk_dma_stop leaves the flags up. *)
StopClear_unclear(c) ==
  /\ handler = NULL /\ call[c] = "stop"
  /\ busy' = [busy EXCEPT ![c] = 0]
  /\ call' = [call EXCEPT ![c] = "none"]
  /\ UNCHANGED <<cfg, en, flags, left, total, count, handler, seen>>

StopClear(c) ==
  /\ handler = NULL /\ call[c] = "stop"
  /\ flags' = [flags EXCEPT ![c] = {}]
  /\ busy' = [busy EXCEPT ![c] = 0]
  /\ call' = [call EXCEPT ![c] = "none"]
  /\ UNCHANGED <<cfg, en, left, total, count, handler, seen>>

(* The words of a copy, cast to the 16 bits of a count. *)
WordCount(b) == ((b + 3) \div 4) % CountMod

vk_dma_memcpy(c, b) == vk_dma_start(c, WordCount(b))

-------------------------------------------------------------------------------
\* vk_dma_isr: the flags are read, and cleared a step later.

ReadFlags(c) ==
  /\ handler = NULL
  /\ Interrupts(c)
  /\ handler' = c
  /\ seen' = flags[c]
  /\ UNCHANGED <<cfg, busy, streamVars, call, count>>

(* A mutation: the handler does not look at TEIF. *)
ClearsBusy_noerror(c) == TCIF \in seen /\ "circular" \notin cfg[c]

(* The flags that end a transfer. *)
ClearsBusy(c) == TEIF \in seen \/ (TCIF \in seen /\ "circular" \notin cfg[c])

(* The half callback is looked for at bit 1, which no flag has. *)
CallsHalf(c) == 1 \in seen /\ "half" \in cfg[c]

(* A mutation: on a circular channel the completion callback is not called. *)
CallsComplete_oneshot(c) ==
  TCIF \in seen /\ "complete" \in cfg[c] /\ "circular" \notin cfg[c]

CallsComplete(c) == TCIF \in seen /\ "complete" \in cfg[c]

ClearFlags(c) ==
  /\ handler = c
  /\ flags' = [flags EXCEPT ![c] = {}]
  /\ busy' = IF ClearsBusy(c) THEN [busy EXCEPT ![c] = 0] ELSE busy
  /\ handler' = NULL
  /\ seen' = {}
  /\ UNCHANGED <<cfg, en, left, total, call, count>>

-------------------------------------------------------------------------------

(* A channel with a client of its own, any sequence of calls. *)
Client(c) ==
  \/ \E n \in Count : vk_dma_start(c, n)
  \/ \E b \in Bytes : vk_dma_memcpy(c, b)
  \/ vk_dma_stop(c)
  \/ StartEnable(c) \/ StopClear(c)

Handler(c) == ReadFlags(c) \/ ClearFlags(c)

Next == \E c \in Channel : Client(c) \/ Move(c) \/ Fail(c) \/ Handler(c)

Spec == Init /\ [][Next]_dmaVars

-------------------------------------------------------------------------------

(* The types of the driver's variables; NDTR and the argument of           *)
(* vk_dma_start have 16 bits, though vk_dma_memcpy computes the count from *)
(* a length of 32.                                                         *)
DmaTypeOK ==
  /\ cfg \in [Channel -> Config]
  /\ busy \in [Channel -> {0, 1}]
  /\ en \in [Channel -> BOOLEAN]
  /\ flags \in [Channel -> SUBSET {TEIF, HTIF, TCIF}]
  /\ left \in [Channel -> 0 .. CountMod - 1]
  /\ total \in [Channel -> 0 .. CountMod - 1]
  /\ call \in [Channel -> {"none", "start", "stop"}]
  /\ count \in [Channel -> 0 .. CountMod - 1]
  /\ handler \in Channel \cup {NULL}
  /\ seen \subseteq {TEIF, HTIF, TCIF}

(* A stream at work is busy: when vk_dma_wait sees busy at 0, the stream    *)
(* no longer reads or writes the buffers.  A handler entered for an earlier *)
(* transfer, one that was aborted by a restart included, must not clear the *)
(* busy of the next one.                                                    *)
EnabledIsBusy == \A c \in Channel : en[c] => busy[c] = 1

(* A stream that has come to its end, by completion or error, or that was   *)
(* disabled by a call, does not leave busy up: vk_dma_wait can return VK_OK. *)
(* This is for channels that have both a completion and an error callback,   *)
(* and no half callback, with which the handler clears flags it has not read. *)
BusyEnds ==
  \A c \in Channel :
    busy[c] = 1 /\ ~en[c] /\ cfg[c] = {"complete", "error"} ~> busy[c] = 0 \/ en[c]

===============================================================================
