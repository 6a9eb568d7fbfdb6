# Verification of Vulcan OS

TLA+ models of Vulcan OS, a small preemptive kernel with drivers for the
STM32H743 (one Cortex-M7 core), the TLC runs that check them on small
instances, and TLAPS proofs of their main properties for every instance.
Paths are relative to `src/`.

## The system

There is one core and no memory protection. Everything happens in *thread
code* (`main` until the scheduler starts, then the current task) or in
*exceptions* that interrupt it: SysTick (the tick), PendSV (the context switch,
lowest priority) and the peripherals' interrupts. Components share memory and
call each other; there are no messages. `_irq_save`/`_irq_restore` around a few
lines is the only lock the kernel itself has.

| component | state | operations | talks to |
|---|---|---|---|
| Scheduler, `kernel/vulcan_sched.c` | `vk_current`, `vk_ticks`, ready queue, sleep queue, `task_count`, one TCB per task | init, create, start, yield, sleep, exit; SysTick, PendSV | everyone; queues linked through `next` of the TCB |
| Context switch, `PendSV_Handler`, `vk_start` | registers, MSP, PSP, the frames on the tasks' stacks | push, switch, pop | scheduler |
| Mutex, `kernel/vulcan_mutex.c` | `locked`, `owner`, FIFO of waiters | init, trylock (LDREX/STREX), lock, unlock | ready queue, `vk_current`, PendSV |
| Block pool, `kernel/vulcan_mem.c` | free list threaded through the blocks, counters | init, alloc, free, avail | tasks and handlers |
| Tensor arena, `kernel/vulcan_mem.c` | bump pointer, peak | init, alloc, reset, used | one task |
| UART, `hal/vulcan_uart.c` | TX ring, RX ring, `tx_busy`, TXEIE | init, putc, puts, printf, getc, readline, ISR | tasks, interrupt |
| DMA, `hal/vulcan_dma.c` | per stream: configuration, `busy`; the stream's flags | init, start, stop, wait, ISR, memcpy | tasks, interrupt, callbacks |
| SPI, `hal/vulcan_spi.c` | `dma_done`, a mutex, two DMA channels | xfer, write, read, xfer_dma, wait, acquire, release | DMA callbacks, mutex, scheduler |
| ADC, `hal/vulcan_adc.c` | enable and ready flags, a circular buffer of two halves, batch callback | init, start, stop, read_blocking | DMA callbacks |
| GPIO, `include/vulcan_gpio.h`, `hal/vulcan_gpio.c` | port registers | config, set_af, set, clear, toggle, read | tasks, handlers, SPI chip select |
| Clock and delays, `hal/vulcan_clock.c` | clock registers, cycle counter | init, delay_us, delay_ms | — |
| Start-up, `hal/startup_stm32h743.s`; layout, `stm32h743.ld` | vector table, sections | reset | — |
| Demo, `main.c` | three tasks, ADC batch hand-over | sensor, infer, report, on_adc_batch | all |

What is hard in it, and what makes each part correct:

* **Scheduler.** A tick or a switch can come between any two instructions that
  are not masked: between the critical section of `vk_task_sleep` or
  `vk_task_exit` and the PendSV they ask for, inside `vk_task_create`, inside
  `vk_start`, and between PendSV's entry and its `CPSID`. All queues use one link
  field. Correct means: each task is where its state says, once; a switch finds
  a task; the highest priority runs; equals are served in order; sleeps end in
  their tick; a ready task of the highest priority runs eventually.
* **Mutex.** The lock word is taken without masking interrupts; a release can
  come between the failed attempt and the enqueueing; the woken task does not
  own the mutex yet. Correct means: one holder; a blocked task is on one queue;
  no wake-up is lost; who blocks is served.
* **Block pool.** The links of the free list lie in memory the clients write,
  and blocks are cleared outside the critical section. Correct means: the list
  is whole, a block is lent once, is zeroed when it is returned, keeps what its client
  writes, and lies in the pool's storage.
* **Arena.** 32-bit arithmetic with alignment. Correct means: live tensors are
  aligned and apart, NULL is returned only when there is no room, and the peak
  is the high-water mark, over resets.
* **UART.** Rings shared with an interrupt without a lock, and an interrupt that
  is turned off when there is nothing to send. Correct means: bytes in order,
  each once, losses only when the ring is full, and no byte waits with the
  interrupt off.
* **DMA, SPI, ADC, demo.** Flags read and cleared in two steps, completion told by
  callbacks and polled with deadlines that wrap; a batch handed from a handler to a
  task through two variables. Correct means: a completion is reported once and to
  its own transfer; a wait ends, and not early; what is told complete is all there; a
  batch is fresh and computed once.
* **Context switch.** Two stack pointers, and registers saved half by the core and
  half by the handler. Correct means: a task resumes as it was switched out.
* **GPIO.** One register for all pins of a port, of which each belongs to somebody
  else; all calls but set and clear load it and store it back. Correct means: nobody
  changes another's pin.
* **Delays, `vk_printf`.** Arithmetic in 32 bits, counters that wrap. Correct means:
  no delay is short; a numeral shows its number.

## Modules and how they correspond to the code

| module | models | notes |
|---|---|---|
| `VulcanList` | `_ready_insert`, `_sleep_insert`, `_ready_remove` as operators on sequences | a queue is the sequence of TCBs reached through `next`; that queues never share a TCB is checked (`QueuesConsistent`, `BlockedOnOneQueue`), which is what makes sequences faithful to one shared link field |
| `VulcanSched` | the scheduler | one variable per global and per TCB field; `pc` and `args` say where each task is in an API call, `phase` where `main` is, `systick` and `pendsv` which exceptions are pending or active |
| `Dispatcher` | abstract: a thread of the highest priority gets the processor, of these the one that has waited longest; who gives way goes behind its equals | implemented by `VulcanSched`, and by `VulcanMutex` too (`ImplementsDispatcher`); what is on the queue is a set of threads and an order of arrival among equals, the processor a set of at most one |
| `VulcanSleep` | `VulcanSched` with two history variables: what each sleeper asked for, and the ticks since | |
| `VulcanMutex` | mutexes on top of the scheduler; EXTENDS `VulcanSched` and composes its own actions with the scheduler's | `monitor` is the core's exclusive monitor, which exception entry clears |
| `VulcanPool` | the block pool, word by word where the links are; the clearing of a block in three steps, with whatever interrupts it | `stack` is a history of the free list; `i` is the loop of `vk_pool_init`, `zeroed` a client's place in the clearing |
| `BlockPool` | abstract: blocks are lent to one client at a time and the count is exact | implemented by `VulcanPool` (`ImplementsBlockPool`) |
| `VulcanArena` | the arena, arithmetic modulo `AddrMod` | `tensors` (those since the last reset) and `ends` (how far each ever reached) are histories |
| `VulcanUart` | both rings, the interrupt, `putc`, `getc`, `readline`, and the UART's FIFOs as environment | |
| `VulcanPrintf` | `vk_uart_printf`, a directive at a time, with the loop that divides and the one that reverses | `u` and `tmp` are the code's; formats and arguments come as they are read, so every sequence of directives is covered |
| `ByteChannel` | abstract: bytes come out in order, each once; they may be lost only behind `Reliable` others | implemented twice by `VulcanUart`, for sending and receiving |
| `VulcanDma` | the DMA driver: `vk_dma_start` and `vk_dma_stop` cut between clearing EN and clearing the flags, `vk_dma_isr` between reading and clearing them; the streams as environment | `call` and `count` are a call in progress, `handler` and `seen` the handler's; `cfg` is what `vk_dma_init` was given |
| `VulcanWait` | `vk_dma_wait` with its deadline on a channel of `VulcanDma`, and `vk_delay_us` with the cycle counter; both counts wrap | `waits` is the place in the loop; the stream may stall for ever; `elapsed` and `spent` are histories, `away` counts the ticks since the task last looked |
| `VulcanAdc` | the ADC driver on a circular channel of `VulcanDma` | `inside` is the task's place in a call; samples are counted, `full` is a history of the halves filled |
| `VulcanDemo` | `on_adc_batch` and `task_infer` of `main.c` on `VulcanAdc` | `infer` is the place between the three accesses to the shared variables; `news` is a history |
| `VulcanGpio` | the registers of one port, each call a list of loads and stores, with a load and a store apart | a pin's field is the set of its bits; `level` is a caller's priority and decides who may interrupt whom (`Preempts`); `made` is a history of what each caller asked for |
| `VulcanContext` | the frames of `vk_task_create`, `vk_start` and `PendSV_Handler` with MSP and PSP | which task comes next is any; `core` and `callee` name the task whose registers are in the core |
| `VulcanSpi` | the SPI driver on two channels of `VulcanDma`, which it EXTENDS; the SPI with its FIFOs as environment | `op` and `at` are the task's place, "late" after a timeout; frames are counted, not named; `found` is a history: whether the transfer found an earlier one under way, or frames nobody had read |
| `MCSched`, `MCSleep`, `MCMutex`, `MCMemory`, `MCUart`, `MCDevices` | for TLC: symmetry sets and fairness; pool, arena and GPIO, the sides of the UART, and the users of the DMA driver, each in one run | a behaviour uses one part: they do not share state |
| `VulcanListTheorems`, `VulcanLemmas` | facts about queues and the order of arrival in them; about remainders, alignment, sequences and their reversal, and induction on numbers | cited by the proofs of several components |
| `VulcanSchedProofs`, `VulcanSchedPolicyProofs`, `VulcanMutexProofs`, `VulcanMemProofs`, `VulcanUartProofs`, `VulcanDriverProofs` | theorems | the last is about DMA, SPI, ADC and demo, the waits and GPIO |

**Atomicity.** What the code does with interrupts masked is one action. Code
with interrupts open is cut at each access to state that someone else can
change. A handler that nothing that shares its state can interrupt is one
action; SysTick's loop has one action per turn so that its guard is visible, and
no thread code or PendSV runs in between. `Executing(t)` is the guard of thread
code: no exception active or pending and `t` current.

**What clients may do.** Any task may yield, sleep, exit and, if it is in
`Creators`, create tasks, at any time; it creates in a TCB that is DEAD and
not being filled in by another call. A DEAD TCB may be created anew. Tasks unlock
only mutexes they hold, do not lock one they hold, and do not exit holding one;
nesting in any order is allowed. Blocks are freed once, by anyone. One task at a
time calls the driver for a DMA channel or an SPI, as `vulcan_dma.c:170` asks; it
may restart or stop a channel at any time. After a timeout of `vk_spi_wait` or
`vk_dma_wait` it waits again or calls anything else. `vk_adc_init` is called once and
`vk_adc_read_blocking`, "for calibration/startup", before it; `vk_adc_start` when no
sampling goes on. Of a port, tasks and handlers of any priorities set, clear, toggle and
configure pins, each its own.

**Mutations.** Operators commented "a mutation" stand beside an action and
change it as a plausible bug would; no specification uses them. Each shows that
a property does notice that bug.

## Runs

| run | checks | bounds |
|---|---|---|
| `sched` | `QueuesConsistent`, `SchedInv` (the inductive invariant), `HighestPriorityRuns`, `NoOverdueSleeper`, `IdsUnique`, `SleepIsExact`, `ImplementsDispatcher` | 3 tasks, 2 priorities, one of them a creator, sleeps of 0, 1 and 2, 2 ticks; 730,000 states |
| `sched_live` | `SleepersWake`, `HighestGetsProcessor`, `PeersShareProcessor` | 2 tasks, one a creator, a tick that wraps at 3, no bound on ticks; 36,000 states |
| `sleep_wrap` | violation of `NeverWokenEarly` | 1 task, a tick that wraps at 4 |
| `switch` | violation of `ResumesAsLeft` | 2 tasks, stacks of 4 frames |
| `mutex` | `MutualExclusion`, `BlockedOnOneQueue`, `NoLostWakeup`, `ImplementsDispatcher` | 3 tasks, 2 priorities, 2 mutexes, sleeps that may end at any tick; 810,000 states |
| `mutex_live` | `LockersServed` | 2 tasks of one priority, 1 mutex; 1,400 states |
| `memory` | pool: `FreeListIntact`, `LentOnce`, `NoDataLeak`, `DataKept`, `ImplementsBlockPool`; arena: `TensorsApart`, `RefusedOnlyWhenFull`, `PeakIsHighWater`; GPIO: `PinsKept` | 3 clients, 4 blocks of 8 bytes; buffer of 16 bytes at 24 of 64, sizes 0, 3, 8, alignments 4, 8; 3 tasks of 2 priorities, two that toggle, one of these configures; 1,270,000 states |
| `uart` | `UartTypeOK`, `NoMissedKick`, `TransmitsInOrder`, `ReceivesInOrder`, `RingDrains`; `PrintsArguments` | 1 producer, 2 values, rings of 3 slots, FIFOs of 2, lines of 1 and 3 bytes; numbers of 7 bits, strings of up to 2; 85,000 states |
| `uart_two` | violation of `TxRingIsQueue` | 2 producers |
| `devices` | DMA: `EnabledIsBusy`, `BusyEnds`; SPI: `WaitMeansDone`, `WaitReturns`; ADC and demo: `AdcCallsReturn`, `BatchesComputed`, `BatchFresh`, `BatchOnce`; waits: `NeverEarly`, `WaitEnds` | 2 channels, transfers of 1 frame, a buffer of 4 samples, ticks that wrap at 5, see below; 55,000 states |
| `spi_stale` | violation of `AnswersInStep` | transfers of 1 to 3 frames, FIFOs of 2 |
| `adc_half` | violation of `FirstHalfComputed` | a buffer of 4 samples |

Why these are enough.

*Kernel.* Three tasks give a running one, a ready one and one that arrives, so that
both orders within a priority and both priorities occur on the queues; two
mutexes give nesting and deadlock. Two ticks let a sleep of 2 end and be
overtaken by a shorter one. `TickHorizon` stops the tick, in `sched` only; that no
sleep reaches the wrap is then the assumption of `NoOverdueSleeper` and
`SleepIsExact`. In `sched_live` the tick wraps round without end, so the state
space is whole. In `mutex` the tick count has one value, so that a sleep ends at
any tick, as its length is of no account there. `ElapsedBound` stops the history
of `VulcanSleep` behind the longest sleep. `MaxTasks` is `VULCAN_MAX_TASKS` made
small. Creators are one in the runs (`IdsUnique` needs it; `SchedInv` is proved for
any number).

*Memory.* Four blocks give a list with a middle, and with three clients clearing at once
one that is lent. The arena's sizes do not wrap when padding is added; 8-byte alignment is
`vk_tensor_alloc`'s.

*UART.* Rings of three slots are empty, partly full and full. The least int of 7
bits is the one that `-v` leaves negative, and its numerals have up to three digits
in base 10, two in base 16.

*Drivers.* Two channels give a handler that keeps another from running; their
configurations are without callbacks, with completion and error as a client that
waits needs them, and circular with all. Counts of items are taken modulo 5 (`CountMod`)
for 2^16: a copy of 17 bytes then has a count of 0, as one of 262141 bytes has. A buffer of
4 has halves of two samples, so that a handler may come after a sample that fills no half. Timeouts of 0 and 2 with ticks
that wrap at 5 give deadlines before, at and behind the wrap; `Patience`, 2, bounds how many
ticks a waiting task may be preempted between two looks at the clock, which is enough to
carry it over the deadline and the wrap. Delays of 0 and 3 microseconds of 2
cycles below a modulus of 8 let the cycle counter wrap in a delay.

SPI transfers are of one frame and the FIFOs of two, so that what earlier calls left there can
complete the receive stream before the transfer has begun. `WaitMeansDone` is proved for any
lengths and FIFOs; `WaitReturns` with transfers of two frames has also held, in a longer run of
112,000 states. Transfers of up to three are in `spi_stale`.

*GPIO.* Three tasks of two priorities: two preempt each other and one is above or below
both, equal or not, so that each is sheltered in some initial state and exposed in
another. Handlers are in the theorem.

**Fairness.** `KernelFairness`: the tick handler, once it can, runs (weak, which
also makes time pass); PendSV, `vk_start` and the ends of API calls are strongly
fair, because ticks interrupt them again and again while each handler is far
shorter than a tick. Nothing is asked of application code, so
`SleepersWake` and `HighestGetsProcessor` hold whatever tasks do.
There is no time slice; `PeersShareProcessor` and `LockersServed` therefore
assume that tasks give way (`GivesWay`, and in `MutexFairSpec` that holders
unlock). `StoreDone` is strongly fair in `MutexFairSpec`: the store comes a few
cycles after the load and is not interrupted every time. The UART's
fairness is that its interrupt is taken, that it shifts bytes out and that a task
inside `putc` or `getc` gets to execute. `DevicesSpec` (and `FairDemoSpec`, its ADC
part): the hardware gets on where it can (weak: the ADC gets ready, a stream keeps
up with the line, time passes), a handler that was entered ends (weak: nothing
interrupts it), while a pending interrupt and a task inside a call or in the loop of
`task_infer` are strongly fair, since other handlers hold them up again and again
but never long. Nothing is asked of the streams of `VulcanWait`, which may stall for
ever. `WaitEnds` says of a wait that it ends when the stream has; and if the stream stalls,
that it ends when the task is sure to see the deadline, which lies at least `Patience` ticks
before the wrap of the tick count: a later one can be missed. Whether `vk_spi_wait` times out
is left open; `WaitReturns` allows that it does, and that a stream failed, `BusyEnds` that the client restarts with a
count of 0, `BatchesComputed` that sampling was stopped or the stream failed.

**What the violations show.**

* `sleep_wrap`: `vk_ticks + ticks` wraps and is compared with `<=`; a sleep across
  the wrap ends at the next tick.
* `switch`: PendSV saves and loads SP, which in a handler is MSP, while `vk_start`
  runs tasks on PSP, which nobody switches. The core unstacks the old task's PC and
  R0-R3 although R4-R11 and `vk_current` are the new one's.
* `uart_two`: `tx_mutex` is documented to serialise tasks and is never taken; two
  tasks in `vk_uart_putc` corrupt the ring.
* `spi_stale`: `vk_spi_write` drains a received frame only after the next one is
  written, so that at least the last stays in the FIFO; the next `vk_spi_read`
  or `vk_spi_xfer` returns it and is one frame behind.
* `adc_half`: `vk_dma_isr` tests bit 1 for HTIF, which is bit 4 as its own comment says
  (`vulcan_dma.c:150-151`); the half callback never comes, and with it every
  other batch of the ADC.

Further places where comments and code differ or calls do not do what one
expects, seen while modelling and not given runs:

* Kernel. `vk_task_create` tests and increments `task_count` with interrupts open, so
  that two creators exceed `VULCAN_MAX_TASKS` or share an id. `vk_mutex_unlock` wakes
  the oldest waiter, while `vulcan_mutex.h:41` and the comment at `vulcan_mutex.c:98`
  say the one of highest priority. The running task is not "at the head of
  ready_queue" (`vulcan_sched.c:17`), it is not on it; idle does not run only "when
  nothing else is ready" (line 32) if a task is given priority 255. The comment of
  `vk_start` calls tasks unprivileged; CONTROL = 2 leaves them privileged. The
  drawing of a task's frame leaves EXC_RETURN out.
* Memory. `vk_pool_init` rounds block sizes up to a multiple of 4 while `VK_POOL_DECLARE`
  (`vulcan_mem.h:44-46`) does not, so that of other sizes the last blocks lie behind the
  declared storage (theorem `InStorage`); `vk_arena_alloc` grants a size near
  2^32 because padding plus size wraps.
* UART. `vk_uart_readline` ends a line at `'\r'` too, against `vulcan_uart.h:128`. A
  format that ends in `'%'` is read beyond its end. `%02X` (`main.c:103`) is no
  directive and prints as it stands, followed by the rest.
* DMA. A stream that is stopped or restarted while at work raises TCIF, so that its
  completion callback may be called for a transfer that was aborted. `vk_dma_memcpy` casts the number
  of words to 16 bits (line 200): of 262145 bytes it moves one word and calls `cb_complete`;
  without a callback it leaves `busy` up for ever. `vk_dma_wait` compares the tick count by
  `>=` with a sum in 32 bits (lines 133-135): a deadline that wraps is past at the first look,
  and one just below the wrap is missed by a task that is preempted over both, which then
  waits another period of the count if the stream has stalled.
* SPI. `vk_spi_xfer` does not set CR2, so that it waits for an EOT that comes only if
  CR2 is 1 from an earlier transfer; a client that gives `vk_spi_xfer_dma` its own
  callback waits in vain, for only `_spi_dma_done` sets `dma_done`. After `VK_ERR_TIMEOUT`
  (`vulcan_spi.c:191`) the transfer is still under way, and the next `vk_spi_xfer_dma` can
  take its end for its own: disabling the old stream raises TCIF after `dma_done` was reset
  (line 165), and `vk_spi_wait` returns `VK_OK` while the new frames are still to come.
  `WaitMeansDone` therefore is for transfers that found no other under way.
* ADC. There is no error callback: after a stream error sampling ends silently and
  `busy` stays up. `vk_adc_start` while sampling restarts the stream under it.
  Channels 15 and 16 of a sequence get into no register, SQR2 and SQR3 are only
  OR'ed into (`vulcan_adc.c:99-101`), and `vk_adc_read_blocking` sets the sample time
  of channel 0 only.
* GPIO. `vulcan_gpio.h:119` promises "atomic BSRR writes (IRQ-safe)"; `vk_gpio_toggle`
  below it (lines 126-128) loads and stores ODR, and a task preempted there undoes what others
  did to their pins. In the demo two tasks toggle pins of one port. What remains true is
  `PinsKept`.
* Demo. `task_infer`, at priority 2, waits for a batch by yielding, so that the report
  task below it runs only if inference has no time to wait, against `README.md:87`.
  A batch that comes between reading the pointer and clearing the length is lost.
* Start-up. The vector table (`startup_stm32h743.s:58`) ends before the entries of the
  USART3, SPI and DMA interrupts that the drivers enable; `SystemInit` is called and
  nowhere defined; the initial MSP is `_sstack`, "top of MSP stack" to
  `startup_stm32h743.s:20`, which `stm32h743.ld:72` puts at the low end of its stack
  section, so that the main stack grows into what lies below.

## Proofs

All are for every value of the constants that satisfies the modules' named
assumptions: any set of tasks, any priorities up to idle's, any creators, any tick
width, any number of mutexes, clients, blocks, channels and pins, any ring, FIFO and
buffer. Where a theorem needs more of the constants, its row says so. Every safety
property of the passing runs is stated by a theorem.

| theorem | statement |
|---|---|
| `VulcanSchedProofs!Invariant` | `Spec => []SchedInv` |
| `VulcanSchedProofs!Consistency`, `AlwaysATask` | `QueuesConsistent`, `SomethingRuns` always hold |
| `VulcanSchedProofs!Implements` | `Spec => ImplementsDispatcher`, the scheduler implements `Dispatcher` |
| `VulcanSchedPolicyProofs!PriorityRespected` | `HighestPriorityRuns` always holds |
| `VulcanSchedPolicyProofs!OrderRespected` | `Spec => ServedInOrder` |
| `VulcanSchedPolicyProofs!SleepersOnTime` | `NoWrap => (Spec => []NoOverdueSleeper)`: no sleep can reach the wrap |
| `VulcanSchedPolicyProofs!SleepExact` | under `NoWrap` and `CountsEnough`: `SleepSpec => SleepIsExact`; the history counts up to the longest sleep |
| `VulcanSchedPolicyProofs!UniqueIds` | `OneCreator => (Spec => []IdsUnique)` |
| `VulcanMutexProofs!Exclusion` | `MutexSpec => []MutualExclusion` |
| `VulcanMutexProofs!WakeUpNotLost`, `OnOneQueue` | `NoLostWakeup`, `BlockedOnOneQueue` always hold |
| `VulcanMutexProofs!MutexKeepsPolicy` | `MutexSpec => ImplementsDispatcher`, and with mutexes too |
| `VulcanListTheorems!ListInsertProperties`, `ListInsertOrder` | what an insertion returns and preserves |
| `VulcanMemProofs!Intact`, `Exclusive`, `Zeroed`, `Kept`, `Implements` | `FreeListIntact`, `LentOnce`, `NoDataLeak`, `DataKept`, `ImplementsBlockPool` |
| `VulcanMemProofs!InStorage` | `Spec => [](i = Total => (BlocksInStorage <=> Total = 0 \/ BlockBytes % 4 = 0))`: a built pool lies inside what `VK_POOL_DECLARE` declares exactly for block sizes that are multiples of 4 |
| `VulcanMemProofs!Apart`, `GrantsWhatFits`, `HighWater` | `Modest => (ArenaSpec => []P)` for `TensorsApart`, `RefusedOnlyWhenFull`, `PeakIsHighWater`: no address in the buffer wraps when it is aligned, no size when padding is added. The last says the peak exactly: no less and no more than the furthest any tensor reached |
| `VulcanUartProofs!KickNotMissed`, `TypeCorrect` | `NoMissedKick`, `UartTypeOK` always hold |
| `VulcanUartProofs!TransmissionKeepsOrder` | under `OneProducer`: `Spec => TransmitsInOrder`, the driver implements `ByteChannel` for sending |
| `VulcanUartProofs!ReceptionKeepsOrder` | `Spec => ReceivesInOrder`, and for receiving |
| `VulcanUartProofs!ArgumentsPrinted` | `PrintfSpec => []PrintsArguments`, for any even width of the word |
| `VulcanDriverProofs!StreamAtWorkIsBusy`, `DmaTypeCorrect` | `EnabledIsBusy`, `DmaTypeOK` always hold (the latter, on which the others rest, is in no run) |
| `VulcanDriverProofs!DriversKeepBusy` | the same of `EnabledIsBusy` under the SPI driver, the demo and the waits |
| `VulcanDriverProofs!SpiWaitMeansDone` | `SpiSpec => WaitMeansDone`, with timeouts, repeated waits and restarts |
| `VulcanDriverProofs!DemoBatchFresh`, `DemoBatchOnce` | `DemoSpec => BatchFresh`, `DemoSpec => BatchOnce` |
| `VulcanDriverProofs!WaitNeverEarly` | `WaitSpec => NeverEarly`, with a tick count that wraps |
| `VulcanDriverProofs!PinsStay` | `GpioSpec => []PinsKept`: any tasks and handlers, of any priorities |

`QueuesConsistent` is not inductive by itself. `SchedInv` adds: types; how far
`vk_start` is (no switch before it is through, the head of the queue still first
between its two steps); that idle only waits or runs, which is why a switch
always finds a task; that the task that executes is RUNNING except between the
critical section of sleep or exit and the switch, where a tick may have made it
READY; and that the TCB of an unfinished creation is nobody's. The proof has
one lemma per action over three lemmas on queues (`HoldsInsert`, `HoldsPop`,
`HoldsOther`). `HighestPriorityRuns` adds that a task that is not preempted and
not a creator is at least as urgent as the ready queue whenever no exception is
active or pending. `SleepersOnTime` adds that sleepers are due after the last tick
that was handled. `SleepExact` relates the histories to the wake-up time
(`ElapsedInv`): what is still to sleep is how far that time lies ahead, and this is 0
only in the tick that wakes the sleeper, because outside a tick no sleeper is overdue and
within one the handler returns only when none is. `UniqueIds` adds that ids of live tasks are below `task_count`, and
that what the creator read of it still holds when it stores, which needs that it
is alone. The list theorems rest on positions: insertion is at the
first place whose key is greater.

The scheduler is mapped to `Dispatcher` by taking the ready queue for the set of its tasks
and for the pairs of equals in it, in their order (`Ahead`); `Running` is `vk_current` while
its state says so, and a switch has begun from PendSV's entry on (`Switching`). Then the
boot code's creations, the insertion of `vk_task_create`, a wake-up in SysTick and
`vk_mutex_unlock` with a waiter are `Arrive`; the stores of `vk_task_create` are `Prepare`;
the critical sections of sleep, exit and a blocking `vk_mutex_lock` are `Leave`; PendSV's
entry is `Begin`, and its end and that of `vk_start`'s choice are `Dispatch`; everything
else stutters. `AheadInsert` and `AheadTail` say what an insertion and the removal of the
head do to the pairs, and `AheadAgreement` that the priority of a task that is not on the
queue, a reused TCB's, does not matter. The invariant needed is `SchedInv`, and for the mutexes
`QueueInv`: the lemmas are stated for `InvBut(away)`, so they serve both. `Dispatcher` says
nothing of when a switch is asked for: that is `HighestPriorityRuns`, and liveness. A switch
that finds no task, and a task overtaken by an equal, are no steps of `Dispatcher`;
`SomethingRuns` and `ServedInOrder` say these two of the code's own variables (the latter of
the whole queue, not of equals only), and are proved and in no run.

Mutual exclusion needs of the scheduler only that a task executes as `vk_current`
outside exceptions: `MonitorInv` says that while the monitor is exclusive the
task that executes is between its LDREX and its STREX and the lock word is still 0,
since every exception clears the monitor. That no wake-up is lost needs all of the
scheduler. A task on a mutex's queue is BLOCKED and not on the sleep queue, which
`SchedInv` excludes; so the lemmas of `VulcanSchedProofs` are stated for `InvBut(away)`,
the invariant with the tasks in `away` blocked elsewhere, and `SchedInv` is
`InvBut({})`. `QueueInv` takes the waiters for `away`. It adds that a waiter is still at
the place where it queued itself (`WaitInv`): a task that executes elsewhere, or has
been woken, waits in no queue.

`PoolInv` says that the words of the blocks link exactly the sequence `stack`, and that
what a client has cleared so far of the block it popped is zero; that stays so because
nobody else has that block, which is `LentOnce`, and so rests on the whole list.
`Push` and `Pop` are its two lemmas, and the refinement follows step by step:
`vk_mem_alloc` is `Lend`, `vk_mem_free` is `TakeBack`, and everything else a stutter. The arena's theorems rest on `Arithmetic`: without
wrapping, `Aligned` is the least multiple of the alignment from `ptr` on
(`NextMultiple`) and the test of `vk_arena_alloc` says that the tensor ends in the
buffer.

`EnabledIsBusy` needs to know that no flag that ends a transfer, up or already read
by the handler, is about while the stream is at work (`EndedStands`), and that the
stream is off between the two steps of a call (`CallDisables`). `NoMissedKick` is inductive
with the types and the room in `readline`'s buffer: `tx_busy` and TXEIE change
together, and a producer that advances the head goes on to the kick.

The bytes in the driver are those in the FIFO and those in the ring, and the ring's are a
sequence read off the slots from the tail to the head. Three lemmas about any ring say what
a new head, a new tail and a store outside do to that sequence (`RingPush`, `RingPop`,
`RingHead`), by arithmetic of one wrap. `SlotInv` adds what the producer knows between its
steps: the head has not moved, there is room behind it, and the slot at the head holds
its byte. That is where one producer is needed. Each step then is a `Put`, a `Take`, a `Lose`
or a stutter; a byte is lost when the receive ring is full, which is where
`ByteChannel` allows it.

`PrintfInv` says that every numeral of what is left of `u`, followed by `tmp` read backwards, shows
the number (`DivideInv`), and from then on that what has been put, followed by the rest of
`tmp` backwards, does (`ReverseInv`). `Value` is a recursive function; that such a function exists,
that its values do not depend on where it ends, and so that a digit more multiplies by the
base and adds (`ValueAppend`), is by induction. The library's theorems of induction take
an operator, which the provers cannot instantiate; `VulcanLemmas!Induction` says it of a set of
numbers instead, and follows from the least element of every set that is not empty
(`Least`), which the library has in first-order form.

The drivers over DMA take each step of `VulcanDma`'s variables from `DriverStep` (`SpiUsesDma`,
`WaitUsesDma` and the like), so they keep `DmaInv`. SPI adds, for a transfer that found no
other under way, that the line is at rest until its CSTART and EOT comes only when its
frames went over (`LineInv`), and that an end of the receive stream that is still to be
handled, or that `dma_done` tells, is this transfer's: before its start the stream is off and
no end waits (`StreamInv`). That the frames in the buffer are its own is a count
(`FramesInv`): no more have been moved or wait in the FIFO than went over the line. The demo adds that a
TCIF, raised or read, means a filled second half or a call under way (`BatchInv`), and that
from its look at the length to its clearing `task_infer` has an untaken batch (`TakenInv`).
The waits add that, until `timeout_ms` ticks have
passed, the tick count is as far below a deadline that did not wrap as there are ticks left
(`DeadlineInv`), and that CYCCNT minus `start` modulo its width is the cycles spent
(`DelayInv`). `PortInv(p)` is about a caller p that interrupts no rewriter of the port
(`Sheltered`): what the loads and stores left to it will make of its pin (`Remaining`), and
that whatever register anybody has loaded still holds p's pin as the port does. For when p
runs, nobody else has a register loaded (`OthersQuiet`), and the others change only their
own pins of what they have loaded.

Only model-checked: everything about fairness, that is `SleepersWake`,
`HighestGetsProcessor`, `PeersShareProcessor`, `LockersServed`, `RingDrains`, `BusyEnds`,
`WaitReturns`, `AdcCallsReturn`, `BatchesComputed` and `WaitEnds`: liveness is out of the
prover's reach. The runs
in which a property is found violated are about one small instance each.

## Not modelled

* **The arithmetic of `vk_spi_wait`'s deadline**, which is `vk_dma_wait`'s (`VulcanWait` has
  it): in `VulcanSpi` a timeout may come at any look. Of the SPI a client's own callback. Its bus mutex is a mutex of `VulcanMutex` and its chip
  select a pin of `VulcanGpio`.
* **Clock tree**: `vk_clock_init` is straight-line code that waits on hardware flags.
* **Clock enable of GPIO ports**: a read-modify-write of one register, before use.
* **The FPU half of a frame**, taken with the integer half; `vk_stack_unused`, which
  changes nothing.
* **Values**: samples, frames and tensors' contents; channel sequence registers of the
  ADC; register set-up in the `init` functions, as far as nothing later depends on it.
* **The `VK_ERR_PARAM` returns of `vk_dma_init`**, which change nothing: channels are
  configured with a stream that exists.
* **A second `vk_adc_init`**, and a blocking read after it: they wait for an ADRDY that was
  cleared and does not come again.
* **The wrap of an arena's sizes**, described above.
* **Other tasks of the demo**, which print, toggle and sleep; start-up code, vector table,
  linker script and build files (constants without behaviour). What they lack is
  listed above.
* In `VulcanAdc` a handler is quicker than half a buffer: no second half ends under it.

## Plan

Done, in this order: lists and scheduler with proofs; sleep history; mutex; pool
with refinement and proofs; arena; UART with refinement; DMA with proofs; SPI; the
context switch; ADC and demo; timed waits; GPIO; formats of `vk_printf`; proofs of the
mutex, the ids, the UART's kick and the pool's storage; of sleep, the UART's rings as
implementations of `ByteChannel`, SPI, demo, waits and GPIO; of `vk_printf`'s numerals; the
abstract dispatcher, and that the scheduler and the mutexes implement it.

Left: an abstract `Transfer` (a completion is reported once, to the transfer it belongs to)
as far as the DMA driver keeps it: aborted transfers break it.

New runs stay small in number: a composition that contains a component takes the
place of the component's own run.
