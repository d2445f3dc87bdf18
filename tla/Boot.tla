-------------------------------- MODULE Boot --------------------------------
(***************************************************************************)
(* From reset to the main loop and back (src/main.c, console.c, cortex.c,  *)
(* board.c, usb/hw_at32f4.c): initialisation, the serial console with its  *)
(* crash dump, the choice of the USB driver, and the ways to a reset.      *)
(* What the main loop does is in the modules of its parts; the hand-over   *)
(* to the bootloader is in Hid.                                            *)
(***************************************************************************)
EXTENDS Mcu

CONSTANTS
    CHARS,               \* characters to a line
    BANNER, DUMP         \* lines printed at boot and at a crash: 4, 6

ASSUME BootAssumption ==
    CHARS \in Nat \ {0} /\ BANNER \in Nat /\ DUMP \in Nat \ {0}

VARIABLES
    debug,               \* not NDEBUG
    context,             \* "thread", or "crash" inside EXC_unexpected
    primask,             \* interrupts are disabled
    saved,               \* vprintk's flags
    line,                \* whose line is being printed, or "none" ...
    left,                \* ... and the characters still to come
    todo,                \* lines to print before the program goes on
    usart,               \* the USART and its interrupt are on
    rx,                  \* a character waits in it
    drv,                 \* the USB driver
    reset_flag           \* the next reset is to start the bootloader

console == <<primask, saved, line, left, todo, usart, rx>>
vars == <<pc, chip, sysclk_mhz, apb_mhz, rcc, latency, enr, i, unclocked,
          debug, context, console, drv, reset_flag>>

Places ==
    {"reset", "identify", "oscillator", "wait_hse", "pll", "wait_pll",
     "wait_switch", "peripherals", "fatal", "time", "console", "board",
     "banner", "usb", "loop", "deinit", "detached", "resetting",
     "bootloader"}

TypeOK ==
    /\ pc \in Places /\ at32f4_series \in Series \cup {UNKNOWN}
    /\ FAST_AT32F403A \in BOOLEAN
    /\ sysclk_mhz \in Nat /\ apb_mhz \in Nat
    /\ rcc \in RccType /\ latency \in Nat /\ enr \subseteq Peripherals
    /\ i \in 0..HSE_TRIES /\ unclocked \in BOOLEAN
    /\ debug \in BOOLEAN /\ context \in {"thread", "crash"}
    /\ primask \in BOOLEAN /\ saved \in BOOLEAN
    /\ line \in {"none", "thread", "crash"} /\ left \in 0..CHARS
    /\ todo \in Nat
    /\ usart \in BOOLEAN /\ rx \in BOOLEAN
    /\ drv \in {"none", "usbd", "dwc_otg"} /\ reset_flag \in BOOLEAN

-----------------------------------------------------------------------------
(* Reset, and what main does first: relocated data has its initial values.  *)

hardware_reset ==
    /\ rcc' = AtReset /\ latency' = 0 /\ enr' = {}
    /\ usart' = FALSE /\ rx' = FALSE
    /\ primask' = FALSE /\ context' = "thread"

Init ==
    /\ pc = "reset"
    /\ at32f4_series \in Series \cup {UNKNOWN}
    /\ FAST_AT32F403A \in BOOLEAN /\ debug \in BOOLEAN
    /\ sysclk_mhz = 144 /\ apb_mhz = 72 /\ i = 0 /\ saved = FALSE
    /\ rcc = AtReset /\ latency = 0 /\ enr = {}
    /\ usart = FALSE /\ rx = FALSE
    /\ primask = FALSE /\ context = "thread"
    /\ line = "none" /\ left = 0 /\ todo = 0
    /\ drv = "none" /\ unclocked = FALSE /\ reset_flag = FALSE

relocate_data ==
    /\ goes("reset", "identify") /\ ~reset_flag
    /\ sysclk_mhz' = 144 /\ apb_mhz' = 72 /\ i' = 0 /\ drv' = "none"
    /\ UNCHANGED <<chip, rcc, latency, enr, unclocked, debug, context,
                   console, reset_flag>>

check_bootloader_requested ==
    /\ goes("reset", "bootloader") /\ reset_flag
    /\ reset_flag' = FALSE
    /\ UNCHANGED <<chip, sysclk_mhz, apb_mhz, rcc, latency, enr, i, unclocked,
                   debug, context, console, drv>>

mcu_step ==
    /\ stm32_init /\ UNCHANGED <<debug, context, console, drv, reset_flag>>

oscillator_step ==
    /\ oscillators /\ UNCHANGED <<debug, context, console, drv, reset_flag>>

-----------------------------------------------------------------------------
(* Initialisation.                                                          *)

hardware == <<chip, sysclk_mhz, apb_mhz, rcc, latency, i, debug>>
printing == <<saved, line, left, rx>>

idle == context = "thread" /\ line = "none" /\ todo = 0

time_init ==
    /\ idle /\ goes("time", "console")
    /\ enr' = enr \cup {"TIM5"} /\ touches({"TIM5"}, enr')
    /\ UNCHANGED <<hardware, context, console, drv, reset_flag>>

\* With console_crash_on_input; neither exists with NDEBUG.
console_init ==
    /\ idle /\ goes("console", "board")
    /\ usart' = debug
    /\ IF debug
       THEN /\ enr' = enr \cup {"USART1"}
            /\ touches({"IOPA", "USART1"}, enr')
       ELSE UNCHANGED <<enr, unclocked>>
    /\ UNCHANGED <<hardware, context, primask, printing, todo, drv,
                   reset_flag>>

lines(n) == IF debug THEN n ELSE 0

board_init ==
    /\ idle /\ goes("board", "banner")
    /\ touches({"IOPA", "IOPB"}, enr) /\ todo' = lines(BANNER)
    /\ UNCHANGED <<hardware, enr, context, primask, printing, usart, drv,
                   reset_flag>>

keyboard_init ==
    /\ idle /\ goes("banner", "usb")
    /\ touches({"IOPA", "IOPB", "IOPC"}, enr)
    /\ UNCHANGED <<hardware, enr, context, console, drv, reset_flag>>

controller == IF at32f4_series = AT32F415 THEN "OTGFS" ELSE "USB"

hw_usb_init ==
    /\ idle /\ goes("usb", "loop")
    /\ drv' = IF at32f4_series = AT32F415 THEN "dwc_otg" ELSE "usbd"
    /\ enr' = enr \cup {controller} /\ touches({controller}, enr')
    /\ UNCHANGED <<hardware, context, console, reset_flag>>

-----------------------------------------------------------------------------
(* The main loop uses the ports, the timer and the controller, and may be   *)
(* asked for the bootloader.                                                *)

driven == IF drv = "usbd" THEN "USB" ELSE "OTGFS"

loop ==
    /\ idle /\ pc = "loop"
    /\ touches({"IOPA", "IOPB", "IOPC", "TIM5", driven}, enr)
    /\ UNCHANGED <<pc, hardware, enr, context, console, drv, reset_flag>>

reset_to_bootloader ==
    /\ idle /\ goes("loop", "deinit")
    /\ UNCHANGED <<hardware, enr, unclocked, context, console, drv, reset_flag>>

clocks_after == enr'                    \* variant: deinit with the clock off
clocks_before == enr

hw_usb_deinit ==
    /\ idle /\ goes("deinit", "detached")
    /\ enr' = enr \ {driven}
    /\ touches(IF drv = "dwc_otg" THEN {"OTGFS"} ELSE {}, clocks_before)
    /\ UNCHANGED <<hardware, context, console, drv, reset_flag>>

\* The flag, and IRQ_global_disable of system_reset.
request_bootloader ==
    /\ idle /\ goes("detached", "resetting")
    /\ reset_flag' = TRUE
    /\ primask' = TRUE /\ todo' = lines(1)
    /\ UNCHANGED <<hardware, enr, unclocked, context, printing, usart, drv>>

-----------------------------------------------------------------------------
(* vprintk: ser_putc waits until the USART takes a character.               *)

leave_on == primask                          \* variant: nothing is masked
mask == TRUE                                 \* IRQ_global_save
unmask == FALSE                              \* variant: enables always
restored == saved                            \* IRQ_global_restore

vprintk ==
    /\ line = "none" /\ todo > 0
    /\ saved' = primask /\ primask' = mask
    /\ line' = context /\ left' = CHARS
    /\ UNCHANGED <<pc, hardware, enr, unclocked, context, todo, usart, rx, drv,
                   reset_flag>>

ser_putc ==
    /\ line = context /\ left > 0
    /\ touches({"USART1"}, enr)
    /\ left' = left - 1
    /\ UNCHANGED <<pc, hardware, enr, context, primask, saved, line, todo,
                   usart, rx, drv, reset_flag>>

vprintk_done ==
    /\ line = context /\ left = 0
    /\ line' = "none" /\ todo' = todo - 1
    /\ primask' = restored
    /\ UNCHANGED <<pc, hardware, enr, unclocked, context, saved, left, usart,
                   rx, drv, reset_flag>>

print == vprintk \/ ser_putc \/ vprintk_done

-----------------------------------------------------------------------------
(* Crashes and resets.                                                      *)

input ==
    /\ usart /\ ~rx /\ rx' = TRUE
    /\ UNCHANGED <<pc, hardware, enr, unclocked, context, primask, saved, line,
                   left, todo, usart, drv, reset_flag>>

\* An exception leaves the line it has interrupted where it is.
EXC_unexpected ==
    /\ context' = "crash" /\ line' = "none" /\ todo' = lines(DUMP)
    /\ UNCHANGED <<pc, hardware, enr, unclocked, primask, saved, left, usart,
                   rx, drv, reset_flag>>

preempts_faults == TRUE              \* variant: faults have lower priority
preempts == context = "thread"       \* RESET_IRQ_PRI is also that of faults

console_interrupt == usart /\ rx /\ ~primask /\ preempts /\ EXC_unexpected

\* A violated assertion is an illegal instruction.
canary_check == debug /\ pc = "loop" /\ idle /\ EXC_unexpected

\* After the dump, IRQ_global_disable of system_reset.
crash_resets ==
    /\ context = "crash" /\ line = "none" /\ todo = 0 /\ pc # "resetting"
    /\ pc' = "resetting" /\ primask' = TRUE /\ todo' = lines(1)
    /\ UNCHANGED <<hardware, enr, unclocked, context, printing, usart, drv,
                   reset_flag>>

system_reset ==
    /\ goes("resetting", "reset") /\ line = "none" /\ todo = 0
    /\ hardware_reset
    /\ UNCHANGED <<chip, sysclk_mhz, apb_mhz, i, unclocked, debug, saved, line,
                   left, todo, drv, reset_flag>>

Next ==
    \/ relocate_data \/ check_bootloader_requested
    \/ mcu_step \/ oscillator_step
    \/ time_init \/ console_init \/ board_init \/ keyboard_init \/ hw_usb_init
    \/ loop \/ reset_to_bootloader \/ hw_usb_deinit \/ request_bootloader
    \/ print \/ input \/ console_interrupt \/ canary_check
    \/ crash_resets \/ system_reset

Spec == Init /\ [][Next]_vars

(* The processor runs, the PLL locks and the USART sends.  The crystal need *)
(* not start, nor any request, input or fault come.                         *)
runs ==
    \/ relocate_data \/ check_bootloader_requested \/ mcu_step
    \/ time_init \/ console_init \/ board_init \/ keyboard_init \/ hw_usb_init
    \/ hw_usb_deinit \/ request_bootloader
    \/ print \/ crash_resets \/ system_reset

pll_step == pll_locks /\ UNCHANGED <<debug, context, console, drv, reset_flag>>

FairSpec == Spec /\ WF_vars(runs) /\ WF_vars(pll_step)

-----------------------------------------------------------------------------
(* Correctness.                                                             *)

(* Every variable has its type, and the clocks are switched safely: of the  *)
(* wait states, the oscillators and the PLL, nothing is missing when the    *)
(* processor needs it (stm32.c:29-121).                                     *)
ClocksSwitched == TypeOK /\ ClockSafe

(* No peripheral's registers are used while its clock is off - such a write *)
(* is lost, such a read is 0 - whatever is enabled, assigned and disabled   *)
(* on the way from reset through initialisation to usb_deinit               *)
(* (stm32.c:123-149, console.c:69-92, hw_at32f4.c:16-52).                   *)
ClockedAccess == ~unclocked

(* A crash dump never begins inside another line, its own or the program's: *)
(* the interrupt that asks for it waits until the line is out               *)
(* (console.c:27-55).                                                       *)
LinesWhole == [][line # "none" /\ line' = "none" => left = 0]_vars

(* Once system_reset has begun nothing comes in between: its own printk     *)
(* must not enable the interrupts it has disabled (cortex.c:123-131,        *)
(* console.c:34, 52).                                                       *)
ResetIsFinal ==
    [][pc = "resetting" => context' = context \/ pc' = "reset"]_vars

(* Every start ends: in the main loop, in a crash dump, in the bootloader   *)
(* if it was asked for or, with the wrong chip or a dead crystal, in the    *)
(* blinking of the LED.  And every crash ends in a reset, although the      *)
(* character that caused it is never read and its interrupt stays           *)
(* (stm32.c:44-51, 84-100; main.c:43-74; cortex.c:16-48, 123-131).          *)
BootEnds ==
    /\ pc = "reset" ~>
           pc \in {"loop", "fatal", "bootloader"} \/ context = "crash"
    /\ context = "crash" ~> pc = "reset"
=============================================================================
