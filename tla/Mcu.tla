-------------------------------- MODULE Mcu --------------------------------
(***************************************************************************)
(* The processor from reset to its full speed (src/mcu/at32f4/stm32.c,     *)
(* board.c): which chip it is, its clocks, and the clocks of its           *)
(* peripherals.  pc is where the program is; each step leaves it at the    *)
(* next, and module Boot joins the steps.                                  *)
(***************************************************************************)
EXTENDS Integers, FiniteSets

CONSTANTS
    AT32F403, AT32F403A, AT32F415, UNKNOWN,     \* what at32f4_series may be
    HSE_TRIES                                   \* ms for the crystal: 1000

ASSUME McuAssumption ==
    /\ HSE_TRIES \in Nat
    /\ Cardinality({AT32F403, AT32F403A, AT32F415, UNKNOWN}) = 4

VARIABLES
    pc,
    at32f4_series,
    FAST_AT32F403A,      \* the image is the firmware, not a bootloader
    sysclk_mhz, apb_mhz,
    rcc,                 \* RCC's oscillators, PLL and switches
    latency,             \* flash wait states
    enr,                 \* peripherals whose clock is enabled
    i,                   \* clock_init's count of milliseconds
    unclocked            \* history: a register was used without its clock

chip == <<at32f4_series, FAST_AT32F403A>>

Series == {AT32F403, AT32F403A, AT32F415}
Peripherals ==
    {"IOPA", "IOPB", "IOPC", "IOPF", "AFIO", "DMA1", "ACC", "TIM5", "USART1",
     "USB", "OTGFS"}

RccType ==
    [hsi : BOOLEAN, hse : {"off", "starting", "ready"},
     pll : {"off", "locking", "locked"}, mul : Nat, sw : {"hsi", "pll"},
     autostep : BOOLEAN, nodiv : BOOLEAN, hsi_for_usb : BOOLEAN,
     trim : BOOLEAN]

\* Every reset leaves the processor so; on HSI it runs at 8MHz.
AtReset ==
    [hsi |-> TRUE, hse |-> "off", pll |-> "off", mul |-> 0, sw |-> "hsi",
     autostep |-> FALSE, nodiv |-> FALSE, hsi_for_usb |-> FALSE,
     trim |-> FALSE]

hsi_mhz == 8
hse_mhz == 8                             \* of the only board there is
running_mhz == IF rcc.sw = "hsi" THEN hsi_mhz ELSE hse_mhz * rcc.mul

goes(from, to) == pc = from /\ pc' = to

\* The program uses the registers of ps while clocks are on.
touches(ps, clocks) == unclocked' = (unclocked \/ ~(ps \subseteq clocks))

\* early_fatal blinks for ever.
early_fatal ==
    /\ pc' = "fatal" /\ enr' = enr \cup {"IOPB"}
    /\ touches({"IOPB"}, enr')

-----------------------------------------------------------------------------
identify_mcu ==
    /\ pc = "identify"
    /\ \/ /\ at32f4_series \in Series /\ pc' = "oscillator"
          /\ IF at32f4_series = AT32F403A /\ FAST_AT32F403A
             THEN sysclk_mhz' = 216 /\ apb_mhz' = 108
             ELSE UNCHANGED <<sysclk_mhz, apb_mhz>>
          /\ UNCHANGED <<enr, unclocked>>
       \/ at32f4_series \notin Series /\ early_fatal
          /\ UNCHANGED <<sysclk_mhz, apb_mhz>>
    /\ UNCHANGED <<chip, rcc, latency, i>>

start_oscillator ==
    /\ goes("oscillator", "wait_hse")
    /\ latency' = IF at32f4_series = AT32F415 THEN 4 ELSE latency
    /\ rcc' = [rcc EXCEPT !.hse = "starting"]
    /\ i' = 0
    /\ UNCHANGED <<chip, sysclk_mhz, apb_mhz, enr, unclocked>>

\* The crystal may never start.
hse_starts ==
    /\ rcc.hse = "starting" /\ rcc' = [rcc EXCEPT !.hse = "ready"]
    /\ UNCHANGED <<chip, pc, sysclk_mhz, apb_mhz, latency, enr, i, unclocked>>

too_long == i >= HSE_TRIES

wait_hse ==
    /\ pc = "wait_hse"
    /\ \/ /\ rcc.hse = "ready" /\ pc' = "pll"
          /\ UNCHANGED <<i, enr, unclocked>>
       \/ /\ rcc.hse # "ready" /\ ~too_long
          /\ i' = i + 1
          /\ UNCHANGED <<pc, enr, unclocked>>
       \/ /\ rcc.hse # "ready" /\ too_long
          /\ early_fatal /\ UNCHANGED i
    /\ UNCHANGED <<chip, sysclk_mhz, apb_mhz, rcc, latency>>

pllmul_fixed == 18                              \* variant: of 144MHz
pllmul == sysclk_mhz \div 8

start_pll ==
    /\ goes("pll", "wait_pll")
    /\ rcc' = [rcc EXCEPT !.mul = pllmul, !.pll = "locking"]
    /\ UNCHANGED <<chip, sysclk_mhz, apb_mhz, latency, enr, i, unclocked>>

pll_locks ==
    /\ rcc.pll = "locking" /\ rcc' = [rcc EXCEPT !.pll = "locked"]
    /\ UNCHANGED <<chip, pc, sysclk_mhz, apb_mhz, latency, enr, i, unclocked>>

steps_up == at32f4_series \in {AT32F403A, AT32F415}

\* SW is written; its effect is seen in SWS, as soon as the PLL runs.
select_pll ==
    /\ goes("wait_pll", "wait_switch")
    /\ rcc.pll = "locked"
    /\ rcc' = [rcc EXCEPT !.sw = "pll", !.autostep = steps_up]
    /\ UNCHANGED <<chip, sysclk_mhz, apb_mhz, latency, enr, i, unclocked>>

fast_usb == at32f4_series = AT32F403A /\ FAST_AT32F403A
keep_hsi_never == FALSE                  \* variant: HSI is no longer needed
keep_hsi == fast_usb

\* The last writes of clock_init.
settle_clocks ==
    /\ goes("wait_switch", "peripherals")
    /\ rcc' = [rcc EXCEPT !.autostep = FALSE,
                          !.nodiv = fast_usb, !.hsi_for_usb = fast_usb,
                          !.hsi = keep_hsi]
    /\ UNCHANGED <<chip, sysclk_mhz, apb_mhz, latency, enr, i, unclocked>>

basic == {"IOPA", "IOPB", "IOPC", "IOPF", "AFIO", "DMA1"}

\* The enable registers are assigned: what was on before goes off.
peripheral_init ==
    /\ goes("peripherals", "time")
    /\ enr' = basic \cup (IF fast_usb THEN {"ACC"} ELSE {})
    /\ touches({"AFIO", "IOPA", "IOPB"} \cup (IF fast_usb THEN {"ACC"} ELSE {}),
               enr')
    /\ rcc' = [rcc EXCEPT !.trim = fast_usb]
    /\ UNCHANGED <<chip, sysclk_mhz, apb_mhz, latency, i>>

stm32_init ==
    \/ identify_mcu \/ start_oscillator \/ wait_hse \/ start_pll
    \/ select_pll \/ settle_clocks \/ peripheral_init

oscillators == hse_starts \/ pll_locks

-----------------------------------------------------------------------------
(* Correctness.                                                             *)

(* Where clock_init is still to come, or has given up.                      *)
BeforeClocks ==
    {"reset", "bootloader", "identify", "oscillator", "wait_hse", "fatal",
     "pll", "wait_pll", "wait_switch"}

(* The processor never runs from a source that is off or not yet stable,    *)
(* nor faster than the flash follows; once the clocks are set it runs at    *)
(* the rate by which the program scales delays, timers and the baud rate    *)
(* (stm32.c:29-121, 151-163).                                               *)
ClockSafe ==
    /\ rcc.sw = "hsi" => rcc.hsi
    /\ rcc.sw = "pll" =>
          /\ rcc.hse = "ready" /\ rcc.pll = "locked"
          /\ at32f4_series = AT32F415 => latency = 4
    /\ pc \notin BeforeClocks =>
          running_mhz = sysclk_mhz /\ apb_mhz = running_mhz \div 2

(* While the USB controller has a clock it is 48MHz: a third of the system  *)
(* clock, or else the undivided and trimmed HSI (stm32.c:55-59, 112-142).   *)
UsbAt48 ==
    enr \cap {"USB", "OTGFS"} # {} =>
        IF rcc.hsi_for_usb
        THEN rcc.hsi /\ rcc.nodiv /\ rcc.trim /\ "ACC" \in enr
        ELSE running_mhz = 3 * 48
=============================================================================
