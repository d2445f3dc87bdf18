----------------------------- MODULE BootProof ------------------------------
(***************************************************************************)
(* Proofs about Boot, for any length of the lines, the banner and the dump *)
(* and any patience with the crystal: the clocks are switched safely, the  *)
(* USB controller has 48MHz, no peripheral is used without its clock,      *)
(* crash dumps are whole and a reset that has begun is final.              *)
(***************************************************************************)
EXTENDS Boot, TLAPS

(* The stages of initialisation, by what has been done.                     *)
Clocked ==          \* clock_init has returned
    {"peripherals", "time", "console", "board", "banner", "usb", "loop",
     "deinit", "detached", "resetting"}
Powered == Clocked \ {"peripherals"}              \* and peripheral_init
Timed == Powered \ {"time"}                       \* and time_init
Talking == Timed \ {"console"}                    \* and console_init
Switching == {"wait_pll", "wait_switch"}
Connected == {"loop", "deinit", "detached", "resetting"}

(* What clock_init and peripheral_init have established when pc is there.   *)
RateInv ==
    /\ pc = "identify" => sysclk_mhz = 144 /\ apb_mhz = 72
    /\ pc \in {"oscillator", "wait_hse", "pll"} \cup Switching \cup Clocked =>
          /\ sysclk_mhz = IF fast_usb THEN 216 ELSE 144
          /\ apb_mhz = IF fast_usb THEN 108 ELSE 72

OscillatorInv ==
    /\ pc \in {"reset", "bootloader", "identify", "oscillator"} =>
          rcc = AtReset
    /\ pc \notin {"wait_switch"} \cup Clocked => rcc.sw = "hsi"
    /\ pc \notin Clocked => rcc.hsi /\ ~rcc.hsi_for_usb
    /\ pc \in {"pll"} \cup Switching \cup Clocked => rcc.hse = "ready"
    /\ pc \in {"wait_switch"} \cup Clocked =>
          rcc.sw = "pll" /\ rcc.pll = "locked"
    /\ pc \in Switching \cup Clocked =>
          8 * rcc.mul = IF fast_usb THEN 216 ELSE 144
    /\ pc \in {"wait_hse", "pll"} \cup Switching \cup Clocked =>
          (at32f4_series = AT32F415 => latency = 4)
    /\ pc \in Clocked =>
          /\ rcc.hsi = fast_usb /\ rcc.nodiv = fast_usb
          /\ rcc.hsi_for_usb = fast_usb

PowerInv ==
    /\ unclocked = FALSE
    /\ pc \in Powered =>
          basic \subseteq enr /\ (fast_usb => "ACC" \in enr /\ rcc.trim)
    /\ pc \in Timed => "TIM5" \in enr
    /\ pc \in Talking /\ debug => "USART1" \in enr
    /\ pc \in {"loop", "deinit"} => driven \in enr
    /\ "USB" \in enr \/ "OTGFS" \in enr => pc \in Connected

(* Nothing is printed before the console is there, and no line without the  *)
(* interrupts disabled; after system_reset has disabled them they stay so.  *)
PrintInv ==
    /\ usart => pc \in Talking /\ debug
    /\ todo > 0 \/ context = "crash" => pc \in Talking /\ debug
    /\ line # "none" => line = context /\ todo > 0 /\ primask = TRUE
    /\ pc = "resetting" => primask = TRUE /\ (line # "none" => saved = TRUE)

IInv == TypeOK /\ RateInv /\ OscillatorInv /\ PowerInv /\ PrintInv

-----------------------------------------------------------------------------
(* Steps: types.                                                            *)

LEMMA ClockTypes ==
    ASSUME TypeOK, Next
    PROVE  rcc' \in RccType
<1>1. rcc \in RccType /\ sysclk_mhz \in Nat /\ FAST_AT32F403A \in BOOLEAN
    BY DEF TypeOK
<1>2. fast_usb \in BOOLEAN /\ steps_up \in BOOLEAN
    BY <1>1 DEF fast_usb, steps_up
<1>3. CASE UNCHANGED rcc
    BY <1>1, <1>3
<1>4. CASE rcc' = AtReset
    BY <1>4 DEF AtReset, RccType
<1>5. CASE start_oscillator \/ hse_starts \/ pll_locks
    BY <1>1, <1>5 DEF start_oscillator, hse_starts, pll_locks, RccType
<1>6. CASE start_pll
  <2>1. pllmul \in Nat
      BY <1>1, SMT DEF pllmul
  <2> QED BY <1>1, <1>6, <2>1 DEF start_pll, RccType
<1>7. CASE select_pll
    BY <1>1, <1>2, <1>7 DEF select_pll, RccType
<1>8. CASE settle_clocks
    BY <1>1, <1>2, <1>8 DEF settle_clocks, keep_hsi, RccType
<1>9. CASE peripheral_init
    BY <1>1, <1>2, <1>9 DEF peripheral_init, RccType
<1> QED
  <2> USE DEF hardware
  <2>1. ASSUME mcu_step \/ oscillator_step
        PROVE  rcc' \in RccType
      BY <2>1, <1>3, <1>5, <1>6, <1>7, <1>8, <1>9
      DEF mcu_step, stm32_init, oscillator_step, oscillators, identify_mcu,
         wait_hse
  <2>2. ASSUME system_reset
        PROVE  rcc' = AtReset
      BY <2>2 DEF system_reset, hardware_reset
  <2>3. ASSUME Next, ~(mcu_step \/ oscillator_step), ~system_reset
        PROVE  UNCHANGED rcc
      BY <2>3 DEF Next, relocate_data, check_bootloader_requested, time_init,
         console_init, board_init, keyboard_init, hw_usb_init, loop,
         reset_to_bootloader, hw_usb_deinit, request_bootloader, print,
         vprintk, ser_putc, vprintk_done, input, console_interrupt,
         canary_check, EXC_unexpected, crash_resets
  <2> QED BY <2>1, <2>2, <2>3, <1>3, <1>4

LEMMA TypeStep ==
    ASSUME TypeOK, PrintInv, rcc' \in RccType, Next
    PROVE  TypeOK'
<1> USE BootAssumption, McuAssumption
    DEF TypeOK, Places, goes, touches, chip, hardware, console, printing
<1>1. CASE relocate_data
    BY <1>1 DEF relocate_data, AtReset
<1>2. CASE check_bootloader_requested
    BY <1>2 DEF check_bootloader_requested
<1>3. CASE mcu_step /\ identify_mcu
  <2>1. CASE early_fatal
      BY <1>3, <2>1 DEF mcu_step, identify_mcu, early_fatal, Peripherals
  <2>2. CASE pc' = "oscillator" /\ UNCHANGED <<enr, unclocked>>
      BY <1>3, <2>2 DEF mcu_step, identify_mcu, early_fatal
  <2> QED BY <1>3, <2>1, <2>2 DEF mcu_step, identify_mcu
<1>4. CASE mcu_step /\ start_oscillator
    BY <1>4 DEF mcu_step, start_oscillator
<1>5. CASE mcu_step /\ wait_hse
  <2>1. CASE early_fatal /\ UNCHANGED i
      BY <1>5, <2>1 DEF mcu_step, wait_hse, early_fatal, Peripherals
  <2>2. CASE UNCHANGED <<enr, unclocked, i>> /\ pc' = "pll"
      BY <1>5, <2>2 DEF mcu_step, wait_hse
  <2>3. CASE ~too_long /\ i' = i + 1 /\ UNCHANGED <<pc, enr, unclocked>>
    <3>1. i' \in 0..HSE_TRIES
        BY <2>3 DEF too_long
    <3> QED BY <1>5, <2>3, <3>1 DEF mcu_step, wait_hse
  <2> QED BY <1>5, <2>1, <2>2, <2>3 DEF mcu_step, wait_hse
<1>6. CASE mcu_step /\ start_pll
    BY <1>6 DEF mcu_step, start_pll, pllmul
<1>7. CASE mcu_step /\ select_pll
    BY <1>7 DEF mcu_step, select_pll, steps_up
<1>8. CASE mcu_step /\ settle_clocks
    BY <1>8 DEF mcu_step, settle_clocks, keep_hsi
<1>9. CASE mcu_step /\ peripheral_init
    BY <1>9 DEF mcu_step, peripheral_init, Peripherals, basic
<1>10. CASE oscillator_step /\ hse_starts
    BY <1>10 DEF oscillator_step, hse_starts
<1>11. CASE oscillator_step /\ pll_locks
    BY <1>11 DEF oscillator_step, pll_locks
<1>12. CASE time_init
    BY <1>12 DEF time_init, idle, Peripherals
<1>13. CASE console_init
    BY <1>13 DEF console_init, printing, lines, idle, Peripherals
<1>14. CASE board_init
    BY <1>14 DEF board_init, printing, lines, idle
<1>15. CASE keyboard_init
    BY <1>15 DEF keyboard_init, idle
<1>16. CASE hw_usb_init
    BY <1>16 DEF hw_usb_init, controller, idle, Peripherals
<1>17. CASE loop
    BY <1>17 DEF loop, idle
<1>18. CASE reset_to_bootloader
    BY <1>18 DEF reset_to_bootloader, idle
<1>19. CASE hw_usb_deinit
    BY <1>19 DEF hw_usb_deinit, clocks_before, idle, Peripherals, driven
<1>20. CASE request_bootloader
    BY <1>20 DEF request_bootloader, printing, lines, idle
<1>21. CASE vprintk
    BY <1>21 DEF vprintk, mask
<1>22. CASE ser_putc
    BY <1>22 DEF ser_putc
<1>23. CASE vprintk_done
    BY <1>23 DEF vprintk_done, restored, PrintInv
<1>24. CASE input
    BY <1>24 DEF input
<1>25. CASE console_interrupt
    BY <1>25 DEF console_interrupt, EXC_unexpected, lines, preempts
<1>26. CASE canary_check
    BY <1>26 DEF canary_check, EXC_unexpected, lines, idle
<1>27. CASE crash_resets
    BY <1>27 DEF crash_resets, printing, lines
<1>28. CASE system_reset
    BY <1>28 DEF system_reset, hardware_reset, AtReset
<1> QED BY <1>1, <1>2, <1>3, <1>4, <1>5, <1>6, <1>7, <1>8, <1>9, <1>10, <1>11,
   <1>12, <1>13, <1>14, <1>15, <1>16, <1>17, <1>18, <1>19, <1>20, <1>21,
   <1>22, <1>23, <1>24, <1>25, <1>26, <1>27, <1>28 DEF Next, mcu_step,
   stm32_init, oscillator_step, oscillators, print

-----------------------------------------------------------------------------
(* Steps: the rates the program believes.                                   *)

LEMMA RateStep ==
    ASSUME TypeOK, RateInv, OscillatorInv, PrintInv, Next
    PROVE  RateInv'
<1> USE BootAssumption, McuAssumption
    DEF RateInv, Switching, Clocked, fast_usb, goes, touches, chip, hardware,
       console, printing
<1>1. CASE relocate_data
    BY <1>1 DEF relocate_data, AtReset
<1>2. CASE check_bootloader_requested
    BY <1>2 DEF check_bootloader_requested
<1>3. CASE mcu_step /\ identify_mcu
    BY <1>3 DEF mcu_step, identify_mcu, early_fatal, Series
<1>4. CASE mcu_step /\ start_oscillator
    BY <1>4 DEF mcu_step, start_oscillator
<1>5. CASE mcu_step /\ wait_hse
    BY <1>5 DEF mcu_step, wait_hse, early_fatal, too_long
<1>6. CASE mcu_step /\ start_pll
    BY <1>6 DEF mcu_step, start_pll, pllmul
<1>7. CASE mcu_step /\ select_pll
    BY <1>7 DEF mcu_step, select_pll, steps_up
<1>8. CASE mcu_step /\ settle_clocks
    BY <1>8 DEF mcu_step, settle_clocks, keep_hsi
<1>9. CASE mcu_step /\ peripheral_init
    BY <1>9 DEF mcu_step, peripheral_init
<1>10. CASE oscillator_step /\ hse_starts
    BY <1>10 DEF oscillator_step, hse_starts
<1>11. CASE oscillator_step /\ pll_locks
    BY <1>11 DEF oscillator_step, pll_locks
<1>12. CASE time_init
    BY <1>12 DEF time_init, idle
<1>13. CASE console_init
    BY <1>13 DEF console_init, printing, lines, idle
<1>14. CASE board_init
    BY <1>14 DEF board_init, printing, lines, idle
<1>15. CASE keyboard_init
    BY <1>15 DEF keyboard_init, idle
<1>16. CASE hw_usb_init
    BY <1>16 DEF hw_usb_init, controller, idle
<1>17. CASE loop
    BY <1>17 DEF loop, idle
<1>18. CASE reset_to_bootloader
    BY <1>18 DEF reset_to_bootloader, idle
<1>19. CASE hw_usb_deinit
    BY <1>19 DEF hw_usb_deinit, clocks_before, idle
<1>20. CASE request_bootloader
    BY <1>20 DEF request_bootloader, printing, lines, idle
<1>21. CASE vprintk
    BY <1>21 DEF vprintk, mask
<1>22. CASE ser_putc
    BY <1>22 DEF ser_putc
<1>23. CASE vprintk_done
    BY <1>23 DEF vprintk_done, restored
<1>24. CASE input
    BY <1>24 DEF input
<1>25. CASE console_interrupt
    BY <1>25 DEF console_interrupt, EXC_unexpected, lines, preempts
<1>26. CASE canary_check
    BY <1>26 DEF canary_check, EXC_unexpected, lines, idle
<1>27. CASE crash_resets
    BY <1>27 DEF crash_resets, printing, lines, PrintInv, Talking, Timed,
       Powered
<1>28. CASE system_reset
    BY <1>28 DEF system_reset, hardware_reset, AtReset
<1> QED BY <1>1, <1>2, <1>3, <1>4, <1>5, <1>6, <1>7, <1>8, <1>9, <1>10, <1>11,
   <1>12, <1>13, <1>14, <1>15, <1>16, <1>17, <1>18, <1>19, <1>20, <1>21,
   <1>22, <1>23, <1>24, <1>25, <1>26, <1>27, <1>28 DEF Next, mcu_step,
   stm32_init, oscillator_step, oscillators, print

-----------------------------------------------------------------------------
(* Steps: oscillators, PLL and switches.                                    *)

LEMMA OscillatorStep ==
    ASSUME TypeOK, RateInv, OscillatorInv, PrintInv, Next
    PROVE  OscillatorInv'
<1> USE BootAssumption, McuAssumption
    DEF OscillatorInv, AtReset, Switching, Clocked, fast_usb, goes, touches,
       chip, hardware, console, printing
<1>1. CASE relocate_data
    BY <1>1 DEF relocate_data, AtReset
<1>2. CASE check_bootloader_requested
    BY <1>2 DEF check_bootloader_requested
<1>3. CASE mcu_step /\ identify_mcu
    BY <1>3 DEF mcu_step, identify_mcu, early_fatal, Series
<1>4. CASE mcu_step /\ start_oscillator
    BY <1>4 DEF mcu_step, start_oscillator
<1>5. CASE mcu_step /\ wait_hse
    BY <1>5 DEF mcu_step, wait_hse, early_fatal, too_long
<1>6. CASE mcu_step /\ start_pll
    BY <1>6 DEF mcu_step, start_pll, pllmul, RateInv
<1>7. CASE mcu_step /\ select_pll
    BY <1>7 DEF mcu_step, select_pll, steps_up
<1>8. CASE mcu_step /\ settle_clocks
    BY <1>8 DEF mcu_step, settle_clocks, keep_hsi
<1>9. CASE mcu_step /\ peripheral_init
    BY <1>9 DEF mcu_step, peripheral_init
<1>10. CASE oscillator_step /\ hse_starts
    BY <1>10 DEF oscillator_step, hse_starts
<1>11. CASE oscillator_step /\ pll_locks
    BY <1>11 DEF oscillator_step, pll_locks
<1>12. CASE time_init
    BY <1>12 DEF time_init, idle
<1>13. CASE console_init
    BY <1>13 DEF console_init, printing, lines, idle
<1>14. CASE board_init
    BY <1>14 DEF board_init, printing, lines, idle
<1>15. CASE keyboard_init
    BY <1>15 DEF keyboard_init, idle
<1>16. CASE hw_usb_init
    BY <1>16 DEF hw_usb_init, controller, idle
<1>17. CASE loop
    BY <1>17 DEF loop, idle
<1>18. CASE reset_to_bootloader
    BY <1>18 DEF reset_to_bootloader, idle
<1>19. CASE hw_usb_deinit
    BY <1>19 DEF hw_usb_deinit, clocks_before, idle
<1>20. CASE request_bootloader
    BY <1>20 DEF request_bootloader, printing, lines, idle
<1>21. CASE vprintk
    BY <1>21 DEF vprintk, mask
<1>22. CASE ser_putc
    BY <1>22 DEF ser_putc
<1>23. CASE vprintk_done
    BY <1>23 DEF vprintk_done, restored
<1>24. CASE input
    BY <1>24 DEF input
<1>25. CASE console_interrupt
    BY <1>25 DEF console_interrupt, EXC_unexpected, lines, preempts
<1>26. CASE canary_check
    BY <1>26 DEF canary_check, EXC_unexpected, lines, idle
<1>27. CASE crash_resets
    BY <1>27 DEF crash_resets, printing, lines, PrintInv, Talking, Timed,
       Powered
<1>28. CASE system_reset
    BY <1>28 DEF system_reset, hardware_reset, AtReset
<1> QED BY <1>1, <1>2, <1>3, <1>4, <1>5, <1>6, <1>7, <1>8, <1>9, <1>10, <1>11,
   <1>12, <1>13, <1>14, <1>15, <1>16, <1>17, <1>18, <1>19, <1>20, <1>21,
   <1>22, <1>23, <1>24, <1>25, <1>26, <1>27, <1>28 DEF Next, mcu_step,
   stm32_init, oscillator_step, oscillators, print

-----------------------------------------------------------------------------
(* Steps: the clocks of the peripherals.                                    *)

LEMMA PowerStep ==
    ASSUME TypeOK, PowerInv, PrintInv, Next
    PROVE  PowerInv'
<1> USE BootAssumption, McuAssumption
    DEF PowerInv, PrintInv, Talking, Timed, Powered, Clocked, Connected,
       basic, driven, fast_usb, goes, touches, chip, hardware, console,
       printing
<1>1. CASE relocate_data
    BY <1>1 DEF relocate_data, AtReset
<1>2. CASE check_bootloader_requested
    BY <1>2 DEF check_bootloader_requested
<1>3. CASE mcu_step /\ identify_mcu
    BY <1>3 DEF mcu_step, identify_mcu, early_fatal, Series
<1>4. CASE mcu_step /\ start_oscillator
    BY <1>4 DEF mcu_step, start_oscillator
<1>5. CASE mcu_step /\ wait_hse
    BY <1>5 DEF mcu_step, wait_hse, early_fatal, too_long
<1>6. CASE mcu_step /\ start_pll
    BY <1>6 DEF mcu_step, start_pll, pllmul
<1>7. CASE mcu_step /\ select_pll
    BY <1>7 DEF mcu_step, select_pll, steps_up
<1>8. CASE mcu_step /\ settle_clocks
    BY <1>8 DEF mcu_step, settle_clocks, keep_hsi
<1>9. CASE mcu_step /\ peripheral_init
    BY <1>9 DEF mcu_step, peripheral_init, TypeOK, RccType
<1>10. CASE oscillator_step /\ hse_starts
    BY <1>10 DEF oscillator_step, hse_starts
<1>11. CASE oscillator_step /\ pll_locks
    BY <1>11 DEF oscillator_step, pll_locks
<1>12. CASE time_init
    BY <1>12 DEF time_init, idle
<1>13. CASE console_init
    BY <1>13 DEF console_init, printing, lines, idle, TypeOK
<1>14. CASE board_init
    BY <1>14 DEF board_init, printing, lines, idle
<1>15. CASE keyboard_init
    BY <1>15 DEF keyboard_init, idle
<1>16. CASE hw_usb_init
    BY <1>16 DEF hw_usb_init, controller, idle
<1>17. CASE loop
    BY <1>17 DEF loop, idle
<1>18. CASE reset_to_bootloader
    BY <1>18 DEF reset_to_bootloader, idle
<1>19. CASE hw_usb_deinit
    BY <1>19 DEF hw_usb_deinit, clocks_before, idle
<1>20. CASE request_bootloader
    BY <1>20 DEF request_bootloader, printing, lines, idle
<1>21. CASE vprintk
    BY <1>21 DEF vprintk, mask
<1>22. CASE ser_putc
    BY <1>22 DEF ser_putc, TypeOK
<1>23. CASE vprintk_done
    BY <1>23 DEF vprintk_done, restored
<1>24. CASE input
    BY <1>24 DEF input
<1>25. CASE console_interrupt
    BY <1>25 DEF console_interrupt, EXC_unexpected, lines, preempts
<1>26. CASE canary_check
    BY <1>26 DEF canary_check, EXC_unexpected, lines, idle
<1>27. CASE crash_resets
    BY <1>27 DEF crash_resets, printing, lines
<1>28. CASE system_reset
    BY <1>28 DEF system_reset, hardware_reset, AtReset
<1> QED BY <1>1, <1>2, <1>3, <1>4, <1>5, <1>6, <1>7, <1>8, <1>9, <1>10, <1>11,
   <1>12, <1>13, <1>14, <1>15, <1>16, <1>17, <1>18, <1>19, <1>20, <1>21,
   <1>22, <1>23, <1>24, <1>25, <1>26, <1>27, <1>28 DEF Next, mcu_step,
   stm32_init, oscillator_step, oscillators, print

-----------------------------------------------------------------------------
(* Steps: the console.                                                      *)

LEMMA PrintStep ==
    ASSUME TypeOK, PrintInv, Next
    PROVE  PrintInv'
<1> USE BootAssumption, McuAssumption
    DEF TypeOK, PrintInv, Talking, Timed, Powered, Clocked, goes, touches,
       chip, hardware, console, printing
<1>1. CASE relocate_data
    BY <1>1 DEF relocate_data, AtReset
<1>2. CASE check_bootloader_requested
    BY <1>2 DEF check_bootloader_requested
<1>3. CASE mcu_step /\ identify_mcu
    BY <1>3 DEF mcu_step, identify_mcu, early_fatal, Series
<1>4. CASE mcu_step /\ start_oscillator
    BY <1>4 DEF mcu_step, start_oscillator
<1>5. CASE mcu_step /\ wait_hse
    BY <1>5 DEF mcu_step, wait_hse, early_fatal, too_long
<1>6. CASE mcu_step /\ start_pll
    BY <1>6 DEF mcu_step, start_pll, pllmul
<1>7. CASE mcu_step /\ select_pll
    BY <1>7 DEF mcu_step, select_pll, steps_up
<1>8. CASE mcu_step /\ settle_clocks
    BY <1>8 DEF mcu_step, settle_clocks, keep_hsi
<1>9. CASE mcu_step /\ peripheral_init
    BY <1>9 DEF mcu_step, peripheral_init
<1>10. CASE oscillator_step /\ hse_starts
    BY <1>10 DEF oscillator_step, hse_starts
<1>11. CASE oscillator_step /\ pll_locks
    BY <1>11 DEF oscillator_step, pll_locks
<1>12. CASE time_init
    BY <1>12 DEF time_init, idle
<1>13. CASE console_init
    BY <1>13 DEF console_init, printing, lines, idle
<1>14. CASE board_init
    BY <1>14 DEF board_init, printing, lines, idle
<1>15. CASE keyboard_init
    BY <1>15 DEF keyboard_init, idle
<1>16. CASE hw_usb_init
    BY <1>16 DEF hw_usb_init, controller, idle
<1>17. CASE loop
    BY <1>17 DEF loop, idle
<1>18. CASE reset_to_bootloader
    BY <1>18 DEF reset_to_bootloader, idle
<1>19. CASE hw_usb_deinit
    BY <1>19 DEF hw_usb_deinit, clocks_before, idle
<1>20. CASE request_bootloader
    BY <1>20 DEF request_bootloader, printing, lines, idle
<1>21. CASE vprintk
    BY <1>21 DEF vprintk, mask
<1>22. CASE ser_putc
    BY <1>22 DEF ser_putc
<1>23. CASE vprintk_done
    BY <1>23 DEF vprintk_done, restored
<1>24. CASE input
    BY <1>24 DEF input
<1>25. CASE console_interrupt
    BY <1>25 DEF console_interrupt, EXC_unexpected, lines, preempts
<1>26. CASE canary_check
    BY <1>26 DEF canary_check, EXC_unexpected, lines, idle
<1>27. CASE crash_resets
    BY <1>27 DEF crash_resets, printing, lines
<1>28. CASE system_reset
    BY <1>28 DEF system_reset, hardware_reset, AtReset
<1> QED BY <1>1, <1>2, <1>3, <1>4, <1>5, <1>6, <1>7, <1>8, <1>9, <1>10, <1>11,
   <1>12, <1>13, <1>14, <1>15, <1>16, <1>17, <1>18, <1>19, <1>20, <1>21,
   <1>22, <1>23, <1>24, <1>25, <1>26, <1>27, <1>28 DEF Next, mcu_step,
   stm32_init, oscillator_step, oscillators, print

-----------------------------------------------------------------------------
(* The invariant holds.                                                     *)

LEMMA InitInv == Init => IInv
<1> SUFFICES ASSUME Init PROVE IInv
    OBVIOUS
<1> USE BootAssumption, McuAssumption DEF Init
<1>1. TypeOK
  <2>1. rcc \in RccType
      BY DEF AtReset, RccType
  <2>2. enr \subseteq Peripherals /\ i \in 0..HSE_TRIES /\ left \in 0..CHARS
      OBVIOUS
  <2>3. sysclk_mhz \in Nat /\ apb_mhz \in Nat /\ latency \in Nat /\ todo \in
     Nat
      OBVIOUS
  <2>4. pc \in Places
      BY DEF Places
  <2> QED BY <2>1, <2>2, <2>3, <2>4 DEF TypeOK
<1>2. RateInv /\ OscillatorInv
    BY DEF RateInv, OscillatorInv, AtReset, Switching, Clocked
<1>3. PowerInv
    BY DEF PowerInv, Talking, Timed, Powered, Clocked, Connected
<1>4. PrintInv
    BY DEF PrintInv
<1> QED BY <1>1, <1>2, <1>3, <1>4 DEF IInv

LEMMA Stutter == IInv /\ UNCHANGED vars => IInv'
<1> SUFFICES ASSUME IInv, UNCHANGED vars PROVE IInv'
    OBVIOUS
<1> USE DEF IInv, vars, chip, console
<1>1. TypeOK'
    BY DEF TypeOK
<1>2. RateInv' /\ OscillatorInv'
    BY DEF RateInv, OscillatorInv, fast_usb
<1>3. PowerInv'
    BY DEF PowerInv, fast_usb, driven
<1>4. PrintInv'
    BY DEF PrintInv
<1> QED BY <1>1, <1>2, <1>3, <1>4

LEMMA BootInvariant == Spec => []IInv
<1>1. IInv /\ [Next]_vars => IInv'
  <2> SUFFICES ASSUME IInv, Next PROVE IInv'
      BY Stutter
  <2> QED BY ClockTypes, TypeStep, RateStep, OscillatorStep, PowerStep,
     PrintStep
          DEF IInv
<1> QED BY InitInv, <1>1, PTL DEF Spec

-----------------------------------------------------------------------------
(* The processor is always fed by a running source, no faster than its      *)
(* flash follows, and at the rate the program believes (ClocksSwitched;     *)
(* stm32.c:29-121).                                                         *)
THEOREM ClocksAreSafe == Spec => []ClocksSwitched
<1>1. IInv => ClocksSwitched
  <2> SUFFICES ASSUME IInv PROVE ClocksSwitched
      OBVIOUS
  <2>1. rcc.sw = "hsi" => rcc.hsi
      BY DEF IInv, OscillatorInv, Clocked
  <2>2. rcc.sw = "pll" => pc \in {"wait_switch"} \cup Clocked
      BY DEF IInv, OscillatorInv
  <2>3. rcc.sw = "pll" => rcc.hse = "ready" /\ rcc.pll = "locked"
      BY <2>2 DEF IInv, OscillatorInv, Switching
  <2>4. rcc.sw = "pll" => (at32f4_series = AT32F415 => latency = 4)
      BY <2>2 DEF IInv, OscillatorInv, Switching
  <2>5. ASSUME pc \notin BeforeClocks
        PROVE  running_mhz = sysclk_mhz /\ apb_mhz = running_mhz \div 2
    <3>1. pc \in Clocked
        BY <2>5 DEF IInv, TypeOK, Places, BeforeClocks, Clocked
    <3>2. rcc.sw = "pll" /\ running_mhz = 8 * rcc.mul
        BY <3>1 DEF IInv, OscillatorInv, running_mhz, hse_mhz
    <3>3. running_mhz = IF fast_usb THEN 216 ELSE 144
        BY <3>1, <3>2 DEF IInv, OscillatorInv
    <3>4. /\ sysclk_mhz = IF fast_usb THEN 216 ELSE 144
          /\ apb_mhz = IF fast_usb THEN 108 ELSE 72
        BY <3>1 DEF IInv, RateInv
    <3> QED BY <3>3, <3>4
  <2> QED BY <2>1, <2>3, <2>4, <2>5 DEF IInv, ClocksSwitched, ClockSafe
<1> QED BY BootInvariant, <1>1, PTL

(* While its clock is on, the USB controller has 48MHz: from the PLL, or    *)
(* from the trimmed oscillator that was then kept on (UsbAt48;              *)
(* stm32.c:55-59, 112-142).                                                 *)
THEOREM UsbClock == Spec => []UsbAt48
<1>1. IInv => UsbAt48
  <2> SUFFICES ASSUME IInv, "USB" \in enr \/ "OTGFS" \in enr
               PROVE  IF rcc.hsi_for_usb
                      THEN rcc.hsi /\ rcc.nodiv /\ rcc.trim /\ "ACC" \in enr
                      ELSE running_mhz = 3 * 48
      BY DEF UsbAt48
  <2>1. pc \in Clocked /\ pc \in Powered
      BY DEF IInv, PowerInv, Connected, Clocked, Powered
  <2>2. CASE fast_usb
      BY <2>1, <2>2 DEF IInv, OscillatorInv, PowerInv
  <2>3. CASE ~fast_usb
    <3>1. rcc.sw = "pll" /\ 8 * rcc.mul = 144 /\ ~rcc.hsi_for_usb
        BY <2>1, <2>3 DEF IInv, OscillatorInv
    <3> QED BY <3>1 DEF running_mhz, hse_mhz
  <2> QED BY <2>2, <2>3
<1> QED BY BootInvariant, <1>1, PTL

(* No register of a peripheral is used while the peripheral has no clock,   *)
(* from reset to reset (ClockedAccess; stm32.c:123-149, console.c:69-92,    *)
(* hw_at32f4.c:16-52).                                                      *)
THEOREM NothingUnclocked == Spec => []ClockedAccess
<1>1. IInv => ClockedAccess
    BY DEF IInv, PowerInv, ClockedAccess
<1> QED BY BootInvariant, <1>1, PTL

(* An exception never cuts a line in two: the console's interrupt is off    *)
(* while a line is printed, and assertions fail between lines (LinesWhole;  *)
(* console.c:27-55).                                                        *)
THEOREM DumpsAreWhole == Spec => LinesWhole
<1>1. ASSUME IInv, [Next]_vars
      PROVE  [line # "none" /\ line' = "none" => left = 0]_vars
  <2> SUFFICES ASSUME line # "none", line' = "none", Next
               PROVE  left = 0
      BY <1>1
  <2>1. primask = TRUE
      BY <1>1 DEF IInv, PrintInv
  <2>2. ~console_interrupt /\ ~canary_check
      BY <2>1 DEF console_interrupt, canary_check, idle
  <2>3. UNCHANGED line \/ vprintk \/ vprintk_done
      BY <2>2 DEF Next, relocate_data, check_bootloader_requested, mcu_step,
         oscillator_step, time_init, console_init, board_init, keyboard_init,
         hw_usb_init, loop, reset_to_bootloader, hw_usb_deinit,
         request_bootloader, print, ser_putc, input, crash_resets,
         system_reset, console, printing
  <2> QED BY <2>3 DEF vprintk, vprintk_done
<1> QED BY BootInvariant, <1>1, PTL DEF Spec, LinesWhole

(* Nothing but the reset follows once system_reset has begun: interrupts    *)
(* stay off, across the lines it prints (ResetIsFinal; cortex.c:123-131).   *)
THEOREM ResetComes == Spec => ResetIsFinal
<1>1. ASSUME IInv, [Next]_vars
      PROVE  [pc = "resetting" => context' = context \/ pc' = "reset"]_vars
  <2> SUFFICES ASSUME pc = "resetting", Next
               PROVE  context' = context \/ pc' = "reset"
      BY <1>1
  <2>1. ~console_interrupt /\ ~canary_check
      BY <1>1 DEF IInv, PrintInv, console_interrupt, canary_check
  <2>2. UNCHANGED context \/ system_reset
      BY <2>1 DEF Next, relocate_data, check_bootloader_requested, mcu_step,
         oscillator_step, time_init, console_init, board_init, keyboard_init,
         hw_usb_init, loop, reset_to_bootloader, hw_usb_deinit,
         request_bootloader, print, vprintk, ser_putc, vprintk_done, input,
         crash_resets
  <2> QED BY <2>2 DEF system_reset, goes
<1> QED BY BootInvariant, <1>1, PTL DEF Spec, ResetIsFinal
=============================================================================

