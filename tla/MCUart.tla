-------------------------------- MODULE MCUart --------------------------------
(***************************************************************************)
(* The UART driver for TLC.  A behaviour is about the transmit ring, with  *)
(* bytes coming in beside it, about the receive ring and its reader, or    *)
(* about vk_uart_printf, of which the rings see no more than the bytes.    *)
(***************************************************************************)
EXTENDS VulcanUart, VulcanPrintf

CONSTANT Noise   \* what comes in beside the transmission

VARIABLE side

(* The side that is not looked at starts with any one byte. *)
UartInit ==
  /\ Init
  /\ PrintfInit
  /\ side \in {"transmit", "receive", "printf"}
  /\ side # "receive" => byte \in Noise /\ rx_buf[0] \in Noise
  /\ side # "transmit" =>
       LET b == CHOOSE b \in TxByte : TRUE
       IN  tx_buf[0] = b /\ tx_line = b /\ \A p \in Producer : putting[p].byte = b

Transmits ==
  \/ \E p \in Producer : vk_uart_putc(p) \/ \E b \in TxByte : Put(p, b)
  \/ Shift
  \/ \E b \in Noise : Arrive(b)

Receives ==
  \/ \E n \in Lens : vk_uart_readline(n)
  \/ vk_uart_getc
  \/ \E b \in RxByte : Arrive(b)

UartNext ==
  /\ UNCHANGED side
  /\ \/ side = "transmit" /\ (Transmits \/ vk_uart_isr) /\ UNCHANGED printfVars
     \/ side = "receive" /\ (Receives \/ vk_uart_isr) /\ UNCHANGED printfVars
     \/ side = "printf" /\ vk_uart_printf /\ UNCHANGED vars

UartSpec == UartInit /\ [][UartNext]_<<vars, printfVars, side>> /\ Fairness

===============================================================================
